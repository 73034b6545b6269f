----------------------------- MODULE Discovery -----------------------------
(***************************************************************************)
(* Mesh discovery over UDP broadcast (node.rs, discover_peers): every      *)
(* process announces its rank and data address until it has heard of as    *)
(* many ranks as its WORLD, and goes on announcing until its peers say     *)
(* they have too, or 3 s have passed.                                      *)
(*                                                                         *)
(* A process is the record of what it was started with, which also names   *)
(* its data address.  A beacon carries neither job nor world: every        *)
(* process that listens on the port takes it, whatever job it is of.  The  *)
(* LAN loses, repeats, delays and reorders beacons: one that was sent may  *)
(* be taken at any time, any number of times, or never.  A process hears   *)
(* its own beacons too; they tell it nothing and are left out.             *)
(***************************************************************************)
EXTENDS RankMaps

CONSTANTS Procs,   \* the processes, as records [job, rank, world]
          Lans     \* the sets of processes that may share one port

ASSUME ProcAssumption ==
    /\ Lans \subseteq SUBSET Procs
    /\ \A p \in Procs : /\ p = [job |-> p.job, rank |-> p.rank, world |-> p.world]
                        /\ p.world \in Nat \ {0} /\ p.rank \in 0..(p.world - 1)
    /\ \A p, q \in Procs : p.job = q.job => p.world = q.world

VARIABLES lan,        \* the processes of this behaviour
          state,      \* "running", or how the loop was left: "done", "linger"
          peers,      \* peers: rank -> address
          donePeers,  \* done_peers: the other ranks that said they know everyone
          sent,       \* the beacons announced so far
          heard       \* history: the processes whose beacons p took

discoverVars == <<lan, state, peers, donePeers, sent, heard>>

\* Mutant: a process that lacks one rank takes its list for complete.
CompleteButOne(p) == Cardinality(DOMAIN peers[p]) >= p.world - 1

Complete(p) == Cardinality(DOMAIN peers[p]) >= p.world

\* Mutant: nobody waits for the others.
EveryoneDoneUnasked(p) == Complete(p)

EveryoneDone(p) == Complete(p) /\ Cardinality(donePeers[p]) >= p.world - 1

Left(p) == state[p] \in {"done", "linger"}

\* In the loop, past the test that leaves it.
Looping(p) == state[p] = "running" /\ ~EveryoneDone(p)

DiscoverInit ==
    /\ lan \in Lans
    /\ state = [p \in lan |-> "running"]
    /\ peers = [p \in lan |-> [r \in {p.rank} |-> p]]
    /\ donePeers = [p \in lan |-> {}]
    /\ sent = {}
    /\ heard = [p \in lan |-> {}]

\* Mutant: the flag says the sender is there, not that it knows everyone.
AnnouncementAlwaysDone(p, done) == [from |-> p, done |-> TRUE]

\* The closure announce(done).
Announcement(p, done) == [from |-> p, done |-> done]

Announce(p) ==
    /\ Looping(p)
    /\ sent' = sent \cup {Announcement(p, Complete(p))}
    /\ UNCHANGED <<lan, state, peers, donePeers, heard>>

\* recv_from and the inserts that follow.
Recv(p, b) ==
    /\ Looping(p) /\ b \in sent /\ b.from # p
    /\ peers' = [peers EXCEPT ![p] = Put(@, b.from.rank, b.from)]
    /\ donePeers' = [donePeers EXCEPT ![p] =
          @ \cup (IF b.done /\ b.from.rank # p.rank THEN {b.from.rank} ELSE {})]
    /\ heard' = [heard EXCEPT ![p] = @ \cup {b.from}]
    /\ UNCHANGED <<lan, state, sent>>

\* The two ways out of the loop, each with the last announce(true).
Leave(p, how) ==
    /\ state' = [state EXCEPT ![p] = how]
    /\ sent' = sent \cup {Announcement(p, TRUE)}
    /\ UNCHANGED <<lan, peers, donePeers, heard>>

LeaveDone(p) == state[p] = "running" /\ EveryoneDone(p) /\ Leave(p, "done")

LeaveLinger(p) == Looping(p) /\ Complete(p) /\ Leave(p, "linger")

DiscoverNext ==
    \/ \E p \in lan : Announce(p) \/ LeaveDone(p) \/ LeaveLinger(p)
    \/ \E p \in lan, b \in sent : Recv(p, b)

DiscoverSpec == DiscoverInit /\ [][DiscoverNext]_discoverVars

\* What q announces every 100 ms gets through while q goes on announcing it.
Hears(p, q) ==
    /\ {p, q} \subseteq lan /\ Looping(q)
    /\ Recv(p, Announcement(q, Complete(q)))

DiscoverFairSpec ==
    /\ DiscoverSpec
    /\ \A p \in Procs :
          /\ WF_discoverVars(p \in lan /\ Announce(p))
          /\ WF_discoverVars(p \in lan /\ LeaveDone(p))
          /\ WF_discoverVars(p \in lan /\ LeaveLinger(p))
    /\ \A p, q \in Procs : p # q /\ p.job = q.job => SF_discoverVars(Hears(p, q))

-----------------------------------------------------------------------------
OfJob(p, S) == \A q \in S : q.job = p.job

\* The address of every rank of p's job, in rank order.
Roll(p) == [i \in 1..p.world |-> [job |-> p.job, rank |-> i - 1, world |-> p.world]]

\* The list discover_peers returns is the job's roll: it has nobody missing and
\* rank r at index r, unless an address of another job is in it.  The code only
\* counts the ranks it heard of, and values() drops them.
ListRight ==
    \A p \in lan :
        Left(p) /\ OfJob(p, {peers[p][r] : r \in DOMAIN peers[p]}) => Values(peers[p]) = Roll(p)

\* A process that leaves because its peers are done leaves nobody behind: every rank
\* of its job has its list by then, so none needs its announcements any more; and the
\* list is the job's roll.  Beacons of another job void it in two ways: a process
\* that took one may leave because of it, and a rank that took one may have only the
\* count right, with the other job's address in place of one it lacks.
LeftTogether ==
    \A p \in lan :
        state[p] = "done" /\ OfJob(p, heard[p]) =>
            \A r \in 0..(p.world - 1) : \E q \in lan :
                /\ q.job = p.job /\ q.rank = r /\ Complete(q)
                /\ OfJob(q, heard[q]) => Values(peers[q]) = Roll(q)

\* A rank of p's job is not there.
Missing(p) == \E r \in 0..(p.world - 1) : \A q \in lan : ~(q.job = p.job /\ q.rank = r)

\* A rank of p's job stopped announcing while p still lacked somebody: its 3 s of
\* lingering were over, or it took the beacons of another job for its peers'.
Abandoned(p) ==
    /\ ~Complete(p)
    /\ \E q \in lan : /\ q.job = p.job
                      /\ state[q] = "linger" \/ (state[q] = "done" /\ ~OfJob(q, heard[q]))

\* Discovery ends for every process of a job whose ranks are all started and none of
\* which stopped announcing too early, whatever other jobs announce on the port.
AllReturn == <>(\A p \in lan : Left(p) \/ Missing(p) \/ Abandoned(p))

=============================================================================
