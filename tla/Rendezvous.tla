----------------------------- MODULE Rendezvous -----------------------------
(***************************************************************************)
(* What a rendezvous promises (rendezvous.rs, module comment and struct    *)
(* Assignment), whatever carries its messages: there is one peer list, it  *)
(* names rank 0 and some of the workers, none twice; a worker learns       *)
(* either that list together with its own position in it, or that it has   *)
(* no place in this job.                                                   *)
(***************************************************************************)
EXTENDS Integers, Sequences

CONSTANTS Coord, Workers

VARIABLES agreed,    \* the peer list, or NotYet
          told       \* per worker: Pending, Failed, or its Assignment

NotYet  == << >>
Pending == [st |-> "pending"]
Failed  == [st |-> "failed"]

\* struct Assignment
Assigned(rank, peers) ==
    [st |-> "assigned", rank |-> rank, world |-> Len(peers), peers |-> peers]

vars == <<agreed, told>>

Init == agreed = NotYet /\ told = [w \in Workers |-> Pending]

PeerList(l) ==
    /\ l \in Seq(Workers \cup {Coord})
    /\ Len(l) > 0
    /\ l[1] = Coord
    /\ \A i, j \in 1..Len(l) : l[i] = l[j] => i = j

Agree ==
    /\ agreed = NotYet
    /\ PeerList(agreed')
    /\ UNCHANGED told

Tell(w) ==
    /\ told[w] = Pending
    /\ \E i \in 1..Len(agreed) :
          /\ agreed[i] = w
          /\ told' = [told EXCEPT ![w] = Assigned(i - 1, agreed)]
    /\ UNCHANGED agreed

Fail(w) ==
    /\ told[w] = Pending
    /\ told' = [told EXCEPT ![w] = Failed]
    /\ UNCHANGED agreed

Next == Agree \/ \E w \in Workers : Tell(w) \/ Fail(w)

Spec == Init /\ [][Next]_vars

=============================================================================
