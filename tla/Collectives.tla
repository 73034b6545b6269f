------------------------------ MODULE Collectives ------------------------------
(***************************************************************************)
(* The other collectives of ProcessGroup (rlx-driver, transport.rs:        *)
(* all_gather, broadcast, all_to_all, all_to_all_v, reduce, ppermute) over *)
(* tagged point-to-point messages.  Every rank makes the calls of one      *)
(* schedule, one after the other; nothing but the messages holds the ranks *)
(* together, and each collective uses one tag for all its calls.           *)
(*                                                                         *)
(* How long a send blocks is the transport's: MPI's may wait until the     *)
(* frame is received (capacity 0), a socket takes some frames, the inbox   *)
(* of NetTransport any number.                                             *)
(*                                                                         *)
(* A buffer is N chunks.  A chunk's value is the order in which inputs     *)
(* were folded into it and how often it was finalized.                     *)
(***************************************************************************)
EXTENDS Integers, Sequences, FiniteSets, SequencesExt

CONSTANTS N,          \* world size
          Schedules,  \* sequences of calls the job may consist of
          Counts,     \* send_counts[p] of each rank in all_to_all_v
          Capacities  \* frames to one peer a transport may take without blocking

Ranks == 0..(N - 1)

\* The arguments of a call that all ranks must agree on; `perm' is a set of pairs
\* in which no source and no destination comes twice.
Kinds == {"all_gather", "broadcast", "all_to_all", "all_to_all_v", "reduce", "ppermute"}
Call  == [kind : Kinds, root : Ranks, perm : SUBSET (Ranks \X Ranks)]

ASSUME CollectivesAssumption ==
    /\ N \in Nat \ {0, 1}
    /\ \A s \in Schedules : s # << >> /\ s \in Seq(Call)
    /\ \A s \in Schedules : \A i \in DOMAIN s : \A a, b \in s[i].perm :
           a[1] = b[1] \/ a[2] = b[2] => a = b
    /\ Counts \in [Ranks -> [Ranks -> Nat]]
    /\ Capacities \subseteq Nat

VARIABLES schedule, capacity,
          k,        \* per rank: the call it makes or will make next
          pc,       \* per rank: 0 outside a call, else the operation it is at
          blocked,  \* per rank: its send has handed the frame over, and waits
          failed,   \* per rank: a call returned an error
          out,      \* per rank: the output buffer of the current call
          counts,   \* per rank: recv_counts
          net,      \* per sender and receiver: frames under way or queued
          results   \* per rank: what its calls have returned

callVars == <<schedule, capacity, k, pc, blocked, failed, out, counts, net, results>>

-----------------------------------------------------------------------------
(* Buffers.                                                                *)

Zero == [fold |-> << >>, final |-> 0]
Input(r, c, i) == [fold |-> << <<r, c, i>> >>, final |-> 0]
Data(r, i) == [c \in Ranks |-> Input(r, c, i)]
OwnOnly(r, i) == [c \in Ranks |-> IF c = r THEN Input(r, r, i) ELSE Zero]

Fold(own, other) == [c \in Ranks |-> [own[c] EXCEPT !.fold = @ \o other[c].fold]]
Finalize(buf)    == [c \in Ranks |-> [buf[c] EXCEPT !.final = @ + 1]]

-----------------------------------------------------------------------------
(* A call as the operations a rank makes, in program order.  `what' names  *)
(* the frame: a rank's own chunk, the whole gathered output, the buffer,   *)
(* a partial to fold, the chunk for the peer, or its length.               *)

Send(p, what) == [op |-> "send", peer |-> p, what |-> what]
Recv(p, what) == [op |-> "recv", peer |-> p, what |-> what]

\* The ranks other than r, in rank order.
Others(r) == [i \in 1..(N - 1) |-> IF i - 1 < r THEN i - 1 ELSE i]

\* Mutant: the root answers each rank as soon as it has its chunk.
GatherAnswersAtOnce(r) ==
    IF r = 0
    THEN [i \in 1..(2 * N - 2) |-> IF i % 2 = 1 THEN Recv((i + 1) \div 2, "local")
                                                ELSE Send(i \div 2, "whole")]
    ELSE <<Send(0, "local"), Recv(0, "whole")>>

AllGather(r) ==
    IF r = 0
    THEN [i \in 1..(N - 1) |-> Recv(i, "local")] \o [i \in 1..(N - 1) |-> Send(i, "whole")]
    ELSE <<Send(0, "local"), Recv(0, "whole")>>

Broadcast(r, root) ==
    IF r = root THEN [i \in 1..(N - 1) |-> Send(Others(root)[i], "data")]
                ELSE <<Recv(root, "data")>>

Reduce(r, root) ==
    IF r = root THEN [i \in 1..(N - 1) |-> Recv(Others(root)[i], "part")]
                ELSE <<Send(root, "part")>>

\* Mutant: both ranks of a pair send first.
BothSendFirst(r, p, what) == <<Send(p, what), Recv(p, what)>>

\* "The lower rank sends first."
Exchange(r, p, what) ==
    IF r < p THEN <<Send(p, what), Recv(p, what)>> ELSE <<Recv(p, what), Send(p, what)>>

Pairwise(r, what) ==
    [i \in 1..(2 * (N - 1)) |-> Exchange(r, Others(r)[(i + 1) \div 2], what)[2 - (i % 2)]]

AllToAll(r) == Pairwise(r, "chunk")

\* First the counts, then the payloads, under the same tag.
AllToAllV(r) == Pairwise(r, "count") \o Pairwise(r, "chunk")

\* Mutant: a rank that keeps its data sends it to itself all the same.
PpermuteToSelf(r, perm) ==
    LET to   == {p \in Ranks : <<r, p>> \in perm}
        from == {p \in Ranks : <<p, r>> \in perm} \ {r} IN
    [i \in 1..Cardinality(to) |-> Send(CHOOSE p \in to : TRUE, "data")]
      \o [i \in 1..Cardinality(from) |-> Recv(CHOOSE p \in from : TRUE, "data")]

Ppermute(r, perm) ==
    LET to   == {p \in Ranks : <<r, p>> \in perm} \ {r}
        from == {p \in Ranks : <<p, r>> \in perm} \ {r} IN
    [i \in 1..Cardinality(to) |-> Send(CHOOSE p \in to : TRUE, "data")]
      \o [i \in 1..Cardinality(from) |-> Recv(CHOOSE p \in from : TRUE, "data")]

Program(r, c) ==
    CASE c.kind = "all_gather"   -> AllGather(r)
      [] c.kind = "broadcast"    -> Broadcast(r, c.root)
      [] c.kind = "all_to_all"   -> AllToAll(r)
      [] c.kind = "all_to_all_v" -> AllToAllV(r)
      [] c.kind = "reduce"       -> Reduce(r, c.root)
      [] c.kind = "ppermute"     -> Ppermute(r, c.perm)

\* The same for all the calls of the job, so that it is computed once.
Programs == [c \in UNION {Range(s) : s \in Schedules} |-> [r \in Ranks |-> Program(r, c)]]

\* The output buffer before the first operation.
Prepared(r, c, i) ==
    CASE c.kind \in {"broadcast", "reduce"} -> Data(r, i)
      [] c.kind \in {"all_gather", "all_to_all", "all_to_all_v"} -> OwnOnly(r, i)
      [] c.kind = "ppermute" -> IF <<r, r>> \in c.perm THEN Data(r, i)
                                                       ELSE [p \in Ranks |-> Zero]

-----------------------------------------------------------------------------
(* The ranks.                                                              *)

Current(r) == schedule[k[r]]
Op(r)      == Programs[Current(r)][r][pc[r]]
Running(r) == k[r] \in DOMAIN schedule /\ pc[r] \in DOMAIN Programs[Current(r)][r]
              /\ ~failed[r]
Advance(r) == pc' = [pc EXCEPT ![r] = @ + 1]

CallNext(r) ==
    /\ k[r] \in DOMAIN schedule /\ pc[r] = 0
    /\ pc' = [pc EXCEPT ![r] = 1]
    /\ out' = [out EXCEPT ![r] = Prepared(r, Current(r), k[r])]
    /\ counts' = [counts EXCEPT ![r] = [p \in Ranks |-> IF p = r THEN Counts[r][r] ELSE 0]]
    /\ UNCHANGED <<k, blocked, failed, net, results>>

\* What r sends, and how many elements that is.
Payload(r, p, what) ==
    CASE what = "local" -> Input(r, r, k[r])
      [] what = "whole" -> out[r]
      [] what = "data"  -> Data(r, k[r])
      [] what = "part"  -> Data(r, k[r])
      [] what = "chunk" -> Input(r, p, k[r])
      [] what = "count" -> Counts[r][p]

SentLen(r, p, what) ==
    CASE what = "local" -> 1
      [] what = "chunk" -> IF Current(r).kind = "all_to_all_v" THEN Counts[r][p] ELSE 1
      [] what = "count" -> 2
      [] OTHER -> N

\* The frame leaves with the first step; the send returns when no more of the
\* rank's frames are under way than the transport takes.
SendFrame(r) ==
    LET o == Op(r) IN
    /\ Running(r) /\ o.op = "send" /\ ~blocked[r]
    /\ net' = [net EXCEPT ![r][o.peer] =
                 Append(@, [tag |-> Current(r).kind, call |-> k[r], what |-> o.what,
                            len |-> SentLen(r, o.peer, o.what),
                            val |-> Payload(r, o.peer, o.what)])]
    /\ blocked' = [blocked EXCEPT ![r] = TRUE]
    /\ UNCHANGED <<k, pc, failed, out, counts, results>>

SendReturns(r) ==
    /\ blocked[r] /\ Len(net[r][Op(r).peer]) =< capacity
    /\ blocked' = [blocked EXCEPT ![r] = FALSE]
    /\ Advance(r)
    /\ UNCHANGED <<k, failed, out, counts, net, results>>

\* Mutant: the newest frame of this tag is taken.
MatchingNewest(r) ==
    LET OfTag(f) == f.tag = Current(r).kind IN SelectLastInSeq(net[Op(r).peer][r], OfTag)

\* The first frame of this tag from the peer; 0 if there is none.
Matching(r) ==
    LET OfTag(f) == f.tag = Current(r).kind IN SelectInSeq(net[Op(r).peer][r], OfTag)

Expected(r, o) ==
    CASE o.what = "local" -> {1}
      [] o.what = "chunk" -> {IF Current(r).kind = "all_to_all_v" THEN counts[r][o.peer] ELSE 1}
      [] o.what = "count" -> {2}
      [] o.what = "data" /\ Current(r).kind = "ppermute" -> Nat
      [] OTHER -> {N}

Received(r, o, val) ==
    CASE o.what \in {"local", "chunk"} -> [out[r] EXCEPT ![o.peer] = val]
      [] o.what \in {"whole", "data"}  -> val
      [] o.what = "part"  -> Fold(out[r], val)
      [] o.what = "count" -> out[r]

RecvFrame(r) ==
    LET o == Op(r)  i == Matching(r)  f == net[o.peer][r][i] IN
    /\ Running(r) /\ o.op = "recv" /\ i # 0
    /\ net' = [net EXCEPT ![o.peer][r] = RemoveAt(@, i)]
    /\ IF f.len \in Expected(r, o)
       THEN /\ Advance(r)
            /\ out' = [out EXCEPT ![r] = Received(r, o, f.val)]
            /\ counts' = IF o.what = "count" THEN [counts EXCEPT ![r][o.peer] = f.val]
                                             ELSE counts
            /\ UNCHANGED failed
       ELSE /\ failed' = [failed EXCEPT ![r] = TRUE]
            /\ UNCHANGED <<pc, out, counts>>
    /\ UNCHANGED <<k, blocked, results>>

Outcome(r) ==
    IF Current(r).kind = "reduce" /\ Current(r).root = r THEN Finalize(out[r]) ELSE out[r]

Return(r) ==
    /\ k[r] \in DOMAIN schedule /\ pc[r] = Len(Programs[Current(r)][r]) + 1
    /\ results' = [results EXCEPT ![r] = Append(@, [out |-> Outcome(r), counts |-> counts[r]])]
    /\ k' = [k EXCEPT ![r] = @ + 1]
    /\ pc' = [pc EXCEPT ![r] = 0]
    /\ UNCHANGED <<blocked, failed, out, counts, net>>

-----------------------------------------------------------------------------
CallsInit ==
    /\ schedule \in Schedules
    /\ capacity \in Capacities
    /\ k = [r \in Ranks |-> 1]
    /\ pc = [r \in Ranks |-> 0]
    /\ blocked = [r \in Ranks |-> FALSE]
    /\ failed = [r \in Ranks |-> FALSE]
    /\ out = [r \in Ranks |-> [p \in Ranks |-> Zero]]
    /\ counts = [r \in Ranks |-> [p \in Ranks |-> 0]]
    /\ net = [p \in Ranks |-> [r \in Ranks |-> << >>]]
    /\ results = [r \in Ranks |-> << >>]

Step(r) ==
    /\ CallNext(r) \/ SendFrame(r) \/ SendReturns(r) \/ RecvFrame(r) \/ Return(r)
    /\ UNCHANGED <<schedule, capacity>>

CallsNext == \E r \in Ranks : Step(r)

\* Every rank's thread keeps running.
CallsSpec == CallsInit /\ [][CallsNext]_callVars /\ \A r \in Ranks : WF_callVars(Step(r))

-----------------------------------------------------------------------------
(* Properties.                                                             *)

\* "The tag streams never cross" (rlx-collectives, two_independent_collectives_no_-
\* deadlock), "same tag; sequenced after counts" (all_to_all_v): the frame a rank is
\* about to take was sent for the very call and operation it is at, however far ahead
\* its sender is, and no length check fails.
StreamsNeverCross ==
    \A r \in Ranks :
        /\ ~failed[r]
        /\ (Running(r) /\ Op(r).op = "recv" /\ Matching(r) # 0) =>
              LET f == net[Op(r).peer][r][Matching(r)] IN
              f.call = k[r] /\ f.what = Op(r).what

\* No call leaves a frame behind for a later call of the same tag: whatever is under
\* way to a rank is for the call it is in or for a later one.
NoLeftovers ==
    \A p, r \in Ranks : \A i \in DOMAIN net[p][r] : net[p][r][i].call >= k[r]

\* What the comment on each collective promises of call i on rank r.
Promised(r, c, i) ==
    CASE c.kind = "all_gather" -> [p \in Ranks |-> Input(p, p, i)]
      [] c.kind = "broadcast"  -> Data(c.root, i)
      [] c.kind \in {"all_to_all", "all_to_all_v"} -> [p \in Ranks |-> Input(p, r, i)]
      [] c.kind = "reduce" ->
           IF r # c.root THEN Data(r, i)
           ELSE [p \in Ranks |-> [final |-> 1,
                    fold |-> [j \in 1..N |-> IF j = 1 THEN <<r, p, i>>
                                             ELSE <<Others(r)[j - 1], p, i>>]]]
      [] c.kind = "ppermute" ->
           IF \E p \in Ranks : <<p, r>> \in c.perm
           THEN Data(CHOOSE p \in Ranks : <<p, r>> \in c.perm, i)
           ELSE [p \in Ranks |-> Zero]

\* A call that has returned gave the rank what the collective promises, and
\* all_to_all_v the true counts.
ResultsRight ==
    \A r \in Ranks : \A i \in DOMAIN results[r] :
        /\ results[r][i].out = Promised(r, schedule[i], i)
        /\ schedule[i].kind = "all_to_all_v" =>
              results[r][i].counts = [p \in Ranks |-> Counts[p][r]]

\* A permutation in which some rank waits for its own send in the end.
Cyclic(perm) ==
    \E S \in SUBSET Ranks : S # {} /\ \A p \in S : \E q \in S : q # p /\ <<p, q>> \in perm

\* "Deadlock-free over any correct Transport", "deadlock-free pairwise exchange":
\* every call returns on every rank, even if a send returns only when its frame is
\* received; only a cyclic ppermute needs a transport that takes one frame.
AllReturn ==
    (capacity > 0 \/ \A i \in DOMAIN schedule : ~Cyclic(schedule[i].perm))
        => <>(\A r \in Ranks : k[r] = Len(schedule) + 1)

=============================================================================
