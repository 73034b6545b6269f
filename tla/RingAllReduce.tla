---------------------------- MODULE RingAllReduce ----------------------------
(***************************************************************************)
(* The ring all-reduce (rlx-driver, transport.rs: all_reduce_ring_f32,     *)
(* all_reduce_deterministic, reduce_scatter_owned with all_gather_owned,   *)
(* and all_reduce_typed) over FIFO mailboxes, one per (source, tag): all   *)
(* these calls share TAG_ALL_REDUCE, so one mailbox per rank, filled by    *)
(* its left neighbour.  A rank sends without waiting for its neighbour.    *)
(*                                                                         *)
(* The ranks make the calls 1..NCalls, one after the other or, with        *)
(* Overlap, each on a thread of its own (spawn_all_reduce).  A value is    *)
(* the order in which inputs were folded into it, and how often it was     *)
(* finalized (Mean: divided by n) and updated by an optimizer: floating-   *)
(* point results agree bit for bit exactly when these agree.               *)
(***************************************************************************)
EXTENDS Integers, Sequences

CONSTANTS N,          \* world size
          NCalls,     \* number of all-reduces
          Length,     \* elements in a buffer
          Overlap     \* calls run concurrently

\* "ring": finalize the owned chunk, then gather; "owned": the optimizer also
\* updates it in between; "typed": gather, then scale the whole buffer.
Variants == {"ring", "owned", "typed"}

ASSUME RingAssumption ==
    /\ N \in Nat \ {0, 1} /\ NCalls \in Nat \ {0} /\ Length \in Nat
    /\ Overlap \in BOOLEAN

Ranks  == 0..(N - 1)
Chunks == 0..(N - 1)
Calls  == 1..NCalls

VARIABLES variant, \* which of the functions is called
          pc,      \* per rank and call: where the call is
          step,    \* per rank and call: step of the current loop
          data,    \* per rank and call: the buffer, by chunk
          mail     \* per rank: the mailbox (prev, TAG_ALL_REDUCE)

vars == <<variant, pc, step, data, mail>>

Right(r) == (r + 1) % N       \* next
Left(r)  == (r + N - 1) % N   \* prev

Value(fold) == [fold |-> fold, final |-> 0, updated |-> 0]
Input(r, b) == Value(<< <<r, b>> >>)

\* combine: the rank's own partial with the incoming one
Combine(own, incoming) == [own EXCEPT !.fold = own.fold \o incoming.fold]
Finalize(v) == [v EXCEPT !.final = @ + 1]
Update(v)   == [v EXCEPT !.updated = @ + 1]

-----------------------------------------------------------------------------
(* ring_chunk: [start, end) of chunk i in a near-equal split.              *)

LeastOf(a, b) == IF a =< b THEN a ELSE b
Bound(j) == j * (Length \div N) + LeastOf(j, Length % N)
ChunkLen(i) == Bound(i + 1) - Bound(i)

Owned(r) == (r + 1) % N

ScatterSend(r, s) == (r + N - s) % N
ScatterRecv(r, s) == (r + N - s - 1) % N
\* Mutant: the gather starts with the wrong chunk.
GatherSendOneOff(r, s) == (r + N - s) % N

GatherSend(r, s)  == (r + N - s + 1) % N
GatherRecv(r, s)  == (r + N - s) % N

-----------------------------------------------------------------------------
(* One call b on rank r.                                                   *)

At(r, b, l) == pc[r][b] = l
Goto(r, b, l) == pc' = [pc EXCEPT ![r][b] = l]

\* Mutant: a rank receives before it sends.
StartReceiving(r, b) ==
    /\ At(r, b, "idle")
    /\ ~Overlap => \A a \in 1..(b - 1) : At(r, a, "done")
    /\ Goto(r, b, "scatter_recv")
    /\ UNCHANGED <<step, data, mail>>

Start(r, b) ==
    /\ At(r, b, "idle")
    /\ ~Overlap => \A a \in 1..(b - 1) : At(r, a, "done")
    /\ Goto(r, b, "scatter_send")
    /\ UNCHANGED <<step, data, mail>>

\* Mutant: a frame may be sent again.
SendChunkAgain(r, b, from, c, to) ==
    /\ At(r, b, from)
    /\ mail' = [mail EXCEPT ![Right(r)] =
                  Append(@, [len |-> ChunkLen(c), val |-> data[r][b][c]])]
    /\ Goto(r, b, to) \/ UNCHANGED pc
    /\ UNCHANGED <<step, data>>

SendChunk(r, b, from, c, to) ==
    /\ At(r, b, from)
    /\ mail' = [mail EXCEPT ![Right(r)] =
                  Append(@, [len |-> ChunkLen(c), val |-> data[r][b][c]])]
    /\ Goto(r, b, to)
    /\ UNCHANGED <<step, data>>

\* Receive the next frame into chunk c; a frame of another length is an error
\* (expect_len).  `new' is the chunk's value, `last' where the loop leads.
RecvChunk(r, b, from, c, new, again, last) ==
    /\ At(r, b, from)
    /\ mail[r] # << >>
    /\ mail' = [mail EXCEPT ![r] = Tail(@)]
    /\ IF Head(mail[r]).len # ChunkLen(c)
       THEN Goto(r, b, "error") /\ UNCHANGED <<data, step>>
       ELSE /\ data' = [data EXCEPT ![r][b][c] = new]
            /\ IF step[r][b] < N - 2
               THEN Goto(r, b, again) /\ step' = [step EXCEPT ![r][b] = @ + 1]
               ELSE Goto(r, b, last)  /\ step' = [step EXCEPT ![r][b] = 0]

Scatter(r, b) ==
    LET c == ScatterRecv(r, step[r][b]) IN
    \/ SendChunk(r, b, "scatter_send", ScatterSend(r, step[r][b]), "scatter_recv")
    \/ RecvChunk(r, b, "scatter_recv", c, Combine(data[r][b][c], Head(mail[r]).val),
                 "scatter_send", IF variant = "typed" THEN "gather_send" ELSE "own")

FinishOwned(r, b) ==
    LET v == Finalize(data[r][b][Owned(r)]) IN
    /\ At(r, b, "own")
    /\ data' = [data EXCEPT ![r][b][Owned(r)] = IF variant = "owned" THEN Update(v) ELSE v]
    /\ Goto(r, b, "gather_send")
    /\ UNCHANGED <<step, mail>>

Gather(r, b) ==
    \/ SendChunk(r, b, "gather_send", GatherSend(r, step[r][b]), "gather_recv")
    \/ RecvChunk(r, b, "gather_recv", GatherRecv(r, step[r][b]), Head(mail[r]).val,
                 "gather_send", IF variant = "typed" THEN "scale" ELSE "done")

\* Mutant: only the owned chunk is scaled.
ScaleOwned(r, b) ==
    /\ At(r, b, "scale")
    /\ data' = [data EXCEPT ![r][b][Owned(r)] = Finalize(@)]
    /\ Goto(r, b, "done")
    /\ UNCHANGED <<step, mail>>

\* scale_mean
Scale(r, b) ==
    /\ At(r, b, "scale")
    /\ data' = [data EXCEPT ![r][b] = [c \in Chunks |-> Finalize(data[r][b][c])]]
    /\ Goto(r, b, "done")
    /\ UNCHANGED <<step, mail>>

-----------------------------------------------------------------------------
Init ==
    /\ variant \in Variants
    /\ pc = [r \in Ranks |-> [b \in Calls |-> "idle"]]
    /\ step = [r \in Ranks |-> [b \in Calls |-> 0]]
    /\ data = [r \in Ranks |-> [b \in Calls |-> [c \in Chunks |-> Input(r, b)]]]
    /\ mail = [r \in Ranks |-> << >>]

Step(r, b) ==
    /\ Start(r, b) \/ Scatter(r, b) \/ FinishOwned(r, b) \/ Gather(r, b) \/ Scale(r, b)
    /\ UNCHANGED variant

Next == \E r \in Ranks, b \in Calls : Step(r, b)

Spec == Init /\ [][Next]_vars

\* Every rank keeps running its calls.
FairSpec == Spec /\ \A r \in Ranks, b \in Calls : WF_vars(Step(r, b))

-----------------------------------------------------------------------------
(* Properties.                                                             *)

\* The reduction of call b: chunk c starts at rank c and is folded by the ranks
\* to its right in turn, each rank's input once, and finalized once.
Reduced(b) ==
    [c \in Chunks |-> [fold |-> [i \in 1..N |-> <<(c + N - i) % N, b>>], final |-> 1]]

\* What a call that has returned left in the buffer, but for the optimizer.
Returned(r, b) ==
    [c \in Chunks |-> [fold |-> data[r][b][c].fold, final |-> data[r][b][c].final]]

AR == INSTANCE AllReduce WITH
        Reduction <- [b \in Calls |-> Reduced(b)],
        NoResult <- << >>,
        entered <- [r \in Ranks |-> {b \in Calls : pc[r][b] # "idle"}],
        result <- [r \in Ranks |-> [b \in Calls |->
                      IF pc[r][b] = "done" THEN Returned(r, b) ELSE << >>]]

\* The all-reduce is what its documentation promises: a rank leaves a call with
\* every rank's input folded in once, in the same order on every rank, however far
\* the ranks have run apart; in particular not before every rank has entered it.
ImplementsAllReduce == AR!Spec

\* "Single tag is safe - prev sends its 2(n-1) frames in exactly the FIFO order this
\* rank consumes them": the frame a rank is about to take is the one its call, phase
\* and step wait for, however far the ranks have run apart, across calls too.
SingleTagSafe ==
    \A r \in Ranks, b \in Calls :
        LET s == step[r][b]  m == Head(mail[r]) IN
        /\ ~At(r, b, "error")
        /\ (At(r, b, "scatter_recv") /\ mail[r] # << >>) =>
              m.val.fold = [i \in 1..(s + 1) |-> <<(r + N - i) % N, b>>]
        /\ (At(r, b, "gather_recv") /\ mail[r] # << >>) =>
              m.val.fold = Reduced(b)[GatherRecv(r, s)].fold

\* "On return every rank holds op({each rank's input})": a rank that has returned
\* holds the call's reduction, and an optimizer's update of the owned chunk is in it
\* once.
ResultsRight ==
    \A r \in Ranks, b \in Calls :
        At(r, b, "done") =>
              /\ Returned(r, b) = Reduced(b)
              /\ \A c \in Chunks : data[r][b][c].updated = IF variant = "owned" THEN 1 ELSE 0

\* Ranks run apart, across calls too, but never by more than the ring is long: a
\* rank's inbox holds at most n frames, whatever its left neighbour does.
MailBounded == \A r \in Ranks : Len(mail[r]) =< N

\* Every call returns on every rank.
AllReturn == <>(\A r \in Ranks, b \in Calls : At(r, b, "done"))

=============================================================================
