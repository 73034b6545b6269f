------------------------ MODULE SymmetricCollectives ------------------------
(***************************************************************************)
(* The collectives over a symmetric heap (rlx-driver, collective.rs): the  *)
(* naive all_reduce, with which all_gather and reduce_scatter share their  *)
(* put - barrier - get, and ring_all_reduce.  They run over one of the two *)
(* implementations of SymmetricTransport: LocalTransport (symmetric.rs),   *)
(* where put and get are memory copies and barrier is a std Barrier, or    *)
(* NetTransport (net.rs), where put is a frame the peer's reader applies,  *)
(* get a request its reader answers, and barrier is default_barrier        *)
(* (transport.rs), tokens gathered at and released by rank 0.              *)
(*                                                                         *)
(* A link is the FIFO socket from one rank to another; different links are *)
(* not ordered with each other.  A value is the order in which inputs were *)
(* folded into it.  The ranks make their calls on the same buffer.         *)
(***************************************************************************)
EXTENDS Integers, Sequences

CONSTANTS N,        \* number of ranks
          Modes     \* what the ranks may run, see Mode

\* An algorithm over NetTransport or LocalTransport, called a number of times.
Mode == [algo : {"naive", "ring"}, net : BOOLEAN, calls : Nat \ {0}]

ASSUME SymmetricAssumption ==
    /\ N \in Nat \ {0, 1}
    /\ Modes \subseteq Mode

Ranks  == 0..(N - 1)
Others == Ranks \ {0}
Links  == {l \in Ranks \X Ranks : l[1] # l[2]}     \* <<from, to>>

VARIABLES mode,      \* what the ranks run
          pc,        \* per rank: where it is in the call
          call,      \* per rank: the call it makes, or has returned from
          step,      \* per rank: the loop's step (ring) or source (naive)
          second,    \* per rank: the next barrier is the one that ends a step
          turn,      \* rank 0: the peer its loop in default_barrier is at
          local,     \* per rank: local, by chunk
          acc,       \* per rank: acc (naive)
          heap,      \* per rank: the mailbox or slot in its heap
          link,      \* per link: the frames under way
          tokens,    \* per link: barrier tokens queued in l[2]'s inbox from l[1]
          resp,      \* per link: GETRESPs queued at l[2] from l[1]
          entered,   \* per rank: number of barriers entered (history)
          passed     \* per rank: number of barriers passed (history)

Algo   == mode.algo
Net    == mode.net
NCalls == mode.calls
Chunks == IF Algo = "ring" THEN 0..(N - 1) ELSE {0}

dataVars == <<local, acc, heap>>
netVars  == <<link, tokens, resp>>
barVars  == <<turn, entered, passed>>
vars == <<mode, pc, call, step, second, dataVars, netVars, barVars>>

Empty == << >>
Input(r, k) == << <<r, k>> >>

At(r, l)   == pc[r] = l
Goto(r, l) == pc' = [pc EXCEPT ![r] = l]

Sends(l, m) == link' = [link EXCEPT ![l] = Append(@, m)]
PutFrame(v) == [kind |-> "PUT", val |-> v]
Token       == [kind |-> "SEND"]
GetReq      == [kind |-> "GETREQ"]
GetResp(v)  == [kind |-> "GETRESP", val |-> v]

-----------------------------------------------------------------------------
(* ring_all_reduce: steps 0..n-2 reduce-scatter, n-1..2n-3 all-gather.     *)

Right(r)   == (r + 1) % N
Scatter(s) == s < N - 1
Steps      == 2 * (N - 1)

SendIdx(r, s) == IF Scatter(s) THEN (r + N - s) % N
                               ELSE (r + N + 1 - (s - (N - 1))) % N
RecvIdx(r, s) == IF Scatter(s) THEN (r + N - s - 1) % N
                               ELSE (r + N - (s - (N - 1))) % N

-----------------------------------------------------------------------------
(* The calls.                                                              *)

Enter(r) ==
    /\ At(r, "out") /\ call[r] < NCalls
    /\ call' = [call EXCEPT ![r] = @ + 1]
    /\ local' = [local EXCEPT ![r] = [c \in Chunks |-> Input(r, call[r] + 1)]]
    /\ step' = [step EXCEPT ![r] = 0]
    /\ acc' = [acc EXCEPT ![r] = Empty]
    /\ Goto(r, "put")
    /\ UNCHANGED <<second, heap, netVars, barVars>>

\* Mutant: no barrier between the put and the gets.
DoPutAndGo(r) ==
    /\ At(r, "put")
    /\ heap' = [heap EXCEPT ![r] = local[r][0]]
    /\ Goto(r, "get")
    /\ UNCHANGED <<call, step, second, local, acc, netVars, barVars>>

\* transport.put: into this rank's own slot, or into the right neighbour's
\* mailbox, which over NetTransport is a frame to be applied there.
DoPut(r) ==
    LET to == IF Algo = "ring" THEN Right(r) ELSE r
        v  == local[r][IF Algo = "ring" THEN SendIdx(r, step[r]) ELSE 0]
    IN
    /\ At(r, "put")
    /\ IF Net /\ to # r
       THEN Sends(<<r, to>>, PutFrame(v)) /\ UNCHANGED heap
       ELSE heap' = [heap EXCEPT ![to] = v] /\ UNCHANGED link
    /\ second' = [second EXCEPT ![r] = FALSE]
    /\ Goto(r, "barrier")
    /\ UNCHANGED <<call, step, local, acc, tokens, resp, barVars>>

\* ring: fold or overwrite the received chunk, then the second barrier.
TakeMailbox(r) ==
    LET c == RecvIdx(r, step[r]) IN
    /\ At(r, "get") /\ Algo = "ring"
    /\ local' = [local EXCEPT ![r][c] =
                    IF Scatter(step[r]) THEN @ \o heap[r] ELSE heap[r]]
    /\ second' = [second EXCEPT ![r] = TRUE]
    /\ Goto(r, "barrier")
    /\ UNCHANGED <<call, step, acc, heap, netVars, barVars>>

\* naive: fold in rank `step's slot; after the last one the call returns.
FoldIn(r, v) ==
    /\ acc' = [acc EXCEPT ![r] = @ \o v]
    /\ IF step[r] < N - 1
       THEN /\ step' = [step EXCEPT ![r] = @ + 1]
            /\ Goto(r, "get")
            /\ UNCHANGED local
       ELSE /\ local' = [local EXCEPT ![r][0] = acc'[r]]
            /\ Goto(r, "out")
            /\ UNCHANGED step

GetSlot(r) ==
    LET from == step[r] IN
    /\ At(r, "get") /\ Algo = "naive"
    /\ IF Net /\ from # r
       THEN /\ Sends(<<r, from>>, GetReq)
            /\ Goto(r, "getting")
            /\ UNCHANGED <<step, local, acc>>
       ELSE FoldIn(r, heap[from]) /\ UNCHANGED link
    /\ UNCHANGED <<call, second, heap, tokens, resp, barVars>>

GetTake(r) ==
    LET l == <<step[r], r>> IN
    /\ At(r, "getting") /\ resp[l] # << >>
    /\ FoldIn(r, Head(resp[l]))
    /\ resp' = [resp EXCEPT ![l] = Tail(@)]
    /\ UNCHANGED <<call, second, heap, link, tokens, barVars>>

-----------------------------------------------------------------------------
(* The barriers.                                                           *)

\* What follows a barrier: the get, the next step, or the return.
Passes(r) ==
    /\ passed' = [passed EXCEPT ![r] = @ + 1]
    /\ \/ ~second[r] /\ Goto(r, "get") /\ UNCHANGED step
       \/ /\ second[r] /\ step[r] < Steps - 1
          /\ Goto(r, "put") /\ step' = [step EXCEPT ![r] = @ + 1]
       \/ second[r] /\ step[r] = Steps - 1 /\ Goto(r, "out") /\ UNCHANGED step
    /\ UNCHANGED <<call, second, dataVars>>

\* default_barrier, and LocalTransport's, up to the wait.
BarrierEnter(r) ==
    /\ At(r, "barrier")
    /\ entered' = [entered EXCEPT ![r] = @ + 1]
    /\ turn' = IF r = 0 THEN 1 ELSE turn
    /\ IF Net /\ r # 0 THEN Sends(<<r, 0>>, Token) ELSE UNCHANGED link
    /\ Goto(r, IF Net /\ r = 0 THEN "collect" ELSE "wait")
    /\ UNCHANGED <<call, step, second, dataVars, tokens, resp, passed>>

\* std::sync::Barrier
LocalRelease(r) ==
    /\ ~Net /\ At(r, "wait")
    /\ \A q \in Ranks : entered[q] >= entered[r]
    /\ Passes(r)
    /\ UNCHANGED <<netVars, turn, entered>>

TakeToken(l) == tokens[l] > 0 /\ tokens' = [tokens EXCEPT ![l] = @ - 1]

Release(r) ==
    /\ Net /\ At(r, "wait") /\ r # 0
    /\ TakeToken(<<0, r>>)
    /\ Passes(r)
    /\ UNCHANGED <<link, resp, turn, entered>>

\* Mutant: rank 0 waits for one rank only.
RootCollectsOne ==
    /\ At(0, "collect")
    /\ TakeToken(<<turn, 0>>)
    /\ turn' = 1
    /\ Goto(0, "release")
    /\ UNCHANGED <<call, step, second, dataVars, link, resp, entered, passed>>

RootCollects ==
    /\ At(0, "collect")
    /\ TakeToken(<<turn, 0>>)
    /\ turn' = IF turn < N - 1 THEN turn + 1 ELSE 1
    /\ Goto(0, IF turn < N - 1 THEN "collect" ELSE "release")
    /\ UNCHANGED <<call, step, second, dataVars, link, resp, entered, passed>>

\* Mutant: rank 0 releases one rank only.
RootReleasesOne ==
    /\ At(0, "release")
    /\ Sends(<<0, turn>>, Token)
    /\ turn' = turn + 1
    /\ Passes(0)
    /\ UNCHANGED <<tokens, resp, entered>>

RootReleases ==
    /\ At(0, "release")
    /\ Sends(<<0, turn>>, Token)
    /\ turn' = turn + 1
    /\ IF turn < N - 1
       THEN Goto(0, "release") /\ UNCHANGED <<call, step, second, dataVars, passed>>
       ELSE Passes(0)
    /\ UNCHANGED <<tokens, resp, entered>>

-----------------------------------------------------------------------------
(* dispatch, in the reader thread of l[2] for l[1].                        *)
Reader(l) ==
    LET m == Head(link[l])  back == <<l[2], l[1]>> IN
    /\ link[l] # << >>
    /\ \/ /\ m.kind = "PUT"
          /\ heap' = [heap EXCEPT ![l[2]] = m.val]
          /\ link' = [link EXCEPT ![l] = Tail(@)]
          /\ UNCHANGED <<tokens, resp>>
       \/ /\ m.kind = "SEND"
          /\ tokens' = [tokens EXCEPT ![l] = @ + 1]
          /\ link' = [link EXCEPT ![l] = Tail(@)]
          /\ UNCHANGED <<heap, resp>>
       \/ /\ m.kind = "GETREQ"
          /\ link' = [link EXCEPT ![l] = Tail(@), ![back] = Append(@, GetResp(heap[l[2]]))]
          /\ UNCHANGED <<heap, tokens, resp>>
       \/ /\ m.kind = "GETRESP"
          /\ resp' = [resp EXCEPT ![l] = Append(@, m.val)]
          /\ link' = [link EXCEPT ![l] = Tail(@)]
          /\ UNCHANGED <<heap, tokens>>
    /\ UNCHANGED <<mode, pc, call, step, second, local, acc, barVars>>

-----------------------------------------------------------------------------
Init ==
    /\ mode \in Modes
    /\ pc = [r \in Ranks |-> "out"]
    /\ call = [r \in Ranks |-> 0]
    /\ step = [r \in Ranks |-> 0]
    /\ second = [r \in Ranks |-> FALSE]
    /\ turn = 1
    /\ local = [r \in Ranks |-> [c \in Chunks |-> Empty]]
    /\ acc = [r \in Ranks |-> Empty]
    /\ heap = [r \in Ranks |-> Empty]
    /\ link = [l \in Links |-> << >>]
    /\ tokens = [l \in Links |-> 0]
    /\ resp = [l \in Links |-> << >>]
    /\ entered = [r \in Ranks |-> 0]
    /\ passed = [r \in Ranks |-> 0]

RankStep(r) ==
    /\ \/ Enter(r) \/ DoPut(r) \/ TakeMailbox(r) \/ GetSlot(r) \/ GetTake(r)
       \/ BarrierEnter(r) \/ LocalRelease(r) \/ Release(r)
    /\ UNCHANGED mode

Root == (RootCollects \/ RootReleases) /\ UNCHANGED mode

Next == (\E r \in Ranks : RankStep(r)) \/ Root \/ (\E l \in Links : Reader(l))

Spec == Init /\ [][Next]_vars

\* Every rank's thread keeps running, and so do the readers.
Fairness == /\ \A r \in Ranks : WF_vars(RankStep(r))
            /\ WF_vars(Root)
            /\ \A l \in Links : WF_vars(Reader(l))

FairSpec == Spec /\ Fairness

-----------------------------------------------------------------------------
(* Properties.                                                             *)

\* The reduction of call k: every rank's input of that call once, in the order the
\* algorithm folds it.
Reduced(k) ==
    [c \in Chunks |->
        IF Algo = "ring" THEN [i \in 1..N |-> <<(c + N - i) % N, k>>]
                         ELSE [i \in 1..N |-> <<i - 1, k>>]]

ReturnsReduced(r) == (At(r, "out") /\ call[r] > 0) => local[r] = Reduced(call[r])

\* "`local` carries this rank's contribution on entry; on exit it carries the
\* reduced result" (all_reduce, ring_all_reduce): a call that has returned left every
\* rank's input of that very call in the buffer, however the ranks run apart.
EveryResultRight == \A r \in Ranks : ReturnsReduced(r)

\* The same where the code keeps it: ring_all_reduce over memory, or over sockets
\* with no third rank (a put is not ordered with the barrier's way through rank 0),
\* and all_reduce called once on a buffer (it has no barrier after its gets).  What
\* follows the last read, a Mean's division, is left out.
ResultsRight ==
    (IF Algo = "ring" THEN ~Net \/ N = 2 ELSE NCalls = 1)
        => \A r \in Ranks : ReturnsReduced(r)

\* "Block until every rank has reached this barrier" (Transport::barrier), of every
\* one of a sequence of barriers: nobody has passed more than anybody has entered.
BarrierHolds ==
    \A q, r \in Ranks : passed[q] =< entered[r]

\* Every call returns on every rank: the barriers' tokens are not lost, stolen by
\* the next barrier or waited for in a circle.
AllReturn == <>(\A r \in Ranks : At(r, "out") /\ call[r] = NCalls)

=============================================================================
