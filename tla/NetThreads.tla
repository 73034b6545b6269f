----------------------------- MODULE NetThreads -----------------------------
(***************************************************************************)
(* The threads of several ranks that share their NetTransports (net.rs),   *)
(* at the level of the locks they take and of the space in the sockets.    *)
(* A socket holds Capacity units; a frame is written unit by unit by the   *)
(* thread that holds the peer's writer lock and read unit by unit by the   *)
(* reader thread at the other end, which then dispatches it: a SEND needs  *)
(* the inbox lock, a GETREQ is answered by the reader itself.              *)
(*                                                                         *)
(* The application threads run straight-line programs of the calls that    *)
(* matter here; the programs of the ring all-reduce (transport.rs) and of  *)
(* the streaming pipeline (rlx-runtime, dist/inference.rs) are below.      *)
(***************************************************************************)
EXTENDS Integers, Sequences, FiniteSets, TLC

CONSTANTS N,           \* number of ranks
          Programs,    \* what the application threads may run
          Capacity,    \* units a socket holds in one direction
          SendUnits,   \* units of a SEND frame
          RespUnits    \* per program: units a GETRESP frame may have, one throughout a job

ASSUME SizeAssumption ==
    /\ N \in Nat \ {0, 1}
    /\ {Capacity, SendUnits} \subseteq Nat \ {0}
    /\ RespUnits \in [Programs -> SUBSET (Nat \ {0})]

Ranks == 0..(N - 1)
Links == {l \in Ranks \X Ranks : l[1] # l[2]}     \* <<at, peer>>

\* Application threads are <<rank, name>>, a program gives the calls of each;
\* <<r, "reader", p>> is the thread that reads at rank r what rank p sends.
AppThreads == UNION {DOMAIN p : p \in Programs}
Readers    == {<<l[1], "reader", l[2]>> : l \in Links}
Threads    == AppThreads \cup Readers

Op(what, peer) == [op |-> what, peer |-> peer]

\* A program names its threads <<rank, name>>; what is sent, received or got has
\* another rank as its peer.
ASSUME ProgramAssumption ==
    \A p \in Programs : \A th \in DOMAIN p :
        /\ th \in Ranks \X STRING
        /\ p[th] \in Seq([op : {"send", "recv", "get", "push", "take"}, peer : Ranks])
        /\ \A i \in DOMAIN p[th] :
              p[th][i].op \in {"send", "recv", "get"} => p[th][i].peer # th[1]

-----------------------------------------------------------------------------
(* The programs.                                                           *)

Times(k, s) == [i \in 1..(k * Len(s)) |-> s[((i - 1) % Len(s)) + 1]]

Next1(r) == (r + 1) % N
Prev1(r) == (r + N - 1) % N

\* all_reduce_ring_f32 with ring_all_gather: 2(n-1) turns of send, then receive.
RingProgram ==
    [th \in {<<r, "main">> : r \in Ranks} |->
        Times(2 * (N - 1), <<Op("send", Next1(th[1])), Op("recv", Prev1(th[1]))>>)]

\* pipeline_run on rank 0 (feeder, Outbox thread and collector thread) and
\* serve_stage_stream on the others (the stage and its Outbox thread), for m
\* micro-batches.  "push" and "take" are the Outbox's channel.
PipelineProgram(m) ==
    [th \in {<<0, "collector">>} \cup {<<r, x>> : r \in Ranks, x \in {"main", "outbox"}} |->
        CASE th[2] = "outbox" -> Times(m, <<Op("take", th[1]), Op("send", Next1(th[1]))>>)
          [] th[2] = "collector" -> Times(m, <<Op("recv", N - 1)>>)
          [] th = <<0, "main">> -> Times(m, <<Op("push", 0)>>)
          [] th[1] # 0 /\ th[2] = "main" ->
                Times(m, <<Op("recv", th[1] - 1), Op("push", th[1])>>)]

\* The third step of the one-sided all_reduce (collective.rs): get every other
\* rank's slot.
GetProgram ==
    [th \in {<<r, "main">> : r \in Ranks} |->
        Times(1, [i \in 1..(N - 1) |->
            Op("get", CHOOSE p \in Ranks : p # th[1]
                   /\ Cardinality({q \in Ranks : q < p /\ q # th[1]}) = i - 1)])]

-----------------------------------------------------------------------------
NoOne == <<"none">>

VARIABLES
    program,   \* per application thread: the calls it makes
    respUnits, \* units of a response, which is as long as what a get asks for
    ip,        \* per application thread: index of its current call
    at,        \* per thread: where in the call, or in reader_loop, it is
    left,      \* per thread: units of its frame still to be written
    wlock,     \* per link: who holds writers[peer] of that rank
    ilock,     \* per rank: who holds the inbox lock
    pipe,      \* per link: units in the socket from l[1] to l[2]
    inbox,     \* per link: messages queued at l[1] from l[2]
    getresp,   \* per link: responses queued at l[1] from l[2]
    chan       \* per rank: activations queued in its Outbox

job == <<program, respUnits>>
threadVars == <<job, ip, at, left, wlock, ilock, pipe, inbox, getresp, chan>>

Finished(th) == ip[th] > Len(program[th])
CallOf(th)   == program[th][ip[th]]

\* The link a thread works on: a reader's own, or the one its call names.
LinkOf(th) == <<th[1], IF th \in Readers THEN th[3] ELSE CallOf(th).peer>>

Unit(th, kind, last) == [by |-> th, kind |-> kind, last |-> last]

Returns(th) == /\ ip' = [ip EXCEPT ![th] = @ + 1]
               /\ at' = [at EXCEPT ![th] = "start"]

Goes(th, to) == at' = [at EXCEPT ![th] = to] /\ UNCHANGED ip

-----------------------------------------------------------------------------
(* send_frame: the writer lock is held until the whole frame is written.   *)

\* Mutant: frames are written without the lock.
LockWriterNot(th, from, to, units) ==
    /\ at[th] = from
    /\ left' = [left EXCEPT ![th] = units]
    /\ Goes(th, to)
    /\ UNCHANGED <<wlock, ilock, pipe, inbox, getresp, chan>>

LockWriter(th, from, to, units) ==
    /\ at[th] = from
    /\ wlock[LinkOf(th)] = NoOne
    /\ wlock' = [wlock EXCEPT ![LinkOf(th)] = th]
    /\ left' = [left EXCEPT ![th] = units]
    /\ Goes(th, to)
    /\ UNCHANGED <<ilock, pipe, inbox, getresp, chan>>

WriteUnit(th, kind) ==
    LET l == LinkOf(th) IN
    /\ left[th] > 0
    /\ Len(pipe[l]) < Capacity
    /\ pipe' = [pipe EXCEPT ![l] = Append(@, Unit(th, kind, left[th] = 1))]
    /\ left' = [left EXCEPT ![th] = @ - 1]
    /\ UNCHANGED <<ip, at, wlock, ilock, inbox, getresp, chan>>

UnlockWriter(th) ==
    /\ left[th] = 0
    /\ wlock' = [wlock EXCEPT ![LinkOf(th)] = NoOne]
    /\ UNCHANGED <<left, ilock, pipe, inbox, getresp, chan>>

Send(th) ==
    /\ CallOf(th).op = "send"
    /\ \/ LockWriter(th, "start", "writing", SendUnits)
       \/ at[th] = "writing" /\ WriteUnit(th, "SEND")
       \/ at[th] = "writing" /\ UnlockWriter(th) /\ Returns(th)

(* get: a GETREQ, then wait_getresp.                                       *)
Get(th) ==
    LET l == LinkOf(th) IN
    /\ CallOf(th).op = "get"
    /\ \/ LockWriter(th, "start", "writing", 1)
       \/ at[th] = "writing" /\ WriteUnit(th, "GETREQ")
       \/ at[th] = "writing" /\ UnlockWriter(th) /\ Goes(th, "response")
       \/ /\ at[th] = "response" /\ getresp[l] > 0
          /\ getresp' = [getresp EXCEPT ![l] = @ - 1]
          /\ Returns(th)
          /\ UNCHANGED <<left, wlock, ilock, pipe, inbox, chan>>

(* recv_inbox: with the inbox locked and nothing queued it locks the peer's *)
(* writer to see whether there is a connection, then waits.                *)
LockInbox(th) ==
    LET r == th[1]  l == LinkOf(th) IN
    /\ at[th] = "start" /\ ilock[r] = NoOne
    /\ IF inbox[l] > 0
       THEN /\ inbox' = [inbox EXCEPT ![l] = @ - 1]
            /\ Returns(th)
            /\ UNCHANGED ilock
       ELSE /\ ilock' = [ilock EXCEPT ![r] = th]
            /\ Goes(th, "empty")
            /\ UNCHANGED inbox
    /\ UNCHANGED <<left, wlock, pipe, getresp, chan>>

\* Mutant: the receive sleeps with the inbox locked.
LookAtWriterHolding(th) ==
    /\ at[th] = "empty"
    /\ wlock[LinkOf(th)] = NoOne
    /\ Goes(th, "asleep")
    /\ UNCHANGED <<left, wlock, ilock, pipe, inbox, getresp, chan>>

LookAtWriter(th) ==
    /\ at[th] = "empty"
    /\ wlock[LinkOf(th)] = NoOne
    /\ ilock' = [ilock EXCEPT ![th[1]] = NoOne]
    /\ Goes(th, "asleep")
    /\ UNCHANGED <<left, wlock, pipe, inbox, getresp, chan>>

Recv(th) == CallOf(th).op = "recv" /\ (LockInbox(th) \/ LookAtWriter(th))

(* The Outbox's channel.                                                   *)
Channel(th) ==
    /\ \/ /\ CallOf(th).op = "push"
          /\ chan' = [chan EXCEPT ![th[1]] = @ + 1]
       \/ /\ CallOf(th).op = "take" /\ chan[th[1]] > 0
          /\ chan' = [chan EXCEPT ![th[1]] = @ - 1]
    /\ Returns(th)
    /\ UNCHANGED <<left, wlock, ilock, pipe, inbox, getresp>>

AppStep(th) ==
    /\ ~Finished(th)
    /\ Send(th) \/ Get(th) \/ Recv(th) \/ Channel(th)
    /\ UNCHANGED job

-----------------------------------------------------------------------------
(* reader_loop and dispatch.                                               *)

ReadUnit(rd) ==
    LET in == <<rd[3], rd[1]>>
        u  == Head(pipe[in])
    IN
    /\ at[rd] = "reading" /\ pipe[in] # << >>
    /\ pipe' = [pipe EXCEPT ![in] = Tail(@)]
    /\ getresp' = IF u.last /\ u.kind = "GETRESP"
                  THEN [getresp EXCEPT ![LinkOf(rd)] = @ + 1] ELSE getresp
    /\ Goes(rd, CASE u.last /\ u.kind = "SEND"   -> "push"
                  [] u.last /\ u.kind = "GETREQ" -> "reply"
                  [] ~u.last \/ u.kind = "GETRESP" -> "reading")
    /\ UNCHANGED <<left, wlock, ilock, inbox, chan>>

\* SEND: queue it under the inbox lock and wake every receive of this rank.
PushFrame(rd) ==
    LET Woken(th) == th[1] = rd[1] /\ at[th] = "asleep" IN
    /\ at[rd] = "push" /\ ilock[rd[1]] = NoOne
    /\ inbox' = [inbox EXCEPT ![LinkOf(rd)] = @ + 1]
    /\ at' = [th \in Threads |-> IF th = rd THEN "reading"
                                 ELSE IF Woken(th) THEN "start" ELSE at[th]]
    /\ UNCHANGED <<ip, left, wlock, ilock, pipe, getresp, chan>>

\* GETREQ: the reader writes the response itself.
Reply(rd) ==
    \/ LockWriter(rd, "reply", "replying", respUnits)
    \/ at[rd] = "replying" /\ WriteUnit(rd, "GETRESP")
    \/ at[rd] = "replying" /\ UnlockWriter(rd) /\ Goes(rd, "reading")

ReaderStep(rd) == (ReadUnit(rd) \/ PushFrame(rd) \/ Reply(rd)) /\ UNCHANGED job

-----------------------------------------------------------------------------
ThreadsInit ==
    /\ \E p \in Programs :
          /\ program = [th \in AppThreads |-> IF th \in DOMAIN p THEN p[th] ELSE << >>]
          /\ respUnits \in RespUnits[p]
    /\ ip = [th \in AppThreads |-> 1]
    /\ at = [th \in Threads |-> IF th \in Readers THEN "reading" ELSE "start"]
    /\ left = [th \in Threads |-> 0]
    /\ wlock = [l \in Links |-> NoOne]
    /\ ilock = [r \in Ranks |-> NoOne]
    /\ pipe = [l \in Links |-> << >>]
    /\ inbox = [l \in Links |-> 0]
    /\ getresp = [l \in Links |-> 0]
    /\ chan = [r \in Ranks |-> 0]

ThreadsNext == \/ \E th \in AppThreads : AppStep(th)
               \/ \E rd \in Readers : ReaderStep(rd)

ThreadsSpec == ThreadsInit /\ [][ThreadsNext]_threadVars

\* Every thread that can take a step eventually does.
Fairness == /\ \A th \in AppThreads : WF_threadVars(AppStep(th))
            /\ \A rd \in Readers : WF_threadVars(ReaderStep(rd))

FairSpec == ThreadsSpec /\ Fairness

-----------------------------------------------------------------------------
(* Properties.                                                             *)

\* Frames of different threads never mix on a socket: a reader that answers a
\* GETREQ and an application thread that sends to the same peer take turns.
FramesWhole ==
    \A l \in Links : \A i \in 1..(Len(pipe[l]) - 1) :
        pipe[l][i].last \/ pipe[l][i + 1].by = pipe[l][i].by

\* The reader of link l has a GETREQ to answer and the socket it answers on is full.
AnswerBlocked(l) ==
    LET rd == <<l[1], "reader", l[2]>> IN
    /\ Len(pipe[l]) = Capacity
    /\ at[rd] = "reply" \/ (at[rd] = "replying" /\ left[rd] > 0)

\* Two readers wait for each other: while a reader answers it does not read, and
\* what would make room in its socket is the other one's reading.
AnswersCross == \E l \in Links : AnswerBlocked(l) /\ AnswerBlocked(<<l[2], l[1]>>)

\* "A blocked `recv`/`get` on the main thread never stalls the peer" (net.rs), "a
\* `send` never blocks on a peer that is itself sending" (transport.rs,
\* all_reduce): every application thread runs to its end.  It excepts what net.rs
\* does not: responses larger than a socket can stop two ranks that get from each
\* other for good, each one's reader in the middle of its answer.
Completes ==
    <>(\/ \A th \in AppThreads : Finished(th)
       \/ respUnits > Capacity /\ AnswersCross)

=============================================================================
