-------------------------- MODULE FederatedAverage --------------------------
(***************************************************************************)
(* ProcessGroup::federated_average (rlx-driver, transport.rs), called once *)
(* per training round by every rank over NetTransport.  Rank 0 collects    *)
(* the clients' vectors in rank order, each until the deadline, and sends  *)
(* the average back in rank order; vectors and averages travel under the   *)
(* one tag TAG_ALL_REDUCE and wait in FIFO queues per source.              *)
(*                                                                         *)
(* up and down hold frames under way or queued: how long a frame is under  *)
(* way is free, so rank 0 may give up on a client whose vector is in up.   *)
(* A client may crash at any point; a send to a crashed client is handed   *)
(* to the socket or fails.                                                 *)
(***************************************************************************)
EXTENDS Integers, Sequences, FiniteSets, Functions

CONSTANTS N,         \* world size
          Rounds,    \* bound: number of rounds
          Odd,       \* clients whose vector has another length than rank 0's
          MaxDead    \* bound: number of clients that crash

Clients == 1..(N - 1)

ASSUME FederatedAssumption ==
    /\ N \in Nat \ {0, 1} /\ Rounds \in Nat \ {0} /\ MaxDead \in Nat
    /\ Odd \subseteq Clients

VARIABLES root,      \* rank 0: where it is in the call
          at,        \* rank 0: the client its loop is at
          round,     \* rank 0: the round it is in, or has finished
          acc,       \* rank 0: what has been added up in this round
          averages,  \* rank 0: what it averaged in each finished collection (history)
          client,    \* per client: where it is
          cround,    \* per client: the round it is in, or has finished
          up,        \* per client: its vectors, on their way or queued at rank 0
          down,      \* per client: averages, on their way or queued at the client
          results    \* per client: what each of its rounds has left in data (history)

rootVars   == <<root, at, round, acc, averages>>
clientVars == <<client, cround, results>>
vars == <<root, at, round, acc, averages, client, cround, up, down, results>>

Vector(c, k) == <<c, k>>

\* Mutant: the loops over the clients go one too far.
LastOneTooFar(c) == c = N

\* for r in 1..n
Last(c) == c = N - 1

-----------------------------------------------------------------------------
(* Rank 0.                                                                 *)

\* Mutant: the sum of the round before is not reset.
RootCallsOnOldSum ==
    /\ root = "out" /\ round < Rounds
    /\ root' = "collect" /\ at' = 1
    /\ round' = round + 1
    /\ acc' = Append(acc, Vector(0, round + 1))
    /\ UNCHANGED <<averages, clientVars, up, down>>

RootCalls ==
    /\ root = "out" /\ round < Rounds
    /\ root' = "collect" /\ at' = 1
    /\ round' = round + 1
    /\ acc' = <<Vector(0, round + 1)>>
    /\ UNCHANGED <<averages, clientVars, up, down>>

\* The collection loop moves on with `sum'; after the last client it divides.
Collected(sum) ==
    /\ acc' = sum
    /\ IF Last(at)
       THEN root' = "send" /\ at' = 1 /\ averages' = Append(averages, sum)
       ELSE at' = at + 1 /\ UNCHANGED <<root, averages>>
    /\ UNCHANGED <<round, clientVars, down>>

\* Mutant: the newest vector queued is taken.
TakeNewest ==
    /\ root = "collect" /\ up[at] # << >>
    /\ up' = [up EXCEPT ![at] = SubSeq(@, 1, Len(@) - 1)]
    /\ Collected(IF at \in Odd THEN acc ELSE Append(acc, up[at][Len(up[at])]))

\* recv_bytes_timeout returns the oldest vector queued from this client; one of
\* another length is taken from the queue and not added.
TakeVector ==
    /\ root = "collect" /\ up[at] # << >>
    /\ up' = [up EXCEPT ![at] = Tail(@)]
    /\ Collected(IF at \in Odd THEN acc ELSE Append(acc, Head(up[at])))

\* recv_bytes_timeout returns None: nothing arrived before the deadline, or
\* ever (a lost client is waited for until the deadline too).
MissDeadline ==
    /\ root = "collect"
    /\ Collected(acc)
    /\ UNCHANGED up

\* Mutant: only the clients that made the deadline are answered.
RootSendsPresent ==
    /\ root = "send"
    /\ down' = IF \E i \in DOMAIN acc : acc[i][1] = at
               THEN [down EXCEPT ![at] = Append(@, acc)] ELSE down
    /\ IF Last(at) THEN root' = "out" /\ UNCHANGED at
                   ELSE at' = at + 1 /\ UNCHANGED root
    /\ UNCHANGED <<round, acc, averages, clientVars, up>>

\* Mutant: a newer average overwrites the one not taken yet.
RootOverwrites ==
    /\ root = "send"
    /\ down' = [down EXCEPT ![at] = <<acc>>]
    /\ IF Last(at) THEN root' = "out" /\ UNCHANGED at
                   ELSE at' = at + 1 /\ UNCHANGED root
    /\ UNCHANGED <<round, acc, averages, clientVars, up>>

RootSends ==
    /\ root = "send"
    /\ down' = [down EXCEPT ![at] = Append(@, acc)]
    /\ IF Last(at) THEN root' = "out" /\ UNCHANGED at
                       ELSE at' = at + 1 /\ UNCHANGED root
    /\ UNCHANGED <<round, acc, averages, clientVars, up>>

\* send_f32_tagged(r)? to a client that is gone: the call returns the error.
RootSendFails ==
    /\ root = "send" /\ client[at] = "dead"
    /\ root' = "failed"
    /\ UNCHANGED <<at, round, acc, averages, clientVars, up, down>>

-----------------------------------------------------------------------------
(* The clients.                                                            *)

ClientCalls(c) ==
    /\ client[c] = "out" /\ cround[c] < Rounds
    /\ client' = [client EXCEPT ![c] = "waiting"]
    /\ cround' = [cround EXCEPT ![c] = @ + 1]
    /\ up' = [up EXCEPT ![c] = Append(@, Vector(c, cround[c] + 1))]
    /\ UNCHANGED <<rootVars, down, results>>

\* What the call leaves in a client's data: the average, or what the client passed
\* in, when the average has another length.
Unchanged == << >>
DataAfter(c, average) == IF c \in Odd THEN Unchanged ELSE average

\* recv_f32_tagged returns the oldest average queued; the call returns Ok(0) whether
\* or not its length is the client's.
ClientReturns(c) ==
    /\ client[c] = "waiting" /\ down[c] # << >>
    /\ client' = [client EXCEPT ![c] = "out"]
    /\ results' = [results EXCEPT ![c] = Append(@, DataAfter(c, Head(down[c])))]
    /\ down' = [down EXCEPT ![c] = Tail(@)]
    /\ UNCHANGED <<rootVars, cround, up>>

\* Rank 0 has gone and nothing is queued: recv_f32_tagged is an error.
ClientFails(c) ==
    /\ client[c] = "waiting" /\ down[c] = << >> /\ root = "failed"
    /\ client' = [client EXCEPT ![c] = "failed"]
    /\ UNCHANGED <<rootVars, cround, up, down, results>>

Crash(c) ==
    /\ client[c] \in {"out", "waiting"}
    /\ Cardinality({d \in Clients : client[d] = "dead"}) < MaxDead
    /\ client' = [client EXCEPT ![c] = "dead"]
    /\ UNCHANGED <<rootVars, cround, up, down, results>>

-----------------------------------------------------------------------------
Init ==
    /\ root = "out" /\ at = 1 /\ round = 0 /\ acc = << >> /\ averages = << >>
    /\ client = [c \in Clients |-> "out"]
    /\ cround = [c \in Clients |-> 0]
    /\ up = [c \in Clients |-> << >>]
    /\ down = [c \in Clients |-> << >>]
    /\ results = [c \in Clients |-> << >>]

RootStep == RootCalls \/ TakeVector \/ MissDeadline \/ RootSends \/ RootSendFails

ClientStep(c) == ClientCalls(c) \/ ClientReturns(c) \/ ClientFails(c)

Next == RootStep \/ \E c \in Clients : ClientStep(c) \/ Crash(c)

Spec == Init /\ [][Next]_vars

\* Rank 0's clock runs, so its loop moves on; a live client keeps running.
Fairness == WF_vars(RootStep) /\ \A c \in Clients : WF_vars(ClientStep(c))

FairSpec == Spec /\ Fairness

-----------------------------------------------------------------------------
(* Properties.                                                             *)

Vectors == (0..(N - 1)) \X (1..Rounds)

\* The type invariant of the ranks and the queues between them.
TypeOK ==
    /\ root \in {"out", "collect", "send", "failed"} /\ at \in Clients
    /\ round \in 0..Rounds /\ acc \in Seq(Vectors) /\ averages \in Seq(Seq(Vectors))
    /\ client \in [Clients -> {"out", "waiting", "failed", "dead"}]
    /\ cround \in [Clients -> 0..Rounds]
    /\ up \in [Clients -> Seq(Vectors)]
    /\ down \in [Clients -> Seq(Seq(Vectors))]
    /\ results \in [Clients -> Seq(Seq(Vectors))]

\* Non-roots "get the averaged `data`": the k-th round of a client leaves the
\* average of rank 0's k-th round in its data, however far rank 0 has run ahead of
\* it.  This excepts the clients of another length, which the doc does not: their
\* rounds take an average off the queue each, return Ok(0) and change nothing.
ResultsInOrder ==
    \A c \in Clients :
        /\ Len(results[c]) =< Len(averages)
        /\ \A k \in DOMAIN results[c] :
              results[c][k] = IF c \in Odd THEN Unchanged ELSE averages[k]

\* The number of averages rank 0 has sent to client c.
SentTo(c) == Len(results[c]) + Len(down[c])

\* Why: what a client has got and what is on its way to it are the averages up to
\* the one rank 0's answer loop has sent it last.
AnswersInOrder ==
    /\ root = "send" => averages # << >> /\ acc = averages[Len(averages)]
    /\ \A c \in Clients :
          /\ SentTo(c) =< Len(averages)
          /\ root \in {"out", "collect"} => SentTo(c) = Len(averages)
          /\ root = "send" => SentTo(c) = IF c < at THEN Len(averages) ELSE Len(averages) - 1
          /\ \A k \in 1..Len(results[c]) : results[c][k] = DataAfter(c, averages[k])
          /\ \A k \in 1..Len(down[c]) : down[c][k] = averages[Len(results[c]) + k]

\* Rank 0 "skips any that miss `deadline`, averages the arrivals".  What missed a
\* deadline stays queued and enters a later round, so a round may average a vector
\* of an earlier one; but never one of a later round, and only if that client
\* missed a round before.
LateOnlyAfterMiss ==
    \A k \in DOMAIN averages : \A v \in Range(averages[k]) :
        /\ v[2] =< k
        /\ v[2] < k => \E j \in 1..(k - 1) : \A u \in Range(averages[j]) : u[1] # v[1]

\* Over all rounds, a client's vectors enter the averages in the order it sent
\* them, none twice and none after a gap, whichever deadlines it misses.
VectorsOnce ==
    \A c \in Clients \ Odd :
       LET Used(k) == {v \in 1..Rounds : Vector(c, v) \in Range(averages[k])}
       IN \A k \in DOMAIN averages : \A v \in Used(k) :
             /\ Cardinality(Used(k)) = 1
             /\ v = 1 \/ \E j \in 1..(k - 1) : v - 1 \in Used(j)
             /\ \A j \in 1..(k - 1) : v \notin Used(j)

Ended(c) == client[c] \in {"dead", "failed"} \/ (client[c] = "out" /\ cround[c] = Rounds)

\* "A slow or offline edge client can't stall a training round": rank 0 and the
\* clients come to an end whatever deadlines are missed, and if no client crashes
\* they all get through all their rounds.  (A client that is offline does end the
\* round with an error, at the send to it.)
AllFinish ==
    <>(/\ root = "failed" \/ (root = "out" /\ round = Rounds)
       /\ \A c \in Clients : Ended(c)
       /\ root = "failed" => \E c \in Clients : client[c] = "dead")

=============================================================================
