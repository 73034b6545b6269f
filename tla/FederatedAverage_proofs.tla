----------------------- MODULE FederatedAverage_proofs -----------------------
(***************************************************************************)
(* Proofs about FederatedAverage, for every number of clients, of rounds   *)
(* and of crashes.                                                         *)
(***************************************************************************)
EXTENDS FederatedAverage, DataLemmas

Sums == Seq(Vectors)

\* A client's vector of a round is one of the vectors the model ranges over.
LEMMA VectorTyped ==
    ASSUME NEW c \in 0..(N - 1), NEW k \in 1..Rounds
    PROVE  Vector(c, k) \in Vectors
BY DEF Vector, Vectors

\* What a round leaves in a client's data is a sum, or nothing.
LEMMA DataTyped == \A c \in Clients, s \in Sums : DataAfter(c, s) \in Sums
BY DEF DataAfter, Unchanged, Sums

\* The clients are the ranks other than 0, and there is one.
LEMMA ClientsTyped == Clients \subseteq Int /\ Clients \subseteq 0..(N - 1) /\ 1 \in Clients
BY FederatedAssumption DEF Clients

\* What the collection loop does with a sum keeps the types.
LEMMA CollectedTyped ==
    ASSUME TypeOK, NEW sum \in Sums, Collected(sum), up' \in [Clients -> Seq(Vectors)]
    PROVE  TypeOK'
<1>1. averages' \in Seq(Sums)
  <2>1. averages \in Seq(Sums)
    BY DEF TypeOK, Sums
  <2>2. Append(averages, sum) \in Seq(Sums)
    BY <2>1, AppendProperties
  <2> QED
    BY <2>1, <2>2 DEF Collected
<1>2. at' \in Clients /\ root' \in {"out", "collect", "send", "failed"}
  <2>1. at \in Clients /\ root \in {"out", "collect", "send", "failed"}
    BY DEF TypeOK
  <2>2. ~Last(at) => at + 1 \in Clients
    BY <2>1, FederatedAssumption DEF Last, Clients
  <2> QED
    BY <2>1, <2>2, ClientsTyped DEF Collected
<1> QED
  BY <1>1, <1>2 DEF Collected, TypeOK, Sums, clientVars

\* Every step of rank 0, of a client and of a crash keeps the types.
LEMMA TypeStep == TypeOK /\ [Next]_vars => TypeOK'
<1> SUFFICES ASSUME TypeOK, [Next]_vars PROVE TypeOK'
  OBVIOUS
<1>1. CASE RootCalls
  <2>1. round + 1 \in 1..Rounds
    BY <1>1, FederatedAssumption DEF RootCalls, TypeOK
  <2>2. 0 \in 0..(N - 1)
    BY FederatedAssumption
  <2>3. acc' \in Seq(Vectors)
    BY <1>1, <2>1, <2>2, VectorTyped DEF RootCalls
  <2>4. round' \in 0..Rounds
    BY <1>1, <2>1 DEF RootCalls
  <2>5. at' \in Clients
    BY <1>1, ClientsTyped DEF RootCalls
  <2> QED
    BY <1>1, <2>3, <2>4, <2>5 DEF RootCalls, TypeOK, clientVars
<1>2. CASE TakeVector
  <2>1. /\ up' \in [Clients -> Seq(Vectors)] /\ Head(up[at]) \in Vectors
    BY <1>2, QueueTake DEF TakeVector, TypeOK
  <2>2. Append(acc, Head(up[at])) \in Sums
    BY <2>1, AppendProperties DEF TypeOK, Sums
  <2>3. acc \in Sums
    BY DEF TypeOK, Sums
  <2>4. CASE at \in Odd
    BY <1>2, <2>1, <2>3, <2>4, CollectedTyped DEF TakeVector
  <2>5. CASE at \notin Odd
    BY <1>2, <2>1, <2>2, <2>5, CollectedTyped DEF TakeVector
  <2> QED
    BY <2>4, <2>5
<1>3. CASE MissDeadline
  <2>1. acc \in Sums /\ up' \in [Clients -> Seq(Vectors)]
    BY <1>3 DEF MissDeadline, TypeOK, Sums
  <2> QED
    BY <1>3, <2>1, CollectedTyped DEF MissDeadline
<1>4. CASE RootSends
  <2>1. down' \in [Clients -> Seq(Sums)]
    BY <1>4, QueueAppend DEF RootSends, TypeOK, Sums
  <2>2. at' \in Clients /\ root' \in {"out", "collect", "send", "failed"}
    <3>1. at \in Clients
      BY DEF TypeOK
    <3>2. ~Last(at) => at + 1 \in Clients
      BY <3>1, FederatedAssumption DEF Last, Clients
    <3> QED
      BY <1>4, <3>1, <3>2 DEF RootSends
  <2> QED
    BY <1>4, <2>1, <2>2 DEF RootSends, TypeOK, Sums, clientVars
<1>5. CASE RootSendFails
  BY <1>5 DEF RootSendFails, TypeOK, clientVars
<1>6. ASSUME NEW c \in Clients, ClientCalls(c) PROVE TypeOK'
  <2>0. cround[c] \in 0..Rounds /\ cround[c] < Rounds
    BY <1>6 DEF ClientCalls, TypeOK
  <2>1. cround[c] + 1 \in 1..Rounds
    BY <2>0, FederatedAssumption
  <2>2. Vector(c, cround[c] + 1) \in Vectors
    BY <2>1, ClientsTyped, VectorTyped
  <2>3. up' \in [Clients -> Seq(Vectors)]
    BY <1>6, <2>2, QueueAppend DEF ClientCalls, TypeOK
  <2>4. cround' \in [Clients -> 0..Rounds]
    BY <1>6, <2>1 DEF ClientCalls, TypeOK
  <2> QED
    BY <1>6, <2>3, <2>4 DEF ClientCalls, TypeOK, rootVars
<1>7. ASSUME NEW c \in Clients, ClientReturns(c) PROVE TypeOK'
  <2>1. down' \in [Clients -> Seq(Sums)] /\ Head(down[c]) \in Sums
    BY <1>7, QueueTake DEF ClientReturns, TypeOK, Sums
  <2>2. results' \in [Clients -> Seq(Sums)]
    <3>1. DataAfter(c, Head(down[c])) \in Sums
      BY <2>1, DataTyped
    <3> QED
      BY <1>7, <3>1, QueueAppend DEF ClientReturns, TypeOK, Sums
  <2> QED
    BY <1>7, <2>1, <2>2 DEF ClientReturns, TypeOK, Sums, rootVars
<1>8. ASSUME NEW c \in Clients, ClientFails(c) PROVE TypeOK'
  BY <1>8 DEF ClientFails, TypeOK, rootVars
<1>9. ASSUME NEW c \in Clients, Crash(c) PROVE TypeOK'
  BY <1>9 DEF Crash, TypeOK, rootVars
<1>10. CASE UNCHANGED vars
  BY <1>10 DEF vars, TypeOK
<1> QED
  BY <1>1, <1>2, <1>3, <1>4, <1>5, <1>6, <1>7, <1>8, <1>9, <1>10
  DEF Next, RootStep, ClientStep

\* The type invariant of federated_average's ranks and queues holds in every
\* reachable state.
THEOREM TypeCorrect == Spec => []TypeOK
<1>1. Init => TypeOK
  BY FederatedAssumption DEF Init, TypeOK, Clients
<1> QED
  BY <1>1, TypeStep, PTL DEF Spec

-----------------------------------------------------------------------------
(* What rank 0 sends a client, and in which order.                         *)

\* Every step keeps the queues of averages to the clients in rank 0's order: what
\* a client has returned, followed by what is on its way to it, is a prefix of the
\* averages rank 0 has computed.
LEMMA AnswersStep == TypeOK /\ AnswersInOrder /\ [Next]_vars => AnswersInOrder'
<1> SUFFICES ASSUME TypeOK, AnswersInOrder, [Next]_vars PROVE AnswersInOrder'
  OBVIOUS
<1>a. /\ averages \in Seq(Sums) /\ acc \in Sums /\ at \in Clients
      /\ down \in [Clients -> Seq(Sums)] /\ results \in [Clients -> Seq(Sums)]
  BY DEF TypeOK, Sums
<1>b. /\ Len(averages) \in Nat
      /\ \A c \in Clients : Len(down[c]) \in Nat /\ Len(results[c]) \in Nat
  BY <1>a, LenProperties
<1>1. CASE RootCalls
  BY <1>1 DEF RootCalls, AnswersInOrder, SentTo, clientVars
<1>2. ASSUME NEW sum \in Sums, Collected(sum), root = "collect" PROVE AnswersInOrder'
  <2>1. CASE ~Last(at)
    BY <1>2, <2>1 DEF Collected, AnswersInOrder, SentTo, clientVars
  <2>2. CASE Last(at)
    <3>1. /\ root' = "send" /\ at' = 1 /\ acc' = sum /\ averages' = Append(averages, sum)
          /\ UNCHANGED <<down, results>>
      BY <1>2, <2>2 DEF Collected, clientVars
    <3>2. /\ averages' \in Seq(Sums) /\ averages' # << >>
          /\ Len(averages') = Len(averages) + 1
          /\ \A i \in 1..Len(averages) : averages'[i] = averages[i]
          /\ averages'[Len(averages) + 1] = sum
      BY <1>a, <1>2, <3>1, AppendProperties
    <3>3. ASSUME NEW c \in Clients
          PROVE  /\ c >= 1 /\ SentTo(c) = Len(averages)
                 /\ \A k \in 1..Len(results[c]) : results[c][k] = DataAfter(c, averages[k])
                 /\ \A k \in 1..Len(down[c]) : down[c][k] = averages[Len(results[c]) + k]
      <4>1. c >= 1
        BY FederatedAssumption DEF Clients
      <4> QED
        BY <1>2, <4>1 DEF AnswersInOrder
    <3>4. ASSUME NEW c \in Clients
          PROVE  /\ \A k \in 1..Len(results[c]) : results[c][k] = DataAfter(c, averages'[k])
                 /\ \A k \in 1..Len(down[c]) : down[c][k] = averages'[Len(results[c]) + k]
      <4>1. Len(results[c]) + Len(down[c]) = Len(averages)
        BY <3>3 DEF SentTo
      <4>2. ASSUME NEW k \in 1..Len(results[c]) PROVE results[c][k] = DataAfter(c, averages'[k])
        <5>1. k \in 1..Len(averages)
          BY <1>a, <1>b, <4>1
        <5> QED
          BY <5>1, <3>2, <3>3
      <4>3. ASSUME NEW k \in 1..Len(down[c])
            PROVE  down[c][k] = averages'[Len(results[c]) + k]
        <5>1. Len(results[c]) + k \in 1..Len(averages)
          BY <1>a, <1>b, <4>1
        <5> QED
          BY <5>1, <3>2, <3>3
      <4> QED
        BY <4>2, <4>3
    <3>5. ASSUME NEW c \in Clients
          PROVE  SentTo(c)' = Len(averages') - 1 /\ ~(c < at') /\ SentTo(c)' =< Len(averages')
      <4>1. SentTo(c)' = SentTo(c)
        BY <3>1 DEF SentTo
      <4> QED
        BY <1>a, <1>b, <3>1, <3>2, <3>3, <4>1, ClientsTyped
    <3>6. \A c \in Clients : results'[c] = results[c] /\ down'[c] = down[c]
      BY <3>1
    <3> QED
      BY <3>1, <3>2, <3>4, <3>5, <3>6 DEF AnswersInOrder
  <2> QED
    BY <2>1, <2>2
<1>3. CASE TakeVector
  <2>1. Head(up[at]) \in Vectors
    BY <1>3, QueueTake DEF TakeVector, TypeOK
  <2>2. Append(acc, Head(up[at])) \in Sums
    BY <1>a, <2>1, AppendProperties DEF Sums
  <2> QED
    BY <1>3, <1>2, <1>a, <2>2 DEF TakeVector
<1>4. CASE MissDeadline
  BY <1>4, <1>2, <1>a DEF MissDeadline
<1>5. CASE RootSends
  <2>1. /\ down' = [down EXCEPT ![at] = Append(@, acc)] /\ root = "send"
        /\ UNCHANGED <<acc, averages, results>>
    BY <1>5 DEF RootSends, clientVars
  <2>2. /\ Len(down'[at]) = Len(down[at]) + 1
        /\ \A i \in 1..Len(down[at]) : down'[at][i] = down[at][i]
        /\ down'[at][Len(down[at]) + 1] = acc
    BY <1>a, <2>1, QueueAppend
  <2>3. \A c \in Clients \ {at} : down'[c] = down[c]
    BY <1>a, <2>1
  <2>4. /\ averages # << >> /\ acc = averages[Len(averages)]
        /\ \A c \in Clients : SentTo(c) = IF c < at THEN Len(averages) ELSE Len(averages) - 1
    BY <2>1 DEF AnswersInOrder
  <2>5. ASSUME NEW c \in Clients
        PROVE  /\ \A k \in 1..Len(results[c]) : results[c][k] = DataAfter(c, averages[k])
               /\ \A k \in 1..Len(down[c]) : down[c][k] = averages[Len(results[c]) + k]
    BY DEF AnswersInOrder
  <2>6. ASSUME NEW c \in Clients
        PROVE  \A k \in 1..Len(down'[c]) : down'[c][k] = averages[Len(results[c]) + k]
    <3>1. CASE c = at
      <4>1. Len(results[at]) + Len(down[at]) = Len(averages) - 1
        BY <1>a, <2>4, ClientsTyped DEF SentTo
      <4>2. ASSUME NEW k \in 1..Len(down'[at])
            PROVE  down'[at][k] = averages[Len(results[at]) + k]
        <5>1. CASE k \in 1..Len(down[at])
          BY <1>a, <2>2, <2>5, <5>1
        <5>2. CASE k = Len(down[at]) + 1
          <6>1. Len(results[at]) + k = Len(averages)
            BY <1>a, <1>b, <4>1, <5>2
          <6> QED
            BY <2>2, <2>4, <5>2, <6>1
        <5> QED
          BY <1>a, <1>b, <2>2, <5>1, <5>2
      <4> QED
        BY <3>1, <4>2
    <3>2. CASE c # at
      <4>1. down'[c] = down[c]
        BY <2>3, <3>2
      <4> QED
        BY <2>5, <4>1
    <3> QED
      BY <3>1, <3>2
  <2>7. ASSUME NEW c \in Clients
        PROVE  SentTo(c)' = IF c < at + 1 THEN Len(averages) ELSE Len(averages) - 1
    <3>1. CASE c = at
      BY <1>a, <1>b, <2>1, <2>2, <2>4, <3>1, ClientsTyped DEF SentTo
    <3>2. CASE c # at
      <4>1. SentTo(c)' = SentTo(c)
        BY <2>1, <2>3, <3>2 DEF SentTo
      <4>2. (c < at + 1) <=> (c < at)
        BY <1>a, <3>2, ClientsTyped
      <4> QED
        BY <2>4, <4>1, <4>2
    <3> QED
      BY <3>1, <3>2
  <2>8. CASE Last(at)
    <3>1. root' = "out"
      BY <1>5, <2>8 DEF RootSends
    <3>2. \A c \in Clients : c < at + 1
      BY <2>8, FederatedAssumption DEF Last, Clients
    <3>3. \A c \in Clients : SentTo(c)' = Len(averages)
      BY <2>7, <3>2
    <3> QED
      BY <1>a, <1>b, <2>1, <2>5, <2>6, <3>1, <3>3 DEF AnswersInOrder
  <2>9. CASE ~Last(at)
    <3>1. root' = "send" /\ at' = at + 1
      BY <1>5, <2>1, <2>9 DEF RootSends
    <3> QED
      BY <1>a, <1>b, <2>1, <2>4, <2>5, <2>6, <2>7, <3>1 DEF AnswersInOrder
  <2> QED
    BY <2>8, <2>9
<1>6. CASE RootSendFails
  BY <1>6 DEF RootSendFails, AnswersInOrder, SentTo, clientVars
<1>7. ASSUME NEW c \in Clients, ClientReturns(c) PROVE AnswersInOrder'
  <2>1. /\ down[c] # << >> /\ down' = [down EXCEPT ![c] = Tail(@)]
        /\ results' = [results EXCEPT ![c] = Append(@, DataAfter(c, Head(down[c])))]
        /\ UNCHANGED <<root, at, acc, averages>>
    BY <1>7 DEF ClientReturns, rootVars
  <2>2. /\ Head(down[c]) \in Sums /\ Head(down[c]) = down[c][1]
        /\ Len(down[c]) \in Nat \ {0} /\ Len(down'[c]) = Len(down[c]) - 1
        /\ \A i \in 1..Len(down'[c]) : down'[c][i] = down[c][i + 1]
    BY <1>a, <2>1, QueueTake
  <2>3. /\ Len(results'[c]) = Len(results[c]) + 1
        /\ \A i \in 1..Len(results[c]) : results'[c][i] = results[c][i]
        /\ results'[c][Len(results[c]) + 1] = DataAfter(c, down[c][1])
    BY <1>a, <2>1, <2>2, DataTyped, QueueAppend
  <2>4. \A d \in Clients \ {c} : down'[d] = down[d] /\ results'[d] = results[d]
    BY <1>a, <2>1
  <2>5. ASSUME NEW d \in Clients
        PROVE  /\ \A k \in 1..Len(results[d]) : results[d][k] = DataAfter(d, averages[k])
               /\ \A k \in 1..Len(down[d]) : down[d][k] = averages[Len(results[d]) + k]
    BY DEF AnswersInOrder
  <2>6. ASSUME NEW d \in Clients PROVE SentTo(d)' = SentTo(d)
    <3>1. CASE d = c
      <4>1. Len(results'[c]) + Len(down'[c]) = Len(results[c]) + Len(down[c])
        BY <1>a, <1>b, <2>2, <2>3
      <4> QED
        BY <3>1, <4>1 DEF SentTo
    <3>2. CASE d # c
      BY <2>4, <3>2 DEF SentTo
    <3> QED
      BY <3>1, <3>2
  <2>7. ASSUME NEW d \in Clients
        PROVE  /\ \A k \in 1..Len(results'[d]) : results'[d][k] = DataAfter(d, averages[k])
               /\ \A k \in 1..Len(down'[d]) : down'[d][k] = averages[Len(results'[d]) + k]
    <3>1. CASE d = c
      <4>1. ASSUME NEW k \in 1..Len(results'[c]) PROVE results'[c][k] = DataAfter(c, averages[k])
        <5>1. CASE k \in 1..Len(results[c])
          BY <2>3, <2>5, <5>1
        <5>2. CASE k = Len(results[c]) + 1
          <6>1. down[c][1] = averages[Len(results[c]) + 1]
            BY <2>2, <2>5
          <6> QED
            BY <2>3, <5>2, <6>1
        <5> QED
          BY <1>a, <1>b, <2>3, <5>1, <5>2
      <4>2. ASSUME NEW k \in 1..Len(down'[c])
            PROVE  down'[c][k] = averages[Len(results'[c]) + k]
        <5>1. k + 1 \in 1..Len(down[c]) /\ down'[c][k] = down[c][k + 1]
          BY <1>a, <1>b, <2>2
        <5>2. down[c][k + 1] = averages[Len(results[c]) + (k + 1)]
          BY <5>1, <2>5
        <5>3. Len(results[c]) + (k + 1) = Len(results'[c]) + k
          BY <1>a, <1>b, <2>2, <2>3
        <5> QED
          BY <5>1, <5>2, <5>3
      <4> QED
        BY <3>1, <4>1, <4>2
    <3>2. CASE d # c
      <4>1. down'[d] = down[d] /\ results'[d] = results[d]
        BY <2>4, <3>2
      <4> QED
        BY <2>5, <4>1
    <3> QED
      BY <3>1, <3>2
  <2>8. root' = "send" => averages' # << >> /\ acc' = averages'[Len(averages')]
    BY <2>1 DEF AnswersInOrder
  <2>9. ASSUME NEW d \in Clients
        PROVE  /\ SentTo(d)' =< Len(averages')
               /\ root' \in {"out", "collect"} => SentTo(d)' = Len(averages')
               /\ root' = "send" =>
                     SentTo(d)' = IF d < at' THEN Len(averages') ELSE Len(averages') - 1
    BY <2>1, <2>6 DEF AnswersInOrder
  <2>10. ASSUME NEW d \in Clients
         PROVE  /\ \A k \in 1..Len(results'[d]) : results'[d][k] = DataAfter(d, averages'[k])
                /\ \A k \in 1..Len(down'[d]) : down'[d][k] = averages'[Len(results'[d]) + k]
    <3>1. averages' = averages
      BY <2>1
    <3> QED
      BY <2>7, <3>1
  <2> QED
    BY <2>8, <2>9, <2>10 DEF AnswersInOrder
<1>8. ASSUME NEW c \in Clients, ClientCalls(c) \/ ClientFails(c) \/ Crash(c)
      PROVE  AnswersInOrder'
  <2>1. UNCHANGED <<root, at, acc, averages, down, results>>
    BY <1>8 DEF ClientCalls, ClientFails, Crash, rootVars
  <2> QED
    BY <2>1 DEF AnswersInOrder, SentTo
<1>9. CASE UNCHANGED vars
  BY <1>9 DEF vars, AnswersInOrder, SentTo
<1> QED
  BY <1>1, <1>3, <1>4, <1>5, <1>6, <1>7, <1>8, <1>9 DEF Next, RootStep, ClientStep

\* The k-th round of a client leaves the average of rank 0's k-th round in its data,
\* for any number of clients and rounds, whichever deadlines are missed and clients
\* crash (federated_average: the non-roots "get the averaged `data`"), except in the
\* data of a client whose length is not rank 0's, which no round changes.
THEOREM AveragesInOrder == Spec => []ResultsInOrder
<1>1. Init => TypeOK /\ AnswersInOrder
  <2>1. Init => TypeOK
    BY FederatedAssumption DEF Init, TypeOK, Clients
  <2>2. Init => AnswersInOrder
    BY DEF Init, AnswersInOrder, SentTo
  <2> QED
    BY <2>1, <2>2
<1>2. TypeOK /\ AnswersInOrder => ResultsInOrder
  <2> SUFFICES ASSUME TypeOK, AnswersInOrder, NEW c \in Clients
               PROVE  /\ Len(results[c]) =< Len(averages)
                      /\ \A k \in DOMAIN results[c] : results[c][k] = DataAfter(c, averages[k])
    BY DEF ResultsInOrder, DataAfter
  <2>0. averages \in Seq(Sums) /\ down[c] \in Seq(Sums) /\ results[c] \in Seq(Sums)
    BY DEF TypeOK, Sums
  <2>1. Len(results[c]) + Len(down[c]) =< Len(averages)
    BY DEF AnswersInOrder, SentTo
  <2>2. Len(results[c]) =< Len(averages)
    <3>1. \A i, j, k \in Nat : i + j =< k => i =< k
      OBVIOUS
    <3>2. /\ Len(averages) \in Nat /\ Len(down[c]) \in Nat /\ Len(results[c]) \in Nat
      BY <2>0, LenProperties
    <3> QED
      BY <2>1, <3>1, <3>2
  <2> QED
    BY <2>0, <2>2 DEF AnswersInOrder
<1> QED
  BY <1>1, <1>2, TypeStep, AnswersStep, PTL DEF Spec

-----------------------------------------------------------------------------
(***************************************************************************)
(* Which vectors enter which average.  While rank 0 collects, the sum it   *)
(* has so far counts as the next average.                                  *)
(***************************************************************************)
Collections == 1..(Len(averages) + IF root = "collect" THEN 1 ELSE 0)

SumOf(k) == IF k = Len(averages) + 1 THEN acc ELSE averages[k]

\* The rounds whose vector of client c the k-th collection has.
UsedIn(k, c) == {v \in 1..Rounds : Vector(c, v) \in Range(SumOf(k))}

\* How many vectors of client c rank 0 has taken from its queue.
Taken(c) == cround[c] - Len(up[c])

\* The queue of client c holds the vectors after those taken, in order, and the client
\* is at most one round ahead of what it got back.
QueueInOrder ==
    /\ round = Len(averages) + IF root = "collect" THEN 1 ELSE 0
    /\ \A c \in Clients :
          /\ Len(up[c]) =< cround[c]
          /\ \A i \in 1..Len(up[c]) : up[c][i] = Vector(c, Taken(c) + i)
          /\ cround[c] =< Len(results[c]) + 1
          /\ client[c] = "out" => cround[c] =< Len(results[c])

\* The collections have exactly the vectors taken, at most one each and later ones in
\* later collections; a vector that is late has a collection without any before it.
UseInOrder(c) ==
    /\ \A v \in 1..Rounds : (\E k \in Collections : v \in UsedIn(k, c)) <=> v =< Taken(c)
    /\ \A j, k \in Collections : j < k => \A v \in UsedIn(j, c), w \in UsedIn(k, c) : v < w
    /\ \A k \in Collections : \A v, w \in UsedIn(k, c) : v = w
    /\ \A k \in Collections :
          root = "collect" /\ at =< c /\ k = Len(averages) + 1 => UsedIn(k, c) = {}
    /\ \A k \in Collections : \A v \in UsedIn(k, c) :
          /\ v =< k
          /\ v < k => \E j \in 1..(k - 1) : UsedIn(j, c) = {}

\* Rank 0's own vector is the one of the round; one of another length is in no average.
OthersInOrder ==
    \A k \in Collections : UsedIn(k, 0) \subseteq {k} /\ \A c \in Odd : UsedIn(k, c) = {}

VectorInv ==
    /\ TypeOK /\ AnswersInOrder /\ QueueInOrder /\ OthersInOrder
    /\ \A c \in Clients \ Odd : UseInOrder(c)

\* The elements of a sequence with one more.
LEMMA RangeAppend ==
    ASSUME NEW S, NEW s \in Seq(S), NEW e \in S
    PROVE  Range(Append(s, e)) = Range(s) \cup {e}
<1>1. /\ Append(s, e) \in Seq(S) /\ Len(Append(s, e)) = Len(s) + 1 /\ Len(s) \in Nat
      /\ \A i \in 1..Len(s) : Append(s, e)[i] = s[i]
      /\ Append(s, e)[Len(s) + 1] = e
  BY AppendProperties, LenProperties
<1>2. DOMAIN s = 1..Len(s) /\ DOMAIN Append(s, e) = 1..(Len(s) + 1)
  BY <1>1, LenProperties
<1>3. 1..(Len(s) + 1) = (1..Len(s)) \cup {Len(s) + 1}
  BY <1>1
<1> QED
  BY <1>1, <1>2, <1>3 DEF Range

\* Moving on in the collection loop changes the sum of the collection it is in, and of
\* no other.
LEMMA CollectedSums ==
    ASSUME TypeOK, root = "collect", NEW sum \in Sums, Collected(sum)
    PROVE  /\ Collections' = Collections /\ Collections = 1..(Len(averages) + 1)
           /\ Len(averages) \in Nat
           /\ \A k \in Collections : SumOf(k)' = IF k = Len(averages) + 1 THEN sum ELSE SumOf(k)
           /\ round' = round /\ UNCHANGED <<client, cround, results, down>>
           /\ Len(averages') + (IF root' = "collect" THEN 1 ELSE 0) = Len(averages) + 1
           /\ root' = "collect" => averages' = averages /\ at' = at + 1
<1>1. averages \in Seq(Sums) /\ Len(averages) \in Nat
  BY LenProperties DEF TypeOK, Sums
<1>2. round' = round /\ acc' = sum /\ UNCHANGED <<client, cround, results, down>>
  BY DEF Collected, clientVars
<1>3. CASE Last(at)
  <2>1. root' = "send" /\ averages' = Append(averages, sum)
    BY <1>3 DEF Collected
  <2>2. /\ Len(averages') = Len(averages) + 1
        /\ \A i \in 1..Len(averages) : averages'[i] = averages[i]
        /\ averages'[Len(averages) + 1] = sum
    BY <1>1, <2>1, AppendProperties
  <2>3. Collections' = 1..(Len(averages) + 1) /\ Collections = 1..(Len(averages) + 1)
    BY <1>1, <2>1, <2>2 DEF Collections
  <2>4. ASSUME NEW k \in Collections
        PROVE  SumOf(k)' = IF k = Len(averages) + 1 THEN sum ELSE SumOf(k)
    <3>1. k # Len(averages') + 1
      BY <1>1, <2>2, <2>3
    <3>2. SumOf(k)' = averages'[k]
      BY <3>1 DEF SumOf
    <3>3. k = Len(averages) + 1 \/ k \in 1..Len(averages)
      BY <1>1, <2>3
    <3> QED
      BY <1>1, <2>2, <3>2, <3>3 DEF SumOf
  <2> QED
    BY <1>1, <1>2, <2>1, <2>2, <2>3, <2>4
<1>4. CASE ~Last(at)
  <2>1. root' = root /\ averages' = averages /\ at' = at + 1
    BY <1>4 DEF Collected
  <2> QED
    BY <1>1, <1>2, <2>1 DEF Collections, SumOf
<1> QED
  BY <1>3, <1>4

\* A step that uses no vector of c and takes none from its queue.
LEMMA UseSame ==
    ASSUME NEW c \in Clients, UseInOrder(c), Collections' = Collections, Taken(c)' = Taken(c),
           \A k \in Collections : UsedIn(k, c)' = UsedIn(k, c), Len(averages) \in Nat,
           (root' = "collect" /\ at' =< c) =>
              (root = "collect" /\ at =< c /\ Len(averages') = Len(averages))
    PROVE  UseInOrder(c)'
<1>1. \A v \in 1..Rounds : (\E k \in Collections : v \in UsedIn(k, c)) <=> v =< Taken(c)
  BY DEF UseInOrder
<1>2. \A j, k \in Collections : j < k => \A v \in UsedIn(j, c), w \in UsedIn(k, c) : v < w
  BY DEF UseInOrder
<1>3. \A k \in Collections : \A v, w \in UsedIn(k, c) : v = w
  BY DEF UseInOrder
<1>4. \A k \in Collections :
         root' = "collect" /\ at' =< c /\ k = Len(averages') + 1 => UsedIn(k, c) = {}
  BY DEF UseInOrder
<1>5. \A k \in Collections : \A v \in UsedIn(k, c) :
          /\ v =< k
          /\ v < k => \E j \in 1..(k - 1) : UsedIn(j, c) = {}
  BY DEF UseInOrder
<1>6. \A k \in Collections : \A j \in 1..(k - 1) : j \in Collections
  BY DEF Collections
<1>7. \A v \in 1..Rounds : (\E k \in Collections' : v \in UsedIn(k, c)') <=> v =< Taken(c)'
  BY <1>1
<1>8. /\ \A j, k \in Collections' : j < k => \A v \in UsedIn(j, c)', w \in UsedIn(k, c)' : v < w
      /\ \A k \in Collections' : \A v, w \in UsedIn(k, c)' : v = w
  BY <1>2, <1>3
<1>9. \A k \in Collections' :
         root' = "collect" /\ at' =< c /\ k = Len(averages') + 1 => UsedIn(k, c)' = {}
  BY <1>4
<1>10. \A k \in Collections' : \A v \in UsedIn(k, c)' :
          /\ v =< k
          /\ v < k => \E j \in 1..(k - 1) : UsedIn(j, c)' = {}
  BY <1>5, <1>6
<1> QED
  BY <1>7, <1>8, <1>9, <1>10 DEF UseInOrder

\* Rank 0 adds the next vector of c to the collection it is in.
LEMMA UseNext ==
    ASSUME NEW c \in Clients, UseInOrder(c), NEW V \in 1..Rounds, NEW K \in Nat,
           Collections = 1..K, Collections' = Collections, V =< K, UsedIn(K, c) = {},
           Taken(c) = V - 1, Taken(c)' = V,
           \A k \in Collections : UsedIn(k, c)' = UsedIn(k, c) \cup (IF k = K THEN {V} ELSE {}),
           ~(root' = "collect" /\ at' =< c)
    PROVE  UseInOrder(c)'
<1>0. V \in Nat /\ K \in 1..K /\ \A k \in 1..K : UsedIn(k, c) \subseteq 1..Rounds
  BY FederatedAssumption DEF UsedIn
<1>1. \A v \in 1..Rounds : (\E k \in 1..K : v \in UsedIn(k, c)) <=> v =< V - 1
  BY DEF UseInOrder
<1>2. \A j, k \in 1..K : j < k => \A v \in UsedIn(j, c), w \in UsedIn(k, c) : v < w
  BY DEF UseInOrder
<1>3. \A k \in 1..K : \A v, w \in UsedIn(k, c) : v = w
  BY DEF UseInOrder
<1>4. \A k \in 1..K : \A v \in UsedIn(k, c) :
          /\ v =< k
          /\ v < k => \E j \in 1..(k - 1) : UsedIn(j, c) = {}
  BY DEF UseInOrder
<1>5. /\ UsedIn(K, c)' = {V}
      /\ \A k \in 1..K : k # K => UsedIn(k, c)' = UsedIn(k, c)
  BY <1>0
<1>6. \A k \in 1..K : \A v \in UsedIn(k, c) : v < V
  BY <1>0, <1>1
<1>7. V < K => \E j \in 1..(K - 1) : UsedIn(j, c) = {}
  <2> SUFFICES ASSUME V < K, \A j \in 1..(K - 1) : UsedIn(j, c) # {} PROVE FALSE
    OBVIOUS
  <2>1. K - 1 \in 1..K /\ K - 1 \in 1..(K - 1)
    BY <1>0
  <2>2. PICK w \in UsedIn(K - 1, c) : TRUE
    BY <2>1
  <2>3. w \in 1..Rounds /\ w < V /\ w < K - 1
    BY <1>0, <1>6, <2>1
  <2>4. PICK j \in 1..((K - 1) - 1) : UsedIn(j, c) = {}
    BY <1>4, <2>1, <2>3
  <2> QED
    BY <2>4
<1>8. \A v \in 1..Rounds : (\E k \in 1..K : v \in UsedIn(k, c)') <=> v =< V
  <2> TAKE v \in 1..Rounds
  <2>1. CASE v = V
    BY <1>0, <1>5, <2>1
  <2>2. CASE v # V
    <3>1. (\E k \in 1..K : v \in UsedIn(k, c)') <=> (\E k \in 1..K : v \in UsedIn(k, c))
      BY <1>5, <2>2
    <3>2. v =< V - 1 <=> v =< V
      BY <1>0, <2>2
    <3> QED
      BY <1>1, <3>1, <3>2
  <2> QED
    BY <2>1, <2>2
<1>9. \A j, k \in 1..K : j < k => \A v \in UsedIn(j, c)', w \in UsedIn(k, c)' : v < w
  <2> TAKE j, k \in 1..K
  <2> HAVE j < k
  <2>1. UsedIn(j, c)' = UsedIn(j, c)
    BY <1>5
  <2>2. CASE k = K
    BY <1>5, <1>6, <2>1, <2>2
  <2>3. CASE k # K
    BY <1>2, <1>5, <2>1, <2>3
  <2> QED
    BY <2>2, <2>3
<1>10. \A k \in 1..K : \A v, w \in UsedIn(k, c)' : v = w
  BY <1>3, <1>5
<1>11. \A k \in 1..K : \A v \in UsedIn(k, c)' :
          /\ v =< k
          /\ v < k => \E j \in 1..(k - 1) : UsedIn(j, c)' = {}
  <2> TAKE k \in 1..K
  <2>1. \A j \in 1..(k - 1) : UsedIn(j, c)' = UsedIn(j, c)
    BY <1>5
  <2>2. CASE k = K
    BY <1>5, <1>7, <2>1, <2>2
  <2>3. CASE k # K
    BY <1>4, <1>5, <2>1, <2>3
  <2> QED
    BY <2>2, <2>3
<1> QED
  BY <1>8, <1>9, <1>10, <1>11 DEF UseInOrder

\* What the invariant's parts say of the sizes.
LEMMA VectorTypes ==
    ASSUME VectorInv
    PROVE  /\ averages \in Seq(Sums) /\ acc \in Sums /\ at \in Clients
           /\ Len(averages) \in Nat /\ round \in Nat
           /\ up \in [Clients -> Seq(Vectors)] /\ cround \in [Clients -> 0..Rounds]
           /\ results \in [Clients -> Seq(Sums)]
           /\ \A c \in Clients : /\ c \in Int /\ c # 0 /\ Len(up[c]) \in Nat /\ Taken(c) \in Nat
                                 /\ cround[c] \in Nat /\ cround[c] =< Rounds
                                 /\ Len(results[c]) \in Nat /\ Len(results[c]) =< Len(averages)
<1>1. /\ averages \in Seq(Sums) /\ acc \in Sums /\ at \in Clients /\ round \in 0..Rounds
      /\ up \in [Clients -> Seq(Vectors)] /\ cround \in [Clients -> 0..Rounds]
      /\ results \in [Clients -> Seq(Sums)] /\ down \in [Clients -> Seq(Sums)]
  BY DEF VectorInv, TypeOK, Sums
<1>2. /\ Len(averages) \in Nat
      /\ \A c \in Clients : Len(up[c]) \in Nat /\ Len(results[c]) \in Nat /\ Len(down[c]) \in Nat
  BY <1>1, LenProperties
<1>3. \A c \in Clients : cround[c] \in Nat /\ cround[c] =< Rounds
  BY <1>1, FederatedAssumption
<1>4. \A c \in Clients : Taken(c) \in Nat
  BY <1>2, <1>3 DEF VectorInv, QueueInOrder, Taken
<1>5. ASSUME NEW c \in Clients PROVE Len(results[c]) =< Len(averages)
  <2>1. Len(results[c]) + Len(down[c]) =< Len(averages)
    BY DEF VectorInv, AnswersInOrder, SentTo
  <2>2. \A i, j, k \in Nat : i + j =< k => i =< k
    OBVIOUS
  <2> QED
    BY <1>2, <2>1, <2>2
<1>6. \A c \in Clients : c \in Int /\ c # 0
  BY FederatedAssumption DEF Clients
<1> QED
  BY <1>1, <1>2, <1>3, <1>4, <1>5, <1>6, FederatedAssumption

\* The vectors a collection has are the same when its sum is.
LEMMA SameSumSameUse ==
    ASSUME NEW k, NEW c, SumOf(k)' = SumOf(k)
    PROVE  UsedIn(k, c)' = UsedIn(k, c)
BY DEF UsedIn

\* A step that changes no sum.
LEMMA QuietUse ==
    ASSUME VectorInv, Collections' = Collections, \A k \in Collections : SumOf(k)' = SumOf(k),
           \A c \in Clients \ Odd : Taken(c)' = Taken(c),
           root' = "collect" => root = "collect" /\ at' >= at /\ Len(averages') = Len(averages),
           at' \in Clients
    PROVE  OthersInOrder' /\ \A c \in Clients \ Odd : UseInOrder(c)'
<1>1. \A k \in Collections : \A c : UsedIn(k, c)' = UsedIn(k, c)
  BY SameSumSameUse
<1>2. OthersInOrder'
  BY <1>1 DEF VectorInv, OthersInOrder
<1>3. ASSUME NEW c \in Clients \ Odd PROVE UseInOrder(c)'
  <2>1. UseInOrder(c)
    BY DEF VectorInv
  <2>2. c \in Int /\ at \in Int /\ at' \in Int /\ Len(averages) \in Nat
    BY VectorTypes, ClientsTyped
  <2>3. (root' = "collect" /\ at' =< c) =>
              (root = "collect" /\ at =< c /\ Len(averages') = Len(averages))
    BY <2>2
  <2>4. Taken(c)' = Taken(c) /\ \A k \in Collections : UsedIn(k, c)' = UsedIn(k, c)
    BY <1>1
  <2> QED
    BY <2>1, <2>2, <2>3, <2>4, UseSame
<1> QED
  BY <1>2, <1>3

\* The vector at the head of the queue of the client rank 0 is at.
LEMMA HeadIsNext ==
    ASSUME VectorInv, root = "collect", up[at] # << >>
    PROVE  /\ Taken(at) + 1 \in 1..Rounds /\ Taken(at) + 1 =< Len(averages) + 1
           /\ Head(up[at]) = Vector(at, Taken(at) + 1)
           /\ Head(up[at]) \in Vectors
<1>1. /\ Len(up[at]) \in Nat \ {0} /\ Head(up[at]) = up[at][1] /\ Head(up[at]) \in Vectors
  BY VectorTypes, QueueTake
<1>2. /\ up[at][1] = Vector(at, Taken(at) + 1) /\ cround[at] =< Len(results[at]) + 1
  BY <1>1, VectorTypes DEF VectorInv, QueueInOrder
<1>3. Taken(at) = cround[at] - Len(up[at])
  BY DEF Taken
<1>4. Taken(at) + 1 =< cround[at]
  BY <1>1, <1>3, VectorTypes
<1> QED
  BY <1>1, <1>2, <1>4, VectorTypes, FederatedAssumption

\* The queue of vectors of the client rank 0 takes one from.
LEMMA TakeKeepsQueue ==
    ASSUME VectorInv, TakeVector
    PROVE  /\ QueueInOrder'
           /\ \A c \in Clients : Taken(c)' = IF c = at THEN Taken(c) + 1 ELSE Taken(c)
<1>1. /\ root = "collect" /\ up[at] # << >> /\ up' = [up EXCEPT ![at] = Tail(@)]
      /\ \E sum \in Sums : Collected(sum)
  <2>1. root = "collect" /\ up[at] # << >>
    BY DEF TakeVector
  <2>2. Append(acc, Head(up[at])) \in Sums /\ acc \in Sums
    BY <2>1, HeadIsNext, VectorTypes, AppendProperties DEF Sums
  <2> QED
    BY <2>1, <2>2 DEF TakeVector
<1>2. /\ round' = round /\ UNCHANGED <<client, cround, results>>
      /\ Len(averages') + (IF root' = "collect" THEN 1 ELSE 0) = Len(averages) + 1
  BY <1>1, CollectedSums DEF VectorInv
<1>3. /\ Len(up[at]) \in Nat \ {0} /\ Len(up'[at]) = Len(up[at]) - 1
      /\ \A i \in 1..Len(up'[at]) : up'[at][i] = up[at][i + 1]
  BY <1>1, VectorTypes, QueueTake
<1>4. \A c \in Clients : c # at => up'[c] = up[c]
  BY <1>1, VectorTypes
<1>5. ASSUME NEW c \in Clients PROVE Taken(c)' = IF c = at THEN Taken(c) + 1 ELSE Taken(c)
  <2>1. CASE c = at
    <3>1. cround'[c] = cround[c] /\ cround[c] \in Nat /\ Len(up'[c]) = Len(up[c]) - 1 /\ Len(up[c]) \in Nat
      BY <1>2, <1>3, <2>1, VectorTypes
    <3>2. \A x, y \in Nat : x - (y - 1) = (x - y) + 1
      OBVIOUS
    <3>3. cround'[c] - Len(up'[c]) = (cround[c] - Len(up[c])) + 1
      BY <3>1, <3>2
    <3> QED
      BY <2>1, <3>3 DEF Taken
  <2>2. CASE c # at
    BY <1>2, <1>4, <2>2 DEF Taken
  <2> QED
    BY <2>1, <2>2
<1>7. ASSUME NEW i \in 1..Len(up'[at]) PROVE up'[at][i] = Vector(at, (Taken(at) + 1) + i)
  <2>1. i + 1 \in 1..Len(up[at])
    BY <1>3
  <2>2. up[at][i + 1] = Vector(at, Taken(at) + (i + 1))
    BY <2>1, VectorTypes DEF VectorInv, QueueInOrder
  <2>3. Taken(at) + (i + 1) = (Taken(at) + 1) + i
    BY VectorTypes
  <2> QED
    BY <1>3, <2>2, <2>3
<1>8. ASSUME NEW c \in Clients
      PROVE  /\ Len(up'[c]) =< cround[c]
             /\ \A i \in 1..Len(up'[c]) : up'[c][i] = Vector(c, Taken(c)' + i)
  <2>1. CASE c = at
    <3>1. Len(up'[at]) =< cround[at]
      BY <1>3, VectorTypes DEF VectorInv, QueueInOrder
    <3> QED
      BY <1>5, <1>7, <2>1, <3>1
  <2>2. CASE c # at
    BY <1>4, <1>5, <2>2 DEF VectorInv, QueueInOrder
  <2> QED
    BY <2>1, <2>2
<1>9. \A c \in Clients : /\ cround'[c] = cround[c] /\ results'[c] = results[c]
                         /\ client'[c] = client[c]
  BY <1>2
<1>10. round' = Len(averages') + IF root' = "collect" THEN 1 ELSE 0
  BY <1>1, <1>2 DEF VectorInv, QueueInOrder
<1>11. QueueInOrder'
  BY <1>8, <1>9, <1>10 DEF VectorInv, QueueInOrder
<1> QED
  BY <1>5, <1>11

\* Taking a vector, of a client whose vectors count and of one whose do not.
LEMMA TakeKeepsUse ==
    ASSUME VectorInv, TakeVector
    PROVE  OthersInOrder' /\ \A c \in Clients \ Odd : UseInOrder(c)'
<1> DEFINE K == Len(averages) + 1
           V == Taken(at) + 1
<1>1. root = "collect" /\ up[at] # << >> /\ at \in Clients /\ at # 0
  BY VectorTypes DEF TakeVector
<1>2. /\ V \in 1..Rounds /\ V =< K /\ Head(up[at]) = Vector(at, V) /\ Vector(at, V) \in Vectors
  BY <1>1, HeadIsNext
<1>3. \A c \in Clients : Taken(c)' = IF c = at THEN Taken(c) + 1 ELSE Taken(c)
  BY TakeKeepsQueue
<1>4. at' \in Clients
  BY <1>1, TypeStep DEF VectorInv, Next, RootStep, TypeOK
<1>5. CASE at \in Odd
  <2>1. Collected(acc) /\ acc \in Sums /\ TypeOK
    BY <1>5, VectorTypes DEF TakeVector, VectorInv
  <2>2. /\ Collections' = Collections
        /\ \A k \in Collections : SumOf(k)' = IF k = Len(averages) + 1 THEN acc ELSE SumOf(k)
        /\ root' = "collect" => averages' = averages /\ at' = at + 1
    BY <1>1, <2>1, CollectedSums
  <2>3. \A k \in Collections : SumOf(k)' = SumOf(k)
    BY <2>2 DEF SumOf
  <2>4. root' = "collect" => root = "collect" /\ at' >= at /\ Len(averages') = Len(averages)
    BY <1>1, <2>2, ClientsTyped
  <2>5. \A c \in Clients \ Odd : Taken(c)' = Taken(c)
    BY <1>3, <1>5
  <2> QED
    BY <1>4, <2>2, <2>3, <2>4, <2>5, QuietUse
<1>6. CASE at \notin Odd
  <2>0. acc \in Seq(Vectors)
    BY VectorTypes DEF Sums
  <2>1. /\ Collected(Append(acc, Vector(at, V))) /\ Append(acc, Vector(at, V)) \in Sums /\ TypeOK
    BY <1>2, <1>6, <2>0, AppendProperties DEF TakeVector, VectorInv, Sums
  <2>2. /\ Collections' = Collections /\ Collections = 1..K /\ Len(averages) \in Nat
        /\ \A k \in Collections :
              SumOf(k)' = IF k = Len(averages) + 1 THEN Append(acc, Vector(at, V)) ELSE SumOf(k)
        /\ root' = "collect" => averages' = averages /\ at' = at + 1
    BY <1>1, <2>1, CollectedSums
  <2>3. K \in Nat /\ K \in Collections /\ SumOf(K) = acc
    BY <2>2 DEF SumOf
  <2>4. Range(Append(acc, Vector(at, V))) = Range(acc) \cup {Vector(at, V)}
    BY <1>2, <2>0, RangeAppend
  <2>5. ASSUME NEW k \in Collections, NEW c
        PROVE  UsedIn(k, c)' = UsedIn(k, c) \cup (IF k = K /\ c = at THEN {V} ELSE {})
    <3>1. CASE k # K
      BY <2>2, <3>1, SameSumSameUse
    <3>2. CASE k = K
      <4>1. SumOf(k)' = Append(acc, Vector(at, V)) /\ SumOf(k) = acc
        BY <2>2, <2>3, <3>2
      <4>2. \A v : Vector(c, v) = Vector(at, V) <=> c = at /\ v = V
        BY DEF Vector
      <4>3. UsedIn(k, c)' = {v \in 1..Rounds : Vector(c, v) \in Range(acc) \cup {Vector(at, V)}}
        BY <2>4, <4>1 DEF UsedIn
      <4>4. UsedIn(k, c) = {v \in 1..Rounds : Vector(c, v) \in Range(acc)}
        BY <4>1 DEF UsedIn
      <4> QED
        BY <1>2, <3>2, <4>2, <4>3, <4>4
    <3> QED
      BY <3>1, <3>2
  <2>6. OthersInOrder'
    <3>1. \A c \in Odd : c # at
      BY <1>6
    <3> QED
      BY <1>1, <2>2, <2>5, <3>1 DEF VectorInv, OthersInOrder
  <2>7. ASSUME NEW c \in Clients \ Odd PROVE UseInOrder(c)'
    <3>0. UseInOrder(c) /\ c \in Int /\ at \in Int
      BY <1>1, ClientsTyped DEF VectorInv
    <3>1. CASE c = at
      <4>1. UsedIn(K, c) = {}
        BY <1>1, <2>3, <3>0, <3>1 DEF UseInOrder
      <4>2. Taken(c) = V - 1 /\ Taken(c)' = V
        BY <1>1, <1>3, <3>1, VectorTypes
      <4>3. ~(root' = "collect" /\ at' =< c)
        BY <2>2, <3>0, <3>1
      <4>4. \A k \in Collections : UsedIn(k, c)' = UsedIn(k, c) \cup (IF k = K THEN {V} ELSE {})
        BY <2>5, <3>1
      <4> HIDE DEF K, V
      <4> QED
        BY <1>2, <2>2, <2>3, <3>0, <4>1, <4>2, <4>3, <4>4, UseNext
    <3>2. CASE c # at
      <4>1. Taken(c)' = Taken(c)
        BY <1>3, <3>2
      <4>3. ASSUME NEW k \in Collections PROVE UsedIn(k, c)' = UsedIn(k, c)
        <5>1. UsedIn(k, c)' = UsedIn(k, c) \cup {}
          BY <2>5, <3>2
        <5> QED
          BY <5>1
      <4>2. (root' = "collect" /\ at' =< c) =>
              (root = "collect" /\ at =< c /\ Len(averages') = Len(averages))
        BY <1>1, <2>2, <3>0
      <4> QED
        BY <2>2, <3>0, <4>1, <4>2, <4>3, UseSame
    <3> QED
      BY <3>1, <3>2
  <2> QED
    BY <2>6, <2>7
<1> QED
  BY <1>5, <1>6

\* A call starts a collection with rank 0's own vector and no other.
LEMMA CallKeepsUse ==
    ASSUME VectorInv, RootCalls
    PROVE  QueueInOrder' /\ OthersInOrder' /\ \A c \in Clients \ Odd : UseInOrder(c)'
<1>1. /\ root = "out" /\ root' = "collect" /\ round' = round + 1 /\ at' = 1
      /\ acc' = <<Vector(0, round + 1)>>
      /\ UNCHANGED <<averages, client, cround, results, up, down>>
  BY DEF RootCalls, clientVars
<1>2. Len(averages) \in Nat /\ round = Len(averages)
  BY <1>1, VectorTypes DEF VectorInv, QueueInOrder
<1>k. PICK K \in Nat : K = Len(averages) + 1
  BY <1>2
<1>3. /\ Collections' = 1..K /\ Collections = 1..(K - 1) /\ Collections' = Collections \cup {K}
  BY <1>1, <1>2, <1>k DEF Collections
<1>4. \A k \in Collections : SumOf(k)' = SumOf(k) /\ k # K /\ k < K
  BY <1>1, <1>2, <1>3, <1>k DEF SumOf
<1>5. Range(<<Vector(0, K)>>) = {Vector(0, K)}
  BY DEF Range
<1>6. ASSUME NEW c PROVE UsedIn(K, c)' \subseteq (IF c = 0 THEN {K} ELSE {})
  <2>1. SumOf(K)' = <<Vector(0, K)>>
    BY <1>1, <1>2, <1>k DEF SumOf
  <2>2. UsedIn(K, c)' = {v \in 1..Rounds : Vector(c, v) \in {Vector(0, K)}}
    BY <1>5, <2>1 DEF UsedIn
  <2> QED
    BY <2>2 DEF Vector
<1>7. QueueInOrder'
  BY <1>1, <1>2 DEF VectorInv, QueueInOrder, Taken
<1>8. \A k \in Collections : \A c : UsedIn(k, c)' = UsedIn(k, c)
  BY <1>4, SameSumSameUse
<1>9. OthersInOrder'
  <2>1. \A c \in Odd : c # 0
    BY FederatedAssumption DEF Clients
  <2>2. \A k \in Collections : UsedIn(k, 0)' \subseteq {k} /\ \A c \in Odd : UsedIn(k, c)' = {}
    BY <1>8 DEF VectorInv, OthersInOrder
  <2>3. UsedIn(K, 0)' \subseteq {K} /\ \A c \in Odd : UsedIn(K, c)' = {}
    BY <1>6, <2>1
  <2> QED
    BY <1>3, <2>2, <2>3 DEF OthersInOrder
<1>10. ASSUME NEW c \in Clients \ Odd PROVE UseInOrder(c)'
  <2>1. UsedIn(K, c)' = {}
    BY <1>6, VectorTypes
  <2>2. \A k \in Collections' : k = K \/ (k \in Collections /\ k # K)
    BY <1>3, <1>4
  <2>3. Taken(c)' = Taken(c)
    BY <1>1 DEF Taken
  <2>4. UseInOrder(c)
    BY DEF VectorInv
  <2>5. \A v \in 1..Rounds : (\E k \in Collections' : v \in UsedIn(k, c)') <=> v =< Taken(c)'
    <3>1. \A v : (\E k \in Collections' : v \in UsedIn(k, c)')
                    <=> (\E k \in Collections : v \in UsedIn(k, c))
      BY <1>3, <1>8, <2>1
    <3> QED
      BY <2>3, <2>4, <3>1 DEF UseInOrder
  <2>6. \A j, k \in Collections' : j < k => \A v \in UsedIn(j, c)', w \in UsedIn(k, c)' : v < w
    BY <1>8, <2>1, <2>2, <2>4 DEF UseInOrder
  <2>7. \A k \in Collections' : \A v, w \in UsedIn(k, c)' : v = w
    BY <1>8, <2>1, <2>2, <2>4 DEF UseInOrder
  <2>8. \A k \in Collections' : k = Len(averages') + 1 => UsedIn(k, c)' = {}
    BY <1>1, <1>k, <2>1
  <2>9. ASSUME NEW k \in Collections', NEW v \in UsedIn(k, c)'
        PROVE  v =< k /\ (v < k => \E j \in 1..(k - 1) : UsedIn(j, c)' = {})
    <3>1. k \in Collections /\ v \in UsedIn(k, c)
      BY <1>8, <2>1, <2>2
    <3>2. v =< k /\ (v < k => \E j \in 1..(k - 1) : UsedIn(j, c) = {})
      BY <2>4, <3>1 DEF UseInOrder
    <3>3. \A j \in 1..(k - 1) : j \in Collections
      BY <1>3, <3>1
    <3> QED
      BY <1>8, <3>2, <3>3
  <2> QED
    BY <2>5, <2>6, <2>7, <2>8, <2>9 DEF UseInOrder
<1> QED
  BY <1>7, <1>9, <1>10

\* Every step keeps the vectors in order.
LEMMA VectorStep == VectorInv /\ [Next]_vars => VectorInv'
<1> SUFFICES ASSUME VectorInv, [Next]_vars PROVE VectorInv'
  OBVIOUS
<1>0. TypeOK' /\ AnswersInOrder' /\ at' \in Clients
  <2>1. TypeOK' /\ AnswersInOrder'
    BY TypeStep, AnswersStep DEF VectorInv
  <2> QED
    BY <2>1 DEF TypeOK
<1>n. /\ at \in Int /\ at' \in Int
      /\ \A c \in Clients : /\ Len(up[c]) \in Nat /\ cround[c] \in Nat /\ Len(results[c]) \in Nat
                            /\ Taken(c) \in Nat
  BY <1>0, VectorTypes, ClientsTyped
<1> SUFFICES QueueInOrder' /\ OthersInOrder' /\ \A c \in Clients \ Odd : UseInOrder(c)'
  BY <1>0 DEF VectorInv
<1>1. CASE RootCalls
  BY <1>1, CallKeepsUse
<1>2. CASE TakeVector
  BY <1>2, TakeKeepsQueue, TakeKeepsUse
<1>3. CASE MissDeadline
  <2>1. root = "collect" /\ Collected(acc) /\ acc \in Sums /\ TypeOK /\ up' = up
    BY <1>3, VectorTypes DEF MissDeadline, VectorInv
  <2>2. /\ Collections' = Collections /\ round' = round /\ UNCHANGED <<client, cround, results>>
        /\ \A k \in Collections : SumOf(k)' = IF k = Len(averages) + 1 THEN acc ELSE SumOf(k)
        /\ Len(averages') + (IF root' = "collect" THEN 1 ELSE 0) = Len(averages) + 1
        /\ root' = "collect" => averages' = averages /\ at' = at + 1
    BY <2>1, CollectedSums
  <2>3. \A k \in Collections : SumOf(k)' = SumOf(k)
    BY <2>2 DEF SumOf
  <2>4. root' = "collect" => root = "collect" /\ at' >= at /\ Len(averages') = Len(averages)
    BY <2>1, <2>2, <1>n
  <2>5. \A c \in Clients : Taken(c)' = Taken(c)
    BY <2>1, <2>2 DEF Taken
  <2>6. QueueInOrder'
    BY <2>1, <2>2, <2>5 DEF VectorInv, QueueInOrder
  <2> QED
    BY <1>0, <2>2, <2>3, <2>4, <2>5, <2>6, QuietUse
<1>4. ASSUME UNCHANGED <<averages, acc, round, cround, up, client, results>>,
             root' = "collect" <=> root = "collect", root = "collect" => at' = at
      PROVE  QueueInOrder' /\ OthersInOrder' /\ \A c \in Clients \ Odd : UseInOrder(c)'
  <2>1. Collections' = Collections /\ \A k \in Collections : SumOf(k)' = SumOf(k)
    BY <1>4 DEF Collections, SumOf
  <2>2. \A c \in Clients : Taken(c)' = Taken(c)
    BY <1>4 DEF Taken
  <2>3. QueueInOrder'
    BY <1>4, <2>2 DEF VectorInv, QueueInOrder
  <2>4. root' = "collect" => root = "collect" /\ at' >= at /\ Len(averages') = Len(averages)
    BY <1>4, <1>n
  <2> QED
    BY <1>0, <2>1, <2>2, <2>3, <2>4, QuietUse
<1>5. CASE RootSends \/ RootSendFails
  BY <1>4, <1>5 DEF RootSends, RootSendFails, clientVars
<1>6. ASSUME NEW c \in Clients, ClientCalls(c) \/ ClientReturns(c) \/ ClientFails(c) \/ Crash(c)
      PROVE  QueueInOrder' /\ OthersInOrder' /\ \A d \in Clients \ Odd : UseInOrder(d)'
  <2>1. /\ UNCHANGED <<root, at, round, acc, averages>>
        /\ \E s \in {"out", "waiting", "failed", "dead"} : client' = [client EXCEPT ![c] = s]
    BY <1>6 DEF ClientCalls, ClientReturns, ClientFails, Crash, rootVars
  <2>2. Collections' = Collections /\ \A k \in Collections : SumOf(k)' = SumOf(k)
    BY <2>1 DEF Collections, SumOf
  <2>3. QueueInOrder' /\ \A d \in Clients : Taken(d)' = Taken(d)
    <3>0. client \in [Clients -> {"out", "waiting", "failed", "dead"}]
      BY DEF VectorInv, TypeOK
    <3>1. CASE ClientCalls(c)
      <4>1. /\ client[c] = "out" /\ client' = [client EXCEPT ![c] = "waiting"]
            /\ cround' = [cround EXCEPT ![c] = @ + 1] /\ results' = results
            /\ up' = [up EXCEPT ![c] = Append(@, Vector(c, cround[c] + 1))]
            /\ cround[c] < Rounds
        BY <3>1 DEF ClientCalls
      <4>2. Vector(c, cround[c] + 1) \in Vectors
        BY <4>1, VectorTypes, ClientsTyped, VectorTyped, FederatedAssumption
      <4>3. /\ Len(up'[c]) = Len(up[c]) + 1 /\ up'[c][Len(up[c]) + 1] = Vector(c, cround[c] + 1)
            /\ \A i \in 1..Len(up[c]) : up'[c][i] = up[c][i]
        BY <4>1, <4>2, VectorTypes, QueueAppend
      <4>4. \A d \in Clients : /\ d # c => up'[d] = up[d]
                               /\ cround'[d] = IF d = c THEN cround[d] + 1 ELSE cround[d]
                               /\ client'[d] = IF d = c THEN "waiting" ELSE client[d]
        BY <3>0, <4>1, VectorTypes
      <4>5. ASSUME NEW d \in Clients PROVE Taken(d)' = Taken(d)
        <5>1. CASE d = c
          BY <4>3, <4>4, <5>1, <1>n DEF Taken
        <5>2. CASE d # c
          BY <4>4, <5>2 DEF Taken
        <5> QED
          BY <5>1, <5>2
      <4>6. ASSUME NEW i \in 1..Len(up'[c]) PROVE up'[c][i] = Vector(c, Taken(c) + i)
        <5>1. CASE i = Len(up[c]) + 1
          <6>1. Taken(c) + i = cround[c] + 1
            BY <5>1, <1>n DEF Taken
          <6> QED
            BY <4>3, <5>1, <6>1
        <5>2. CASE i \in 1..Len(up[c])
          BY <4>3, <5>2 DEF VectorInv, QueueInOrder
        <5> QED
          BY <4>3, <5>1, <5>2, <1>n
      <4>7. ASSUME NEW d \in Clients
            PROVE  /\ Len(up'[d]) =< cround'[d]
                   /\ \A i \in 1..Len(up'[d]) : up'[d][i] = Vector(d, Taken(d)' + i)
                   /\ cround'[d] =< Len(results'[d]) + 1
                   /\ client'[d] = "out" => cround'[d] =< Len(results'[d])
        <5>1. CASE d = c
          <6>1. Len(up[c]) =< cround[c] /\ cround[c] =< Len(results[c])
            BY <4>1 DEF VectorInv, QueueInOrder
          <6>2. /\ Len(up'[c]) =< cround'[c] /\ cround'[c] =< Len(results'[c]) + 1
                /\ client'[c] # "out"
            BY <4>1, <4>3, <4>4, <6>1, <1>n
          <6> QED
            BY <4>5, <4>6, <5>1, <6>2
        <5>2. CASE d # c
          BY <4>1, <4>4, <4>5, <5>2 DEF VectorInv, QueueInOrder
        <5> QED
          BY <5>1, <5>2
      <4> QED
        BY <2>1, <4>5, <4>7 DEF VectorInv, QueueInOrder
    <3>2. CASE ClientReturns(c)
      <4>1. /\ client' = [client EXCEPT ![c] = "out"] /\ cround' = cround /\ up' = up
            /\ results' = [results EXCEPT ![c] = Append(@, DataAfter(c, Head(down[c])))] /\ down[c] # << >>
        BY <3>2 DEF ClientReturns
      <4>2. Head(down[c]) \in Sums
        BY <4>1, QueueTake DEF VectorInv, TypeOK, Sums
      <4>3. Len(results'[c]) = Len(results[c]) + 1
        BY <4>1, <4>2, VectorTypes, QueueAppend
      <4>4. \A d \in Clients : /\ d # c => results'[d] = results[d] /\ client'[d] = client[d]
        BY <3>0, <4>1, VectorTypes
      <4>5. \A d \in Clients : Taken(d)' = Taken(d)
        BY <4>1 DEF Taken
      <4>6. ASSUME NEW d \in Clients
            PROVE  /\ cround[d] =< Len(results'[d]) + 1
                   /\ client'[d] = "out" => cround[d] =< Len(results'[d])
        <5>1. CASE d = c
          <6>1. cround[c] =< Len(results[c]) + 1
            BY DEF VectorInv, QueueInOrder
          <6>2. cround[c] =< Len(results'[c]) /\ cround[c] =< Len(results'[c]) + 1
            BY <4>3, <6>1, <1>n
          <6> QED
            BY <5>1, <6>2
        <5>2. CASE d # c
          BY <4>4, <5>2 DEF VectorInv, QueueInOrder
        <5> QED
          BY <5>1, <5>2
      <4> QED
        BY <2>1, <4>1, <4>5, <4>6 DEF VectorInv, QueueInOrder
    <3>3. CASE ClientFails(c) \/ Crash(c)
      <4>1. /\ UNCHANGED <<cround, up, results>>
            /\ \E s \in {"failed", "dead"} : client' = [client EXCEPT ![c] = s]
        BY <3>3 DEF ClientFails, Crash
      <4>2. \A d \in Clients : client'[d] = "out" => client[d] = "out"
        BY <3>0, <4>1
      <4>3. \A d \in Clients : Taken(d)' = Taken(d)
        BY <4>1 DEF Taken
      <4> QED
        BY <2>1, <4>1, <4>2, <4>3 DEF VectorInv, QueueInOrder
    <3> QED
      BY <1>6, <3>1, <3>2, <3>3
  <2>4. root' = "collect" => root = "collect" /\ at' >= at /\ Len(averages') = Len(averages)
    BY <2>1, <1>n
  <2> QED
    BY <1>0, <2>2, <2>3, <2>4, QuietUse
<1>7. CASE UNCHANGED vars
  BY <1>4, <1>7 DEF vars
<1> QED
  BY <1>1, <1>2, <1>3, <1>5, <1>6, <1>7 DEF Next, RootStep, ClientStep

LEMMA InitVectorInv == Init => VectorInv
<1> SUFFICES ASSUME Init PROVE VectorInv
  OBVIOUS
<1>1. TypeOK
  BY FederatedAssumption DEF Init, TypeOK, Clients
<1>2. AnswersInOrder /\ QueueInOrder
  BY DEF Init, AnswersInOrder, SentTo, QueueInOrder
<1>3. Collections = {} /\ \A c \in Clients : Taken(c) = 0
  BY DEF Init, Collections, Taken
<1> QED
  BY <1>1, <1>2, <1>3 DEF Init, VectorInv, OthersInOrder, UseInOrder

\* The finished averages are collections.
LEMMA AverageIsCollection ==
    ASSUME VectorInv, NEW k \in DOMAIN averages
    PROVE  /\ k \in Collections /\ k \in Nat /\ SumOf(k) = averages[k]
           /\ averages[k] \in Seq(Vectors)
           /\ \A j \in 1..(k - 1) : j \in DOMAIN averages
<1>1. averages \in Seq(Sums) /\ Len(averages) \in Nat
  BY VectorTypes
<1>2. DOMAIN averages = 1..Len(averages) /\ averages[k] \in Sums
  BY <1>1, LenProperties, ElementOfSeq
<1> QED
  BY <1>1, <1>2 DEF Collections, SumOf, Sums

LEMMA VectorInvOnce == VectorInv => VectorsOnce
<1> SUFFICES ASSUME VectorInv PROVE VectorsOnce
  OBVIOUS
<1> SUFFICES ASSUME NEW c \in Clients \ Odd
             PROVE  LET Used(k) == {v \in 1..Rounds : Vector(c, v) \in Range(averages[k])}
                    IN \A k \in DOMAIN averages : \A v \in Used(k) :
                          /\ Cardinality(Used(k)) = 1
                          /\ v = 1 \/ \E j \in 1..(k - 1) : v - 1 \in Used(j)
                          /\ \A j \in 1..(k - 1) : v \notin Used(j)
  BY DEF VectorsOnce
<1> DEFINE Used(k) == {v \in 1..Rounds : Vector(c, v) \in Range(averages[k])}
<1>1. \A k \in DOMAIN averages : Used(k) = UsedIn(k, c) /\ k \in Collections /\ k \in Nat
  BY AverageIsCollection DEF UsedIn
<1>2. UseInOrder(c)
  BY DEF VectorInv
<1>3. \A k \in DOMAIN averages : Used(k) \subseteq 1..Rounds
  OBVIOUS
<1> HIDE DEF Used
<1>4. ASSUME NEW k \in DOMAIN averages, NEW v \in Used(k)
      PROVE  /\ Cardinality(Used(k)) = 1
             /\ v = 1 \/ \E j \in 1..(k - 1) : v - 1 \in Used(j)
             /\ \A j \in 1..(k - 1) : v \notin Used(j)
  <2>0. k \in Collections /\ k \in Nat /\ v \in UsedIn(k, c) /\ v \in 1..Rounds /\ v \in Nat
    BY <1>1, <1>3, FederatedAssumption
  <2>1. \A j \in 1..(k - 1) : /\ j \in DOMAIN averages /\ j \in Collections /\ j < k
                              /\ Used(j) = UsedIn(j, c)
    BY <1>1, <2>0, AverageIsCollection
  <2>2. Used(k) = {v}
    <3>1. \A w \in UsedIn(k, c) : v = w
      BY <1>2, <2>0 DEF UseInOrder
    <3> QED
      BY <1>1, <3>1
  <2>3. Cardinality(Used(k)) = 1
    BY <2>2, FS_Singleton
  <2>4. ASSUME NEW j \in 1..(k - 1), v \in Used(j) PROVE FALSE
    <3>1. v < v
      BY <1>2, <2>0, <2>1, <2>4 DEF UseInOrder
    <3> QED
      BY <2>0, <3>1
  <2>5. ASSUME v # 1 PROVE \E j \in 1..(k - 1) : v - 1 \in Used(j)
    <3>1. v =< Taken(c) /\ Taken(c) \in Nat
      BY <1>2, <2>0, VectorTypes DEF UseInOrder
    <3>2. v - 1 \in 1..Rounds /\ v - 1 =< Taken(c)
      BY <2>0, <2>5, <3>1, FederatedAssumption
    <3>3. PICK j \in Collections : v - 1 \in UsedIn(j, c)
      BY <1>2, <3>2 DEF UseInOrder
    <3>4. j \in Nat /\ j \in Int /\ j >= 1
      BY <3>3, VectorTypes DEF Collections
    <3>5. ~(k < j)
      <4>1. k < j => v < v - 1
        BY <1>2, <2>0, <3>3 DEF UseInOrder
      <4> QED
        BY <2>0, <4>1
    <3>6. j # k
      <4>1. j = k => v - 1 = v
        BY <1>2, <2>0, <3>3 DEF UseInOrder
      <4> QED
        BY <2>0, <4>1
    <3>7. j \in 1..(k - 1)
      BY <2>0, <3>4, <3>5, <3>6
    <3> QED
      BY <2>1, <3>3, <3>7
  <2> QED
    BY <2>3, <2>4, <2>5
<1> QED
  BY <1>4 DEF Used

LEMMA VectorInvLate == VectorInv => LateOnlyAfterMiss
<1> SUFFICES ASSUME VectorInv, NEW k \in DOMAIN averages, NEW v \in Range(averages[k])
             PROVE  /\ v[2] =< k
                    /\ v[2] < k => \E j \in 1..(k - 1) : \A u \in Range(averages[j]) : u[1] # v[1]
  BY DEF LateOnlyAfterMiss
<1>1. /\ k \in Collections /\ k \in Nat /\ SumOf(k) = averages[k]
      /\ averages[k] \in Seq(Vectors)
  BY AverageIsCollection
<1>2. ASSUME NEW j \in DOMAIN averages, NEW u \in Range(averages[j])
      PROVE  u \in Vectors /\ u = Vector(u[1], u[2]) /\ u[2] \in UsedIn(j, u[1])
  <2>1. averages[j] \in Seq(Vectors) /\ SumOf(j) = averages[j]
    BY AverageIsCollection
  <2>2. u \in Vectors
    BY <2>1 DEF Range
  <2>3. u[1] \in 0..(N - 1) /\ u[2] \in 1..Rounds /\ u = <<u[1], u[2]>>
    BY <2>2 DEF Vectors
  <2> QED
    BY <2>1, <2>2, <2>3 DEF Vector, UsedIn
<1>3. v \in Vectors /\ v[2] \in UsedIn(k, v[1]) /\ v[1] \in 0..(N - 1) /\ v[2] \in 1..Rounds
  BY <1>2 DEF Vectors
<1>4. CASE v[1] = 0
  <2>1. v[2] = k
    BY <1>1, <1>3, <1>4 DEF VectorInv, OthersInOrder
  <2> QED
    BY <1>1, <2>1
<1>5. CASE v[1] # 0
  <2>1. v[1] \in Clients \ Odd
    <3>1. v[1] \in Clients
      BY <1>3, <1>5, FederatedAssumption DEF Clients
    <3>2. v[1] \notin Odd
      BY <1>1, <1>3 DEF VectorInv, OthersInOrder
    <3> QED
      BY <3>1, <3>2
  <2>2. v[2] =< k /\ (v[2] < k => \E j \in 1..(k - 1) : UsedIn(j, v[1]) = {})
    <3>1. UseInOrder(v[1])
      BY <2>1 DEF VectorInv
    <3>2. \A w \in UsedIn(k, v[1]) :
            w =< k /\ (w < k => \E j \in 1..(k - 1) : UsedIn(j, v[1]) = {})
      BY <1>1, <3>1 DEF UseInOrder
    <3> QED
      BY <1>3, <3>2
  <2>3. ASSUME NEW j \in 1..(k - 1), UsedIn(j, v[1]) = {}
        PROVE  \A u \in Range(averages[j]) : u[1] # v[1]
    <3>1. j \in DOMAIN averages
      BY AverageIsCollection
    <3> QED
      BY <1>2, <2>3, <3>1
  <2> QED
    BY <2>2, <2>3
<1> QED
  BY <1>4, <1>5

\* For any number of clients and rounds, whichever deadlines are missed and clients
\* crash: a client's vectors enter the averages in the order it sent them, none twice
\* and none after a gap (recv_bytes_timeout leaves what came late in the queue, and the
\* next round's loop takes it from there).
THEOREM EachVectorOnce == Spec => []VectorsOnce
BY InitVectorInv, VectorStep, VectorInvOnce, PTL DEF Spec

\* An average has no vector of a later round, and one of an earlier round only from a
\* client that an average before it went without.
THEOREM LateVectorsMissed == Spec => []LateOnlyAfterMiss
BY InitVectorInv, VectorStep, VectorInvLate, PTL DEF Spec

=============================================================================
