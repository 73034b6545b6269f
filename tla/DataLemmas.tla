------------------------------ MODULE DataLemmas ------------------------------
(***************************************************************************)
(* Facts about the data the components keep, for the proofs about them:    *)
(* functions whose values are queues (an inbox or a link per rank), maps   *)
(* from ranks, whose values() is the list indexed by rank when no rank is  *)
(* missing, and sets of numbers.                                           *)
(***************************************************************************)
EXTENDS RankMaps, SequenceTheorems, FiniteSetTheorems, WellFoundedInduction, TLAPS

-----------------------------------------------------------------------------
(* Queues.                                                                 *)

\* Sending: an element appended to one of the queues.
LEMMA QueueAppend ==
    ASSUME NEW D, NEW S, NEW q \in [D -> Seq(S)], NEW d \in D, NEW e \in S
    PROVE  /\ [q EXCEPT ![d] = Append(@, e)] \in [D -> Seq(S)]
           /\ Append(q[d], e) \in Seq(S)
           /\ Len(Append(q[d], e)) = Len(q[d]) + 1
           /\ \A i \in 1..Len(q[d]) : Append(q[d], e)[i] = q[d][i]
           /\ Append(q[d], e)[Len(q[d]) + 1] = e
<1>1. q[d] \in Seq(S)
  OBVIOUS
<1>2. /\ Append(q[d], e) \in Seq(S)
      /\ Len(Append(q[d], e)) = Len(q[d]) + 1
      /\ \A i \in 1..Len(q[d]) : Append(q[d], e)[i] = q[d][i]
      /\ Append(q[d], e)[Len(q[d]) + 1] = e
  BY <1>1, AppendProperties
<1> QED
  BY <1>2

\* Receiving: the head taken from one of the queues.
LEMMA QueueTake ==
    ASSUME NEW D, NEW S, NEW q \in [D -> Seq(S)], NEW d \in D, q[d] # << >>
    PROVE  /\ [q EXCEPT ![d] = Tail(@)] \in [D -> Seq(S)]
           /\ Head(q[d]) \in S
           /\ Head(q[d]) = q[d][1]
           /\ Len(q[d]) \in Nat \ {0}
           /\ Len(Tail(q[d])) = Len(q[d]) - 1
           /\ \A i \in 1..Len(Tail(q[d])) : Tail(q[d])[i] = q[d][i + 1]
<1>1. q[d] \in Seq(S)
  OBVIOUS
<1>2. /\ Head(q[d]) \in S
      /\ Tail(q[d]) \in Seq(S)
      /\ Len(Tail(q[d])) = Len(q[d]) - 1
      /\ \A i \in 1..Len(Tail(q[d])) : Tail(q[d])[i] = q[d][i + 1]
  BY <1>1, HeadTailProperties
<1>3. Len(q[d]) \in Nat \ {0}
  BY <1>1, EmptySeq
<1>4. Head(q[d]) = q[d][1]
  BY <1>1
<1> QED
  BY <1>2, <1>3, <1>4

-----------------------------------------------------------------------------
(* Maps from ranks.                                                        *)

\* The ranks 0..n-1 are n.
LEMMA Interval ==
    ASSUME NEW n \in Nat
    PROVE  IsFiniteSet(0..(n - 1)) /\ Cardinality(0..(n - 1)) = n
<1>1. 0 \in Int /\ n - 1 \in Int
  OBVIOUS
<1>2. /\ IsFiniteSet(0..(n - 1))
      /\ Cardinality(0..(n - 1)) = IF 0 > n - 1 THEN 0 ELSE (n - 1) - 0 + 1
  BY <1>1, FS_Interval
<1> QED
  BY <1>2

\* As many ranks below n as n are all of them: what `peers.len() >= world' relies on.
LEMMA EnoughMeansAll ==
    ASSUME NEW n \in Nat, NEW S, S \subseteq 0..(n - 1), Cardinality(S) >= n
    PROVE  S = 0..(n - 1)
<1>1. IsFiniteSet(0..(n - 1)) /\ Cardinality(0..(n - 1)) = n
  BY Interval
<1>2. /\ Cardinality(S) \in Nat
      /\ Cardinality(S) =< n
      /\ Cardinality(0..(n - 1)) = Cardinality(S) => 0..(n - 1) = S
  BY <1>1, FS_Subset, FS_CardinalityType
<1> QED
  BY <1>1, <1>2

\* When no rank is missing, values() has rank r's value at index r.
LEMMA ValuesAre ==
    ASSUME NEW n \in Nat, NEW f, NEW S, DOMAIN f = 0..(n - 1), f \in [DOMAIN f -> S]
    PROVE  /\ Values(f) \in Seq(S) /\ Len(Values(f)) = n
           /\ \A r \in DOMAIN f : Values(f)[r + 1] = f[r]
<1>1. Cardinality(DOMAIN f) = n
  BY Interval
<1>2. \A q \in DOMAIN f : Cardinality({p \in DOMAIN f : p < q}) = q
  <2> TAKE q \in DOMAIN f
  <2>1. q \in Nat /\ {p \in DOMAIN f : p < q} = 0..(q - 1)
    OBVIOUS
  <2> QED
    BY <2>1, Interval
<1>3. \A r \in DOMAIN f : NthKey(f, r + 1) = r
  <2> TAKE r \in DOMAIN f
  <2>1. r \in Nat /\ (r + 1) - 1 = r
    OBVIOUS
  <2> QED
    BY <1>2, <2>1 DEF NthKey
<1>4. \A r \in DOMAIN f : r + 1 \in 1..n
  OBVIOUS
<1>5. Values(f) = [i \in 1..n |-> f[NthKey(f, i)]]
  BY <1>1 DEF Values
<1>6. \A i \in 1..n : i - 1 \in DOMAIN f /\ (i - 1) + 1 = i
  OBVIOUS
<1>7. \A i \in 1..n : f[NthKey(f, i)] \in S
  BY <1>3, <1>6
<1>8. \A r \in DOMAIN f : Values(f)[r + 1] = f[r]
  BY <1>3, <1>4, <1>5
<1>9. Values(f) \in Seq(S) /\ Len(Values(f)) = n
  BY <1>5, <1>7
<1> QED
  BY <1>8, <1>9

-----------------------------------------------------------------------------
(* Numbers.                                                                *)

\* A set of numbers has a least one.
LEMMA LeastNat ==
    ASSUME NEW S, S \subseteq Nat, S # {}
    PROVE  \E x \in S : \A y \in S : x =< y
<1>1. PICK x \in S : \A y \in S : ~ (<<y, x>> \in OpToRel(<, Nat))
  BY NatLessThanWellFounded, WFMin
<1>2. \A y \in S : x =< y
  <2> SUFFICES ASSUME NEW y \in S, ~(x =< y)
               PROVE  FALSE
    OBVIOUS
  <2>1. x \in Nat /\ y \in Nat
    OBVIOUS
  <2>2. y < x
    BY <2>1
  <2>3. <<y, x>> \in OpToRel(<, Nat)
    BY <2>1, <2>2 DEF OpToRel
  <2> QED
    BY <1>1, <2>3
<1> QED
  BY <1>2

=============================================================================
