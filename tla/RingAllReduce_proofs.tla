------------------------- MODULE RingAllReduce_proofs -------------------------
(***************************************************************************)
(* The ring all-reduce, for any number of ranks, of calls and of elements, *)
(* the calls made one after the other.                                     *)
(***************************************************************************)
EXTENDS RingAllReduce, DataLemmas

-----------------------------------------------------------------------------
(* Arithmetic modulo the number of ranks.                                  *)

LEMMA ModSmall ==
    ASSUME NEW x \in 0..(2 * N - 1)
    PROVE  x % N = IF x < N THEN x ELSE x - N
<1>1. N \in Nat /\ N > 0
  BY RingAssumption
<1> QED
  BY <1>1

\* The chunk d ranks to the left of r.
Chunk(r, d) == (r + N - d) % N

\* The neighbours of a rank.
LEMMA Neighbours ==
    ASSUME NEW r \in Ranks
    PROVE  /\ Left(r) = (IF r = 0 THEN N - 1 ELSE r - 1) /\ Left(r) \in Ranks
           /\ Right(r) = (IF r = N - 1 THEN 0 ELSE r + 1) /\ Right(r) \in Ranks
           /\ Left(Right(r)) = r /\ Right(Left(r)) = r
<1>1. N \in Nat /\ N > 1
  BY RingAssumption
<1>2. \A q \in 0..(N - 1) : q + N - 1 \in 0..(2 * N - 1) /\ q + 1 \in 0..(2 * N - 1)
  BY <1>1
<1>3. \A q \in 0..(N - 1) : /\ Left(q) = (IF q = 0 THEN N - 1 ELSE q - 1)
                           /\ Right(q) = (IF q = N - 1 THEN 0 ELSE q + 1)
  <2> SUFFICES ASSUME NEW q \in 0..(N - 1)
               PROVE  /\ Left(q) = (IF q = 0 THEN N - 1 ELSE q - 1)
                      /\ Right(q) = (IF q = N - 1 THEN 0 ELSE q + 1)
    OBVIOUS
  <2>1. Left(q) = IF q + N - 1 < N THEN q + N - 1 ELSE q + N - 1 - N
    BY <1>1, <1>2, ModSmall DEF Left
  <2>2. Right(q) = IF q + 1 < N THEN q + 1 ELSE q + 1 - N
    BY <1>1, <1>2, ModSmall DEF Right
  <2> QED
    BY <1>1, <2>1, <2>2
<1>4. r \in 0..(N - 1)
  BY DEF Ranks
<1> QED
  BY <1>1, <1>3, <1>4 DEF Ranks

\* The chunks, counted to the left from a rank: each is met once.
LEMMA ChunkIs ==
    ASSUME NEW r \in Ranks, NEW d \in 0..(N - 1)
    PROVE  /\ Chunk(r, d) = (IF d =< r THEN r - d ELSE r + N - d)
           /\ Chunk(r, d) \in Chunks
           /\ \A e \in 0..(N - 1) : Chunk(r, e) = Chunk(r, d) => e = d
<1>1. N \in Nat /\ N > 1 /\ r \in 0..(N - 1)
  BY RingAssumption DEF Ranks
<1>2. ASSUME NEW e \in 0..(N - 1)
      PROVE  Chunk(r, e) = (IF e =< r THEN r - e ELSE r + N - e)
  <2>1. r + N - e \in 0..(2 * N - 1)
    BY <1>1
  <2>2. Chunk(r, e) = IF r + N - e < N THEN r + N - e ELSE r + N - e - N
    BY <1>1, <2>1, ModSmall DEF Chunk
  <2> QED
    BY <1>1, <2>2
<1> QED
  BY <1>1, <1>2 DEF Chunks

LEMMA EveryChunk ==
    ASSUME NEW r \in Ranks, NEW c \in Chunks
    PROVE  \E d \in 0..(N - 1) : c = Chunk(r, d)
<1>1. N \in Nat /\ N > 1 /\ r \in 0..(N - 1) /\ c \in 0..(N - 1)
  BY RingAssumption DEF Ranks, Chunks
<1> DEFINE d == IF c =< r THEN r - c ELSE r + N - c
<1>2. d \in 0..(N - 1) /\ c = (IF d =< r THEN r - d ELSE r + N - d)
  BY <1>1
<1> HIDE DEF d
<1>3. c = Chunk(r, d)
  BY <1>2, ChunkIs
<1> QED
  BY <1>2, <1>3

\* Which chunks a step sends and receives: what a rank sends its neighbour receives.
LEMMA StepChunks ==
    ASSUME NEW r \in Ranks, NEW s \in 0..(N - 2)
    PROVE  /\ ScatterSend(r, s) = Chunk(r, s)
           /\ ScatterRecv(r, s) = Chunk(r, s + 1)
           /\ GatherSend(r, s) = Chunk(r, IF s = 0 THEN N - 1 ELSE s - 1)
           /\ GatherRecv(r, s) = Chunk(r, s)
           /\ ScatterSend(Left(r), s) = ScatterRecv(r, s)
           /\ GatherSend(Left(r), s) = GatherRecv(r, s)
           /\ Owned(r) = Chunk(r, N - 1)
<1>1. N \in Nat /\ N > 1 /\ s \in 0..(N - 2) /\ Left(r) \in Ranks
  BY RingAssumption, Neighbours
<1>2. ASSUME NEW q \in Ranks
      PROVE  /\ ScatterSend(q, s) = Chunk(q, s)
             /\ ScatterRecv(q, s) = Chunk(q, s + 1)
             /\ GatherSend(q, s) = Chunk(q, IF s = 0 THEN N - 1 ELSE s - 1)
             /\ GatherRecv(q, s) = Chunk(q, s)
             /\ Owned(q) = Chunk(q, N - 1)
  <2>1. q \in 0..(N - 1)
    BY DEF Ranks
  <2>2. q + N - s - 1 = q + N - (s + 1)
    BY <1>1, <2>1
  <2>3. ScatterSend(q, s) = Chunk(q, s) /\ GatherRecv(q, s) = Chunk(q, s)
    BY DEF ScatterSend, GatherRecv, Chunk
  <2>4. ScatterRecv(q, s) = Chunk(q, s + 1)
    BY <2>2 DEF ScatterRecv, Chunk
  <2>5. Owned(q) = Chunk(q, N - 1)
    <3>1. q + 1 = q + N - (N - 1)
      BY <1>1, <2>1
    <3> QED
      BY <3>1 DEF Owned, Chunk
  <2>6. GatherSend(q, s) = Chunk(q, IF s = 0 THEN N - 1 ELSE s - 1)
    <3>1. CASE s = 0
      <4>1. q + N - s + 1 \in 0..(2 * N - 1) \/ q = N - 1
        BY <1>1, <2>1, <3>1
      <4>2. CASE q # N - 1
        <5>1. (q + N - s + 1) % N = IF q + N - s + 1 < N THEN q + N - s + 1 ELSE q + N - s + 1 - N
          BY <1>1, <2>1, <4>1, <4>2, ModSmall
        <5>2. Chunk(q, N - 1) = q + 1
          BY <1>1, <2>1, <4>2, ChunkIs
        <5> QED
          BY <1>1, <2>1, <3>1, <5>1, <5>2 DEF GatherSend
      <4>3. CASE q = N - 1
        <5>1. q + N - s + 1 = 2 * N
          BY <1>1, <3>1, <4>3
        <5>2. (2 * N) % N = 0
          BY <1>1
        <5>3. Chunk(q, N - 1) = 0
          BY <1>1, <2>1, <4>3, ChunkIs
        <5> QED
          BY <3>1, <5>1, <5>2, <5>3 DEF GatherSend
      <4> QED
        BY <4>2, <4>3
    <3>2. CASE s # 0
      <4>1. q + N - s + 1 = q + N - (s - 1)
        BY <1>1, <2>1
      <4> QED
        BY <3>2, <4>1 DEF GatherSend, Chunk
    <3> QED
      BY <3>1, <3>2
  <2> QED
    BY <2>3, <2>4, <2>5, <2>6
<1>3. r \in 0..(N - 1) /\ Left(r) = (IF r = 0 THEN N - 1 ELSE r - 1) /\ Left(r) \in 0..(N - 1)
  BY Neighbours DEF Ranks
<1>4. /\ s \in 0..(N - 1) /\ s + 1 \in 0..(N - 1) /\ N - 1 \in 0..(N - 1)
      /\ (IF s = 0 THEN N - 1 ELSE s - 1) \in 0..(N - 1)
  BY <1>1
<1>5. Chunk(Left(r), s) = Chunk(r, s + 1)
  <2>1. Chunk(Left(r), s) = (IF s =< Left(r) THEN Left(r) - s ELSE Left(r) + N - s)
    BY <1>1, <1>4, ChunkIs
  <2>2. Chunk(r, s + 1) = (IF s + 1 =< r THEN r - (s + 1) ELSE r + N - (s + 1))
    BY <1>4, ChunkIs
  <2> QED
    BY <1>1, <1>3, <2>1, <2>2
<1>6. Chunk(Left(r), IF s = 0 THEN N - 1 ELSE s - 1) = Chunk(r, s)
  <2> DEFINE e == IF s = 0 THEN N - 1 ELSE s - 1
  <2>1. Chunk(Left(r), e) = (IF e =< Left(r) THEN Left(r) - e ELSE Left(r) + N - e)
    BY <1>1, <1>4, ChunkIs
  <2>2. Chunk(r, s) = (IF s =< r THEN r - s ELSE r + N - s)
    BY <1>4, ChunkIs
  <2> QED
    BY <1>1, <1>3, <2>1, <2>2
<1> QED
  BY <1>1, <1>2, <1>5, <1>6

\* Frames of a call, and where its frames begin among those of all calls.
K == 2 * (N - 1)
Base(b) == (b - 1) * K

LEMMA BaseIs ==
    /\ K \in Nat /\ K >= N /\ N - 1 < K
    /\ Base(1) = 0
    /\ \A b \in Calls : Base(b) \in Nat
    /\ \A a, b \in Calls : a < b => Base(a) + K =< Base(b)
    /\ \A b \in Calls : b > 1 => b - 1 \in Calls /\ Base(b - 1) + K = Base(b)
    /\ \A a, b \in Calls, j, k \in 1..K : Base(a) + j = Base(b) + k => a = b /\ j = k
<1>1. N \in Nat /\ N > 1 /\ NCalls \in Nat
  BY RingAssumption
<1>2. K \in Nat /\ K >= N /\ N - 1 < K
  BY <1>1 DEF K
<1> HIDE DEF K
<1>3. \A b \in Calls : Base(b) \in Nat
  BY <1>1, <1>2 DEF Calls, Base
<1>4. ASSUME NEW a \in Calls, NEW b \in Calls, a < b
      PROVE  Base(a) + K =< Base(b)
  <2>1. a \in Nat /\ b \in Nat /\ a =< b - 1
    BY <1>1, <1>4 DEF Calls
  <2>2. Base(a) + K = a * K
    BY <1>2, <2>1 DEF Base
  <2>3. a * K =< (b - 1) * K
    BY <1>2, <2>1
  <2> QED
    BY <2>2, <2>3 DEF Base
<1>5. ASSUME NEW b \in Calls, b > 1
      PROVE  b - 1 \in Calls /\ Base(b - 1) + K = Base(b)
  BY <1>1, <1>2, <1>5 DEF Calls, Base
<1>6. ASSUME NEW a \in Calls, NEW b \in Calls, NEW j \in 1..K, NEW k \in 1..K,
             Base(a) + j = Base(b) + k
      PROVE  a = b /\ j = k
  <2>1. Base(a) \in Nat /\ Base(b) \in Nat /\ a \in Int /\ b \in Int
    BY <1>1, <1>3 DEF Calls
  <2>2. ~(a < b)
    BY <1>2, <1>4, <1>6, <2>1
  <2>3. ~(b < a)
    BY <1>2, <1>4, <1>6, <2>1
  <2>4. a = b
    BY <2>1, <2>2, <2>3
  <2> QED
    BY <1>2, <1>6, <2>1, <2>4
<1>7. Base(1) = 0
  BY <1>2 DEF Base
<1> QED
  BY <1>2, <1>3, <1>4, <1>5, <1>6, <1>7

\* The ranks run apart by at most one frame each: going round the ring, a rank is at
\* most j frames ahead of the one j places to its left.
LEMMA Around ==
    ASSUME NEW out \in [Ranks -> Nat], \A q \in Ranks : out[q] =< out[Left(q)] + 1,
           NEW r \in Ranks
    PROVE  \A j \in 0..(N - 1) : out[r] =< out[Chunk(r, j)] + j
<1>1. N \in Nat /\ N > 1 /\ r \in 0..(N - 1)
  BY RingAssumption DEF Ranks
<1>2. \A j \in 0..(N - 1) : Chunk(r, j) \in Ranks
  BY ChunkIs DEF Chunks, Ranks
<1> DEFINE S == {j \in 0..(N - 1) : ~(out[r] =< out[Chunk(r, j)] + j)}
<1> SUFFICES ASSUME S # {}
             PROVE  FALSE
  OBVIOUS
<1>3. S \subseteq Nat
  BY <1>1
<1>4. PICK j \in S : \A y \in S : j =< y
  BY <1>3, LeastNat
<1>5. j \in 0..(N - 1) /\ ~(out[r] =< out[Chunk(r, j)] + j)
  OBVIOUS
<1>6. j # 0
  <2>1. Chunk(r, 0) = r
    BY <1>1, ChunkIs
  <2>2. out[r] \in Nat
    OBVIOUS
  <2>3. out[r] =< out[r] + 0
    BY <2>2
  <2> QED
    BY <1>5, <2>1, <2>3
<1>7. j - 1 \in 0..(N - 1) /\ j - 1 < j
  BY <1>1, <1>5, <1>6
<1>8. j - 1 \notin S
  BY <1>1, <1>4, <1>5, <1>7
<1>9. out[r] =< out[Chunk(r, j - 1)] + (j - 1)
  BY <1>7, <1>8
<1>10. Left(Chunk(r, j - 1)) = Chunk(r, j)
  <2>1. Chunk(r, j - 1) = (IF j - 1 =< r THEN r - (j - 1) ELSE r + N - (j - 1))
    BY <1>7, ChunkIs
  <2>2. Chunk(r, j) = (IF j =< r THEN r - j ELSE r + N - j)
    BY <1>5, ChunkIs
  <2>3. Left(Chunk(r, j - 1)) = (IF Chunk(r, j - 1) = 0 THEN N - 1 ELSE Chunk(r, j - 1) - 1)
    BY <1>2, <1>7, Neighbours
  <2> QED
    BY <1>1, <1>5, <1>6, <2>1, <2>2, <2>3
<1>11. out[Chunk(r, j - 1)] =< out[Chunk(r, j)] + 1
  BY <1>2, <1>7, <1>10
<1> HIDE DEF S
<1>12. out[r] \in Nat /\ out[Chunk(r, j - 1)] \in Nat /\ out[Chunk(r, j)] \in Nat /\ j \in Nat
  <2>1. Chunk(r, j - 1) \in Ranks /\ Chunk(r, j) \in Ranks
    BY <1>2, <1>5, <1>7
  <2>2. j \in Nat
    BY <1>1, <1>5
  <2> QED
    BY <2>1, <2>2
<1> QED
  BY <1>5, <1>9, <1>11, <1>12

-----------------------------------------------------------------------------
(* What a buffer holds.                                                    *)

\* The inputs of rank r and of the n - 1 ranks to its left, in this order.
Chain(r, n, b) == [i \in 1..n |-> <<(r + N - i + 1) % N, b>>]

\* Chunk Chunk(r, d) at rank r when rank r's input has been folded in.
Partial(r, d, b) == Value(Chain(r, d + 1, b))

\* A chunk that is reduced, as the ranks pass it round.
Whole(v, c, b) ==
    [fold |-> Reduced(b)[c].fold, final |-> IF v = "typed" THEN 0 ELSE 1,
     updated |-> IF v = "owned" THEN 1 ELSE 0]

Pairs  == Ranks \X Calls
BufferValues == [fold : Seq(Pairs), final : Nat, updated : Nat]

LEMMA ChainIs ==
    ASSUME NEW r \in Ranks, NEW b \in Calls, NEW n \in 1..N
    PROVE  /\ Chain(r, n, b) \in Seq(Pairs) /\ Len(Chain(r, n, b)) = n
           /\ \A i \in 1..n : Chain(r, n, b)[i] = <<Chunk(r, i - 1), b>>
<1>1. N \in Nat /\ N > 1 /\ n \in Nat /\ r \in 0..(N - 1)
  BY RingAssumption DEF Ranks
<1>2. \A i \in 1..n : i - 1 \in 0..(N - 1) /\ r + N - i + 1 = r + N - (i - 1)
  BY <1>1
<1>3. \A i \in 1..n : Chain(r, n, b)[i] = <<Chunk(r, i - 1), b>>
  BY <1>2 DEF Chain, Chunk
<1>4. \A i \in 1..n : Chunk(r, i - 1) \in Ranks
  BY <1>2, ChunkIs DEF Chunks, Ranks
<1>5. Chain(r, n, b) \in [1..n -> Pairs]
  <2>1. \A i \in 1..n : Chain(r, n, b)[i] \in Pairs
    BY <1>3, <1>4 DEF Pairs
  <2> QED
    BY <2>1 DEF Chain
<1> QED
  BY <1>1, <1>3, <1>5, SeqDef, LenProperties

\* A rank's input, before anything has been folded into it.
LEMMA InputIs ==
    ASSUME NEW r \in Ranks, NEW b \in Calls
    PROVE  Input(r, b) = Partial(r, 0, b)
<1>1. 1 \in 1..N /\ N \in Nat /\ r \in 0..(N - 1)
  BY RingAssumption DEF Ranks
<1>2. /\ Chain(r, 1, b) \in Seq(Pairs) /\ Len(Chain(r, 1, b)) = 1
      /\ Chain(r, 1, b)[1] = <<Chunk(r, 0), b>>
  <2>1. /\ Chain(r, 1, b) \in Seq(Pairs) /\ Len(Chain(r, 1, b)) = 1
        /\ \A i \in 1..1 : Chain(r, 1, b)[i] = <<Chunk(r, i - 1), b>>
    BY <1>1, ChainIs
  <2>2. 1 \in 1..1 /\ 1 - 1 = 0
    OBVIOUS
  <2> QED
    BY <2>1, <2>2
<1>3. Chunk(r, 0) = r
  BY <1>1, ChunkIs
<1>4. Chain(r, 1, b) = << <<r, b>> >>
  <2>1. << <<r, b>> >> \in Seq(Pairs) /\ Len(<< <<r, b>> >>) = 1
    BY DEF Pairs
  <2>2. \A i \in 1..1 : Chain(r, 1, b)[i] = << <<r, b>> >>[i]
    BY <1>2, <1>3
  <2> QED
    BY <1>2, <2>1, <2>2, SeqEqual
<1> QED
  BY <1>4 DEF Input, Partial

\* Folding: a rank's own input before what came from its left neighbour.
LEMMA ChainGrows ==
    ASSUME NEW r \in Ranks, NEW b \in Calls, NEW d \in 0..(N - 2)
    PROVE  Combine(Partial(r, 0, b), Partial(Left(r), d, b)) = Partial(r, d + 1, b)
<1>1. N \in Nat /\ N > 1 /\ r \in 0..(N - 1) /\ Left(r) \in Ranks /\ d \in Nat
      /\ 1 \in 1..N /\ d + 1 \in 1..N /\ d + 2 \in 1..N
  BY RingAssumption, Neighbours DEF Ranks
<1> DEFINE f == Chain(r, 1, b)
           g == Chain(Left(r), d + 1, b)
           h == Chain(r, d + 2, b)
<1>2. /\ f \in Seq(Pairs) /\ Len(f) = 1 /\ \A i \in 1..1 : f[i] = <<Chunk(r, i - 1), b>>
      /\ g \in Seq(Pairs) /\ Len(g) = d + 1
      /\ \A i \in 1..(d + 1) : g[i] = <<Chunk(Left(r), i - 1), b>>
      /\ h \in Seq(Pairs) /\ Len(h) = d + 2
      /\ \A i \in 1..(d + 2) : h[i] = <<Chunk(r, i - 1), b>>
  BY <1>1, ChainIs
<1>3. ASSUME NEW i \in 2..(d + 2)
      PROVE  Chunk(Left(r), i - 2) = Chunk(r, i - 1)
  <2>1. i - 2 \in 0..(N - 2) /\ (i - 2) + 1 = i - 1
    BY <1>1
  <2>2. ScatterSend(Left(r), i - 2) = Chunk(Left(r), i - 2)
    BY <1>1, <2>1, StepChunks
  <2>3. ScatterSend(Left(r), i - 2) = Chunk(r, (i - 2) + 1)
    BY <2>1, StepChunks
  <2> QED
    BY <2>1, <2>2, <2>3
<1> HIDE DEF f, g, h
<1>4. /\ f \o g \in Seq(Pairs) /\ Len(f \o g) = Len(f) + Len(g)
      /\ \A i \in 1..Len(f) + Len(g) :
            (f \o g)[i] = IF i =< Len(f) THEN f[i] ELSE g[i - Len(f)]
  BY <1>2, ConcatProperties
<1>5. Len(f) + Len(g) = d + 2
  BY <1>1, <1>2
<1>6. ASSUME NEW i \in 1..(d + 2)
      PROVE  (f \o g)[i] = h[i]
  <2>1. CASE i = 1
    <3>1. i =< Len(f) /\ i \in 1..1
      BY <1>2, <2>1
    <3> QED
      BY <1>2, <1>4, <1>5, <2>1, <3>1
  <2>2. CASE i # 1
    <3>1. ~(i =< Len(f)) /\ i - Len(f) = i - 1 /\ i - 1 \in 1..(d + 1) /\ i \in 2..(d + 2)
          /\ (i - 1) - 1 = i - 2
      BY <1>1, <1>2, <2>2
    <3>2. (f \o g)[i] = g[i - 1]
      BY <1>4, <1>5, <3>1
    <3>3. g[i - 1] = <<Chunk(Left(r), i - 2), b>>
      BY <1>2, <3>1
    <3> QED
      BY <1>2, <1>3, <3>1, <3>2, <3>3
  <2> QED
    BY <2>1, <2>2
<1>7. f \o g = h
  BY <1>2, <1>4, <1>5, <1>6, SeqEqual
<1>8. 0 + 1 = 1 /\ (d + 1) + 1 = d + 2
  BY <1>1
<1>9. Combine(Value(f), Value(g)) = Value(f \o g)
  <2>1. Value(f).fold = f /\ Value(g).fold = g
    BY DEF Value
  <2>2. ASSUME NEW x
        PROVE  [Value(f) EXCEPT !.fold = x] = Value(x)
    BY DEF Value
  <2> QED
    BY <2>1, <2>2 DEF Combine
<1> QED
  BY <1>7, <1>8, <1>9 DEF Partial, f, g, h

\* The chunk a rank owns after the scatter is reduced.
LEMMA OwnedWhole ==
    ASSUME NEW r \in Ranks, NEW b \in Calls
    PROVE  Chain(r, N, b) = Reduced(b)[Chunk(r, N - 1)].fold
<1>1. N \in Nat /\ N > 1 /\ r \in 0..(N - 1) /\ N - 1 \in 0..(N - 1) /\ N \in 1..N
  BY RingAssumption DEF Ranks
<1>2. Chunk(r, N - 1) \in Chunks /\ Chunk(r, N - 1) = (IF r = N - 1 THEN 0 ELSE r + 1)
  BY <1>1, ChunkIs
<1> DEFINE c == Chunk(r, N - 1)
<1>3. Reduced(b)[c].fold = [i \in 1..N |-> <<(c + N - i) % N, b>>]
  BY <1>2 DEF Reduced
<1>4. ASSUME NEW i \in 1..N
      PROVE  (c + N - i) % N = Chunk(r, i - 1)
  <2>0. c \in 0..(N - 1) /\ c = (IF r = N - 1 THEN 0 ELSE r + 1)
    BY <1>1, <1>2
  <2> HIDE DEF c
  <2>1. c + N - i \in 0..(2 * N - 1) /\ i - 1 \in 0..(N - 1)
    BY <1>1, <2>0
  <2>2. (c + N - i) % N = IF c + N - i < N THEN c + N - i ELSE c + N - i - N
    BY <1>1, <2>0, <2>1, ModSmall
  <2>3. Chunk(r, i - 1) = (IF i - 1 =< r THEN r - (i - 1) ELSE r + N - (i - 1))
    BY <2>1, ChunkIs
  <2> QED
    BY <1>1, <2>0, <2>2, <2>3
<1>5. Chain(r, N, b) = [i \in 1..N |-> Chain(r, N, b)[i]]
  BY DEF Chain
<1>6. \A i \in 1..N : Chain(r, N, b)[i] = <<(c + N - i) % N, b>>
  BY <1>1, <1>4, ChainIs
<1> HIDE DEF c
<1>7. Chain(r, N, b) = [i \in 1..N |-> <<(c + N - i) % N, b>>]
  BY <1>5, <1>6
<1> QED
  BY <1>3, <1>7 DEF c

-----------------------------------------------------------------------------
(* The invariant.                                                          *)

Scattering == {"scatter_send", "scatter_recv"}
Gathering  == {"gather_send", "gather_recv"}
Labels     == Scattering \cup Gathering \cup {"idle", "own", "scale", "done"}
Frames     == [len : Int, val : BufferValues]

\* No call ends in an error, and the loops count their n - 1 steps.
RingTypes ==
    /\ variant \in Variants
    /\ pc \in [Ranks -> [Calls -> Labels]]
    /\ step \in [Ranks -> [Calls -> 0..(N - 2)]]
    /\ data \in [Ranks -> [Calls -> [Chunks -> BufferValues]]]
    /\ mail \in [Ranks -> Seq(Frames)]
    /\ \A r \in Ranks, b \in Calls :
          /\ pc[r][b] \notin Scattering \cup Gathering => step[r][b] = 0
          /\ pc[r][b] = "scale" => variant = "typed"
          /\ pc[r][b] = "own" => variant # "typed"

\* A rank makes its calls one after the other.
InTurn ==
    \A r \in Ranks, b \in Calls :
        pc[r][b] # "idle" => \A a \in Calls : a < b => pc[r][a] = "done"

\* Where call b is when the rank has taken i frames and sent o, counted over all calls.
Place(p, m, b, i, o) ==
    /\ p = "idle" => o =< Base(b)
    /\ p = "scatter_send" => i = Base(b) + m /\ o = i
    /\ p = "scatter_recv" => i = Base(b) + m /\ o = i + 1
    /\ p = "own" => i = Base(b) + (N - 1) /\ o = i
    /\ p = "gather_send" => i = Base(b) + (N - 1) + m /\ o = i
    /\ p = "gather_recv" => i = Base(b) + (N - 1) + m /\ o = i + 1
    /\ p = "scale" => i = Base(b) + K /\ o = i
    /\ p = "done" => Base(b) + K =< i

Places(inn, out) ==
    \A r \in Ranks :
        /\ inn[r] =< out[r] /\ out[r] =< inn[r] + 1
        /\ \A b \in Calls : Place(pc[r][b], step[r][b], b, inn[r], out[r])

\* The k-th frame rank q sends in call b.
FrameAt(v, q, b, k) ==
    LET c == IF k < N THEN ScatterSend(q, k - 1) ELSE GatherSend(q, k - N)
    IN  [len |-> ChunkLen(c), val |-> IF k < N THEN Partial(q, k - 1, b) ELSE Whole(v, c, b)]

\* The mailbox of a rank holds the frames between what it has taken and what its left
\* neighbour has sent.
Mails(inn, out) ==
    \A r \in Ranks :
        /\ Len(mail[r]) = out[Left(r)] - inn[r]
        /\ \A i \in 1..Len(mail[r]), b \in Calls, k \in 1..K :
              inn[r] + i = Base(b) + k => mail[r][i] = FrameAt(variant, Left(r), b, k)

\* What is in the chunk d places to the left of r's own.
Holds(v, p, m, r, b, d, x) ==
    /\ p \in Scattering \cup {"idle"} => x = Partial(r, IF d =< m THEN d ELSE 0, b)
    /\ p = "own" => x = Partial(r, d, b)
    /\ p \in Gathering =>
          x = IF d < m \/ d = N - 1 THEN Whole(v, Chunk(r, d), b) ELSE Partial(r, d, b)
    /\ p = "scale" => x = Whole(v, Chunk(r, d), b)
    /\ p = "done" => x = [Whole(v, Chunk(r, d), b) EXCEPT !.final = 1]

Buffers ==
    \A r \in Ranks, b \in Calls, d \in 0..(N - 1) :
        Holds(variant, pc[r][b], step[r][b], r, b, d, data[r][b][Chunk(r, d)])

RingInv ==
    /\ RingTypes
    /\ InTurn
    /\ Buffers
    /\ \E inn, out \in [Ranks -> Nat] : Places(inn, out) /\ Mails(inn, out)

\* A call that moves on.
Moves(r, b, x, m) ==
    /\ pc' = [pc EXCEPT ![r][b] = x]
    /\ step' = [step EXCEPT ![r][b] = m]

LEMMA MovesIs ==
    ASSUME RingTypes, NEW r \in Ranks, NEW b \in Calls, NEW x \in Labels, NEW m \in 0..(N - 2),
           Moves(r, b, x, m)
    PROVE  /\ pc' \in [Ranks -> [Calls -> Labels]]
           /\ step' \in [Ranks -> [Calls -> 0..(N - 2)]]
           /\ \A q \in Ranks, a \in Calls :
                 /\ pc'[q][a] = IF q = r /\ a = b THEN x ELSE pc[q][a]
                 /\ step'[q][a] = IF q = r /\ a = b THEN m ELSE step[q][a]
BY DEF RingTypes, Moves

\* The calls stay in turn.
LEMMA InTurnKept ==
    ASSUME RingTypes, InTurn, NEW r \in Ranks, NEW b \in Calls, NEW x \in Labels,
           NEW m \in 0..(N - 2), Moves(r, b, x, m),
           x # "idle", pc[r][b] # "done",
           pc[r][b] = "idle" => \A a \in Calls : a < b => pc[r][a] = "done"
    PROVE  InTurn'
<1>1. \A q \in Ranks, a \in Calls : pc'[q][a] = IF q = r /\ a = b THEN x ELSE pc[q][a]
  BY MovesIs
<1> SUFFICES ASSUME NEW q \in Ranks, NEW c \in Calls, pc'[q][c] # "idle",
                    NEW a \in Calls, a < c
             PROVE  pc'[q][a] = "done"
  BY DEF InTurn
<1>2. Calls \subseteq Int
  BY RingAssumption DEF Calls
<1>3. CASE q = r /\ c = b
  <2>1. a # b
    BY <1>2, <1>3
  <2> QED
    BY <1>1, <1>3, <2>1 DEF InTurn
<1>4. CASE ~(q = r /\ c = b)
  <2>1. pc[q][c] # "idle"
    BY <1>1, <1>4
  <2>2. pc[q][a] = "done"
    BY <2>1 DEF InTurn
  <2> QED
    BY <1>1, <2>2
<1> QED
  BY <1>3, <1>4

\* A call that moves on, having taken or sent a frame or not, leaves the places of the
\* other calls and ranks right.
LEMMA PlacesKept ==
    ASSUME RingTypes, InTurn, NEW r \in Ranks, NEW b \in Calls, NEW x \in Labels,
           NEW m \in 0..(N - 2), Moves(r, b, x, m), pc[r][b] # "done",
           pc[r][b] = "idle" => \A a \in Calls : a < b => pc[r][a] = "done",
           NEW inn \in [Ranks -> Nat], NEW out \in [Ranks -> Nat], Places(inn, out),
           NEW i \in Nat, NEW o \in Nat, inn[r] =< i, i =< o, o =< i + 1,
           o =< Base(b) + K, Place(x, m, b, i, o)
    PROVE  Places([inn EXCEPT ![r] = i], [out EXCEPT ![r] = o])'
<1> DEFINE inn2 == [inn EXCEPT ![r] = i]
           out2 == [out EXCEPT ![r] = o]
<1>1. \A q \in Ranks, a \in Calls :
         /\ pc'[q][a] = IF q = r /\ a = b THEN x ELSE pc[q][a]
         /\ step'[q][a] = IF q = r /\ a = b THEN m ELSE step[q][a]
  BY MovesIs
<1>2. \A q \in Ranks : /\ inn2[q] = IF q = r THEN i ELSE inn[q]
                       /\ out2[q] = IF q = r THEN o ELSE out[q]
  OBVIOUS
<1> HIDE DEF inn2, out2
<1>3. ASSUME NEW q \in Ranks
      PROVE  inn2[q] =< out2[q] /\ out2[q] =< inn2[q] + 1
  BY <1>2 DEF Places
<1>4. ASSUME NEW q \in Ranks, NEW a \in Calls
      PROVE  Place(pc'[q][a], step'[q][a], a, inn2[q], out2[q])
  <2>1. CASE q # r
    BY <1>1, <1>2, <2>1 DEF Places
  <2>2. CASE q = r /\ a = b
    BY <1>1, <1>2, <2>2
  <2>3. CASE q = r /\ a # b
    <3>1. /\ Base(a) \in Nat /\ Base(b) \in Nat /\ K \in Nat /\ a \in Int /\ b \in Int
          /\ a < b => Base(a) + K =< Base(b)
          /\ b < a => Base(b) + K =< Base(a)
      BY BaseIs, RingAssumption DEF Calls
    <3>2. /\ pc'[q][a] = pc[r][a] /\ step'[q][a] = step[r][a] /\ inn2[q] = i /\ out2[q] = o
      BY <1>1, <1>2, <2>3
    <3>3. CASE a < b
      <4>1. pc[r][a] = "done"
        BY <3>3 DEF InTurn
      <4>2. Base(a) + K =< inn[r]
        BY <4>1 DEF Places, Place
      <4>3. Base(a) + K =< i
        <5>1. inn[r] \in Nat
          OBVIOUS
        <5> QED
          BY <3>1, <4>2, <5>1
      <4> QED
        BY <3>2, <4>1, <4>3 DEF Place
    <3>4. CASE b < a
      <4>1. pc[r][a] = "idle"
        BY <3>4 DEF InTurn
      <4>2. o =< Base(a)
        BY <3>1, <3>4
      <4> QED
        BY <3>2, <4>1, <4>2 DEF Place
    <3> QED
      BY <2>3, <3>1, <3>3, <3>4
  <2> QED
    BY <2>1, <2>2, <2>3
<1>5. Places(inn2, out2)'
  BY <1>3, <1>4 DEF Places
<1> QED
  BY <1>5 DEF inn2, out2

\* The next frame of a rank goes to the end of its right neighbour's mailbox.
LEMMA MailsSend ==
    ASSUME NEW inn \in [Ranks -> Nat], NEW out \in [Ranks -> Nat], Mails(inn, out),
           mail \in [Ranks -> Seq(Frames)], NEW r \in Ranks, NEW b \in Calls, NEW k \in 1..K,
           out[r] + 1 = Base(b) + k, FrameAt(variant, r, b, k) \in Frames,
           mail' = [mail EXCEPT ![Right(r)] = Append(@, FrameAt(variant, r, b, k))],
           variant' = variant
    PROVE  Mails(inn, [out EXCEPT ![r] = out[r] + 1])' /\ mail' \in [Ranks -> Seq(Frames)]
<1> DEFINE out2 == [out EXCEPT ![r] = out[r] + 1]
           e == FrameAt(variant, r, b, k)
           u == Right(r)
<1>1. u \in Ranks /\ Left(u) = r /\ \A q \in Ranks : Left(q) \in Ranks /\ (Left(q) = r => q = u)
  BY Neighbours
<1>2. \A q \in Ranks : out2[q] = IF q = r THEN out[r] + 1 ELSE out[q]
  OBVIOUS
<1> HIDE DEF e, u, out2, Frames
<1>3. mail' = [mail EXCEPT ![u] = Append(@, e)] /\ e \in Frames
  BY DEF e, u
<1>4. /\ mail' \in [Ranks -> Seq(Frames)]
      /\ mail'[u] = Append(mail[u], e)
      /\ \A q \in Ranks : q # u => mail'[q] = mail[q]
  <2>1. [mail EXCEPT ![u] = Append(@, e)] \in [Ranks -> Seq(Frames)]
    BY <1>1, <1>3, QueueAppend
  <2> QED
    BY <1>1, <1>3, <2>1
<1>5. /\ Len(mail'[u]) = Len(mail[u]) + 1 /\ mail'[u][Len(mail[u]) + 1] = e
      /\ \A i \in 1..Len(mail[u]) : mail'[u][i] = mail[u][i]
      /\ Len(mail[u]) \in Nat
  BY <1>1, <1>3, <1>4, QueueAppend
<1>6. ASSUME NEW q \in Ranks
      PROVE  /\ Len(mail'[q]) = out2[Left(q)] - inn[q]
             /\ \A i \in 1..Len(mail'[q]), a \in Calls, j \in 1..K :
                   inn[q] + i = Base(a) + j => mail'[q][i] = FrameAt(variant', Left(q), a, j)
  <2>1. CASE q # u
    <3>1. mail'[q] = mail[q] /\ out2[Left(q)] = out[Left(q)]
      BY <1>1, <1>2, <1>4, <2>1
    <3>2. Len(mail'[q]) = out2[Left(q)] - inn[q]
      BY <3>1 DEF Mails
    <3>3. \A i \in 1..Len(mail[q]), a \in Calls, j \in 1..K :
             inn[q] + i = Base(a) + j => mail[q][i] = FrameAt(variant, Left(q), a, j)
      BY DEF Mails
    <3>4. \A i \in 1..Len(mail'[q]), a \in Calls, j \in 1..K :
             inn[q] + i = Base(a) + j => mail'[q][i] = FrameAt(variant', Left(q), a, j)
      BY <3>1, <3>3, SMTT(30)
    <3> QED
      BY <3>2, <3>4
  <2>2. CASE q = u
    <3>1. /\ Len(mail[u]) = out[r] - inn[u] /\ out[r] \in Nat /\ inn[u] \in Nat
          /\ out2[Left(u)] = out[r] + 1
      BY <1>1, <1>2 DEF Mails
    <3>0. Len(mail'[u]) = Len(mail[u]) + 1
      BY <1>5
    <3>2. Len(mail'[u]) = out2[Left(u)] - inn[u]
      BY <3>0, <3>1
    <3>3. ASSUME NEW i \in 1..Len(mail'[u]), NEW a \in Calls, NEW j \in 1..K,
                 inn[u] + i = Base(a) + j
          PROVE  mail'[u][i] = FrameAt(variant, r, a, j)
      <4>1. CASE i \in 1..Len(mail[u])
        BY <1>1, <1>5, <3>3, <4>1 DEF Mails
      <4>2. CASE i = Len(mail[u]) + 1
        <5>1. Base(a) + j = Base(b) + k
          <6>1. inn[u] + i = out[r] + 1
            <7>1. ASSUME NEW x \in Nat, NEW y \in Nat
                  PROVE  y + ((x - y) + 1) = x + 1
              OBVIOUS
            <7>2. i = (out[r] - inn[u]) + 1
              BY <3>1, <4>2
            <7> QED
              BY <3>1, <7>1, <7>2
          <6> QED
            BY <3>3, <6>1
        <5>2. a = b /\ j = k
          BY <5>1, BaseIs
        <5> QED
          BY <1>5, <4>2, <5>2 DEF e
      <4>3. i \in 1..Len(mail[u]) \/ i = Len(mail[u]) + 1
        BY <1>5
      <4> QED
        BY <4>1, <4>2, <4>3
    <3> QED
      BY <1>1, <2>2, <3>2, <3>3
  <2> QED
    BY <2>1, <2>2
<1>7. Mails(inn, out2)'
  BY <1>6 DEF Mails
<1> QED
  BY <1>4, <1>7 DEF out2

\* A rank takes the next frame of its left neighbour.
LEMMA MailsTake ==
    ASSUME NEW inn \in [Ranks -> Nat], NEW out \in [Ranks -> Nat], Mails(inn, out),
           mail \in [Ranks -> Seq(Frames)], NEW r \in Ranks, mail[r] # << >>,
           mail' = [mail EXCEPT ![r] = Tail(@)], variant' = variant
    PROVE  /\ Mails([inn EXCEPT ![r] = inn[r] + 1], out)' /\ mail' \in [Ranks -> Seq(Frames)]
           /\ Head(mail[r]) \in Frames /\ inn[r] + 1 =< out[Left(r)]
           /\ \A b \in Calls, k \in 1..K :
                 inn[r] + 1 = Base(b) + k => Head(mail[r]) = FrameAt(variant, Left(r), b, k)
<1> DEFINE inn2 == [inn EXCEPT ![r] = inn[r] + 1]
<1>1. \A q \in Ranks : inn2[q] = IF q = r THEN inn[r] + 1 ELSE inn[q]
  OBVIOUS
<1> HIDE DEF inn2, Frames
<1>2. /\ mail' \in [Ranks -> Seq(Frames)] /\ mail'[r] = Tail(mail[r])
      /\ \A q \in Ranks : q # r => mail'[q] = mail[q]
  <2>1. [mail EXCEPT ![r] = Tail(@)] \in [Ranks -> Seq(Frames)]
    BY QueueTake
  <2> QED
    BY <2>1
<1>3. /\ Head(mail[r]) \in Frames /\ Head(mail[r]) = mail[r][1] /\ Len(mail[r]) \in Nat \ {0}
      /\ Len(mail'[r]) = Len(mail[r]) - 1
      /\ \A i \in 1..Len(mail'[r]) : mail'[r][i] = mail[r][i + 1]
  BY <1>2, QueueTake
<1>4. /\ Left(r) \in Ranks /\ Len(mail[r]) = out[Left(r)] - inn[r]
      /\ out[Left(r)] \in Nat /\ inn[r] \in Nat
  BY Neighbours DEF Mails
<1>5. ASSUME NEW q \in Ranks
      PROVE  /\ Len(mail'[q]) = out[Left(q)] - inn2[q]
             /\ \A i \in 1..Len(mail'[q]), a \in Calls, j \in 1..K :
                   inn2[q] + i = Base(a) + j => mail'[q][i] = FrameAt(variant', Left(q), a, j)
  <2>1. CASE q # r
    <3>1. mail'[q] = mail[q] /\ inn2[q] = inn[q]
      BY <1>1, <1>2, <2>1
    <3>2. /\ Len(mail[q]) = out[Left(q)] - inn[q]
          /\ \A i \in 1..Len(mail[q]), a \in Calls, j \in 1..K :
                inn[q] + i = Base(a) + j => mail[q][i] = FrameAt(variant, Left(q), a, j)
      BY DEF Mails
    <3> QED
      BY <3>1, <3>2
  <2>2. CASE q = r
    <3>1. Len(mail'[r]) = out[Left(r)] - inn2[r]
      BY <1>1, <1>3, <1>4
    <3>2. ASSUME NEW i \in 1..Len(mail'[r]), NEW a \in Calls, NEW j \in 1..K,
                 inn2[r] + i = Base(a) + j
          PROVE  mail'[r][i] = FrameAt(variant, Left(r), a, j)
      <4>1. i + 1 \in 1..Len(mail[r]) /\ inn[r] + (i + 1) = Base(a) + j
        <5>1. Len(mail'[r]) = Len(mail[r]) - 1 /\ Len(mail[r]) \in Nat
          BY <1>3
        <5>2. inn2[r] = inn[r] + 1
          BY <1>1
        <5>3. i + 1 \in 1..Len(mail[r])
          BY <5>1
        <5>4. (inn[r] + 1) + i = inn[r] + (i + 1)
          BY <1>4, <5>1
        <5> QED
          BY <3>2, <5>2, <5>3, <5>4
      <4>2. mail[r][i + 1] = FrameAt(variant, Left(r), a, j)
        BY <4>1 DEF Mails
      <4> QED
        BY <1>3, <4>2
    <3> QED
      BY <2>2, <3>1, <3>2
  <2> QED
    BY <2>1, <2>2
<1>6. Mails(inn2, out)'
  BY <1>5 DEF Mails
<1>7. 1 \in 1..Len(mail[r]) /\ inn[r] + 1 =< out[Left(r)]
  BY <1>3, <1>4
<1>8. \A b \in Calls, k \in 1..K :
          inn[r] + 1 = Base(b) + k => mail[r][1] = FrameAt(variant, Left(r), b, k)
  BY <1>7 DEF Mails
<1> QED
  BY <1>2, <1>3, <1>6, <1>7, <1>8 DEF inn2

\* The values that are passed round.
LEMMA ValuesTyped ==
    /\ \A r \in Ranks, b \in Calls, d \in 0..(N - 1) : Partial(r, d, b) \in BufferValues
    /\ \A v \in Variants, c \in Chunks, b \in Calls : Whole(v, c, b) \in BufferValues
    /\ \A c \in Chunks : ChunkLen(c) \in Int
<1>1. N \in Nat /\ N > 1 /\ N - 1 \in 0..(N - 1) /\ Length \in Nat /\ N \in 1..N
  BY RingAssumption
<1>2. ASSUME NEW r \in Ranks, NEW b \in Calls, NEW d \in 0..(N - 1)
      PROVE  Partial(r, d, b) \in BufferValues
  <2>1. d + 1 \in 1..N
    BY <1>1
  <2>2. Chain(r, d + 1, b) \in Seq(Pairs)
    BY <2>1, ChainIs
  <2> QED
    BY <2>2 DEF Partial, Value, BufferValues
<1>3. ASSUME NEW v \in Variants, NEW c \in Chunks, NEW b \in Calls
      PROVE  Whole(v, c, b) \in BufferValues
  <2>1. c \in Ranks /\ Left(c) \in Ranks /\ Right(Left(c)) = c
    BY Neighbours DEF Ranks, Chunks
  <2>2. Chunk(Left(c), N - 1) = c
    <3>1. Chunk(Left(c), N - 1) = (IF N - 1 =< Left(c) THEN Left(c) - (N - 1) ELSE Left(c) + N - (N - 1))
      BY <1>1, <2>1, ChunkIs
    <3>2. Left(c) = (IF c = 0 THEN N - 1 ELSE c - 1) /\ c \in 0..(N - 1)
      BY <2>1, Neighbours DEF Ranks
    <3> QED
      BY <1>1, <3>1, <3>2
  <2>3. Reduced(b)[c].fold \in Seq(Pairs)
    <3>1. Chain(Left(c), N, b) \in Seq(Pairs)
      BY <1>1, <2>1, ChainIs
    <3> QED
      BY <2>1, <2>2, <3>1, OwnedWhole
  <2>4. (IF v = "typed" THEN 0 ELSE 1) \in Nat /\ (IF v = "owned" THEN 1 ELSE 0) \in Nat
    OBVIOUS
  <2> QED
    BY <2>3, <2>4 DEF Whole, BufferValues
<1>4. ASSUME NEW c \in Chunks
      PROVE  ChunkLen(c) \in Int
  <2>1. c \in Int /\ Length \div N \in Int /\ Length % N \in Int
    BY <1>1 DEF Chunks
  <2>2. ASSUME NEW j \in Int
        PROVE  Bound(j) \in Int
    <3>1. LeastOf(j, Length % N) \in Int
      BY <2>1 DEF LeastOf
    <3>2. j * (Length \div N) \in Int
      BY <2>1
    <3> QED
      BY <3>1, <3>2 DEF Bound
  <2>3. Bound(c) \in Int /\ Bound(c + 1) \in Int
    BY <2>1, <2>2
  <2> QED
    BY <2>3 DEF ChunkLen
<1> QED
  BY <1>2, <1>3, <1>4

\* The frames of the two loops.
LEMMA FrameIs ==
    ASSUME NEW v \in Variants, NEW r \in Ranks, NEW b \in Calls, NEW s \in 0..(N - 2)
    PROVE  /\ s + 1 \in 1..K /\ N + s \in 1..K
           /\ FrameAt(v, r, b, s + 1) = [len |-> ChunkLen(ScatterSend(r, s)), val |-> Partial(r, s, b)]
           /\ FrameAt(v, r, b, N + s) = [len |-> ChunkLen(GatherSend(r, s)),
                                         val |-> Whole(v, GatherSend(r, s), b)]
           /\ FrameAt(v, r, b, s + 1) \in Frames /\ FrameAt(v, r, b, N + s) \in Frames
<1>1. N \in Nat /\ N > 1 /\ s \in Nat /\ s + 1 < N /\ (s + 1) - 1 = s /\ ~(N + s < N)
      /\ (N + s) - N = s /\ s \in 0..(N - 1) /\ (IF s = 0 THEN N - 1 ELSE s - 1) \in 0..(N - 1)
  BY RingAssumption
<1>2. s + 1 \in 1..K /\ N + s \in 1..K
  BY <1>1 DEF K
<1>3. ScatterSend(r, s) \in Chunks /\ GatherSend(r, s) \in Chunks
  BY <1>1, StepChunks, ChunkIs
<1>4. FrameAt(v, r, b, s + 1) = [len |-> ChunkLen(ScatterSend(r, s)), val |-> Partial(r, s, b)]
  BY <1>1 DEF FrameAt
<1>5. FrameAt(v, r, b, N + s) = [len |-> ChunkLen(GatherSend(r, s)),
                                 val |-> Whole(v, GatherSend(r, s), b)]
  BY <1>1 DEF FrameAt
<1>6. /\ ChunkLen(ScatterSend(r, s)) \in Int /\ Partial(r, s, b) \in BufferValues
      /\ ChunkLen(GatherSend(r, s)) \in Int /\ Whole(v, GatherSend(r, s), b) \in BufferValues
  BY <1>1, <1>3, ValuesTyped
<1> QED
  BY <1>2, <1>4, <1>5, <1>6 DEF Frames

\* A call that moves on leaves the buffers of the others right.
LEMMA BuffersKept ==
    ASSUME RingTypes, Buffers, NEW r \in Ranks, NEW b \in Calls, NEW x \in Labels,
           NEW m \in 0..(N - 2), Moves(r, b, x, m), variant' = variant,
           \A q \in Ranks, a \in Calls : ~(q = r /\ a = b) => data'[q][a] = data[q][a],
           \A d \in 0..(N - 1) : Holds(variant, x, m, r, b, d, data'[r][b][Chunk(r, d)])
    PROVE  Buffers'
<1>1. \A q \in Ranks, a \in Calls :
         /\ pc'[q][a] = IF q = r /\ a = b THEN x ELSE pc[q][a]
         /\ step'[q][a] = IF q = r /\ a = b THEN m ELSE step[q][a]
  BY MovesIs
<1> SUFFICES ASSUME NEW q \in Ranks, NEW a \in Calls, NEW d \in 0..(N - 1)
             PROVE  Holds(variant, pc'[q][a], step'[q][a], q, a, d, data'[q][a][Chunk(q, d)])
  BY DEF Buffers
<1>2. CASE q = r /\ a = b
  BY <1>1, <1>2
<1>3. CASE ~(q = r /\ a = b)
  BY <1>1, <1>3 DEF Buffers
<1> QED
  BY <1>2, <1>3

\* A call that moves on leaves the types right.
LEMMA TypesKept ==
    ASSUME RingTypes, NEW r \in Ranks, NEW b \in Calls, NEW x \in Labels,
           NEW m \in 0..(N - 2), Moves(r, b, x, m), variant' = variant,
           data' \in [Ranks -> [Calls -> [Chunks -> BufferValues]]], mail' \in [Ranks -> Seq(Frames)],
           x \notin Scattering \cup Gathering => m = 0,
           x = "scale" => variant = "typed", x = "own" => variant # "typed"
    PROVE  RingTypes'
<1>1. /\ pc' \in [Ranks -> [Calls -> Labels]] /\ step' \in [Ranks -> [Calls -> 0..(N - 2)]]
      /\ \A q \in Ranks, a \in Calls :
            /\ pc'[q][a] = IF q = r /\ a = b THEN x ELSE pc[q][a]
            /\ step'[q][a] = IF q = r /\ a = b THEN m ELSE step[q][a]
  BY MovesIs
<1>2. \A q \in Ranks, a \in Calls :
         /\ pc'[q][a] \notin Scattering \cup Gathering => step'[q][a] = 0
         /\ pc'[q][a] = "scale" => variant' = "typed"
         /\ pc'[q][a] = "own" => variant' # "typed"
  BY <1>1 DEF RingTypes
<1> QED
  BY <1>1, <1>2 DEF RingTypes

-----------------------------------------------------------------------------
(* The steps.                                                              *)

\* Entering a call.
LEMMA StartKept ==
    ASSUME RingInv, ~Overlap, NEW r \in Ranks, NEW b \in Calls, Start(r, b), variant' = variant
    PROVE  RingInv'
<1>0. RingTypes /\ InTurn /\ Buffers
  BY DEF RingInv
<1>1. PICK inn, out \in [Ranks -> Nat] : Places(inn, out) /\ Mails(inn, out)
  BY DEF RingInv
<1>2. /\ pc[r][b] = "idle" /\ pc' = [pc EXCEPT ![r][b] = "scatter_send"]
      /\ UNCHANGED <<step, data, mail>>
      /\ \A a \in 1..(b - 1) : pc[r][a] = "done"
  BY DEF Start, At, Goto
<1>3. Calls \subseteq Nat \ {0} /\ N - 2 \in Nat /\ \A a \in Calls : a < b => a \in 1..(b - 1)
  BY RingAssumption DEF Calls
<1>4. \A a \in Calls : a < b => pc[r][a] = "done"
  BY <1>2, <1>3
<1>5. step[r][b] = 0 /\ step' = [step EXCEPT ![r][b] = 0] /\ 0 \in 0..(N - 2)
  <2>1. step[r][b] = 0
    BY <1>0, <1>2 DEF RingTypes, Scattering, Gathering
  <2>2. step \in [Ranks -> [Calls -> 0..(N - 2)]]
    BY <1>0 DEF RingTypes
  <2>3. step = [step EXCEPT ![r][b] = 0]
    BY <2>1, <2>2
  <2> QED
    BY <1>2, <1>3, <2>1, <2>3
<1>6. Moves(r, b, "scatter_send", 0) /\ "scatter_send" \in Labels
  BY <1>2, <1>5 DEF Moves, Labels, Scattering
<1>7. inn[r] = Base(b) /\ out[r] = Base(b)
  <2>1. inn[r] \in Nat /\ out[r] \in Nat /\ Base(b) \in Nat
    BY <1>3, BaseIs
  <2>2. inn[r] =< out[r] /\ out[r] =< Base(b)
    BY <1>1, <1>2 DEF Places, Place
  <2>3. Base(b) =< inn[r]
    <3>1. CASE b = 1
      BY <2>1, <3>1, BaseIs
    <3>2. CASE b # 1
      <4>1. b > 1 /\ b - 1 < b
        BY <1>3, <3>2
      <4>2. b - 1 \in Calls /\ Base(b - 1) + K = Base(b)
        BY <4>1, BaseIs
      <4>3. pc[r][b - 1] = "done"
        BY <1>4, <4>1, <4>2
      <4> QED
        BY <1>1, <4>2, <4>3 DEF Places, Place
    <3> QED
      BY <3>1, <3>2
  <2> QED
    BY <2>1, <2>2, <2>3
<1>8. Places(inn, out)'
  <2>1. /\ inn[r] \in Nat /\ out[r] \in Nat /\ inn[r] =< inn[r] /\ inn[r] =< out[r]
        /\ out[r] =< inn[r] + 1 /\ out[r] =< Base(b) + K
        /\ Place("scatter_send", 0, b, inn[r], out[r])
    <3>1. inn[r] \in Nat /\ Base(b) \in Nat /\ K \in Nat
      BY BaseIs
    <3> QED
      BY <1>7, <3>1 DEF Place
  <2>2. Places([inn EXCEPT ![r] = inn[r]], [out EXCEPT ![r] = out[r]])'
    BY <1>0, <1>1, <1>2, <1>4, <1>5, <1>6, <2>1, PlacesKept
  <2>3. [inn EXCEPT ![r] = inn[r]] = inn /\ [out EXCEPT ![r] = out[r]] = out
    OBVIOUS
  <2> QED
    BY <2>2, <2>3
<1>9. Mails(inn, out)'
  BY <1>1, <1>2 DEF Mails
<1>10. InTurn'
  BY <1>0, <1>2, <1>4, <1>5, <1>6, InTurnKept
<1>11. Buffers'
  <2>1. \A d \in 0..(N - 1) : Holds(variant, "scatter_send", 0, r, b, d, data'[r][b][Chunk(r, d)])
    <3> SUFFICES ASSUME NEW d \in 0..(N - 1)
                 PROVE  Holds(variant, "scatter_send", 0, r, b, d, data'[r][b][Chunk(r, d)])
      OBVIOUS
    <3>1. Holds(variant, "idle", 0, r, b, d, data[r][b][Chunk(r, d)])
      BY <1>0, <1>2, <1>5 DEF Buffers
    <3>2. data' = data
      BY <1>2
    <3>3. data'[r][b][Chunk(r, d)] = Partial(r, IF d =< 0 THEN d ELSE 0, b)
      BY <3>1, <3>2 DEF Holds
    <3> QED
      BY <3>3 DEF Holds, Scattering, Gathering
  <2> QED
    BY <1>0, <1>2, <1>5, <1>6, <2>1, BuffersKept
<1>12. RingTypes'
  <2>1. data' \in [Ranks -> [Calls -> [Chunks -> BufferValues]]] /\ mail' \in [Ranks -> Seq(Frames)]
    BY <1>0, <1>2 DEF RingTypes
  <2> QED
    BY <1>0, <1>5, <1>6, <2>1, TypesKept DEF Scattering
<1> QED
  BY <1>8, <1>9, <1>10, <1>11, <1>12 DEF RingInv

\* Sending: the frame is the next one the neighbour takes.
LEMMA SendKept ==
    ASSUME RingInv, NEW r \in Ranks, NEW b \in Calls, variant' = variant,
           \/ SendChunk(r, b, "scatter_send", ScatterSend(r, step[r][b]), "scatter_recv")
           \/ SendChunk(r, b, "gather_send", GatherSend(r, step[r][b]), "gather_recv")
    PROVE  RingInv'
<1>0. RingTypes /\ InTurn /\ Buffers
  BY DEF RingInv
<1>1. PICK inn, out \in [Ranks -> Nat] : Places(inn, out) /\ Mails(inn, out)
  BY DEF RingInv
<1> DEFINE s == step[r][b]
           v == variant
<1>2. /\ s \in 0..(N - 2) /\ v \in Variants /\ N \in Nat /\ N > 1
      /\ mail \in [Ranks -> Seq(Frames)]
      /\ pc \in [Ranks -> [Calls -> Labels]] /\ step \in [Ranks -> [Calls -> 0..(N - 2)]]
  BY <1>0, RingAssumption DEF RingTypes
<1>3. UNCHANGED <<step, data>> /\ step' = [step EXCEPT ![r][b] = s]
  <2>1. UNCHANGED <<step, data>>
    BY DEF SendChunk
  <2> QED
    BY <1>2, <2>1
<1>4. inn[r] \in Nat /\ out[r] \in Nat /\ Base(b) \in Nat /\ K \in Nat /\ K = 2 * (N - 1)
  BY BaseIs DEF K
<1>5. ASSUME NEW from \in {"scatter_send", "gather_send"}, NEW x \in Labels, NEW k \in 1..K, NEW c,
             pc[r][b] = from, SendChunk(r, b, from, c, x),
             out[r] = inn[r], out[r] + 1 = Base(b) + k,
             FrameAt(v, r, b, k) = [len |-> ChunkLen(c), val |-> data[r][b][c]],
             FrameAt(v, r, b, k) \in Frames,
             x \in Scattering \cup Gathering,
             Place(x, s, b, inn[r], out[r] + 1),
             \A d \in 0..(N - 1) : Holds(v, x, s, r, b, d, data[r][b][Chunk(r, d)])
      PROVE  RingInv'
  <2>1. /\ pc' = [pc EXCEPT ![r][b] = x]
        /\ mail' = [mail EXCEPT ![Right(r)] = Append(@, FrameAt(variant, r, b, k))]
    BY <1>5 DEF SendChunk, Goto
  <2> HIDE DEF s, v
  <2>2. Moves(r, b, x, s)
    BY <1>3, <2>1 DEF Moves
  <2>3. pc[r][b] # "done" /\ pc[r][b] # "idle" /\ x # "idle" /\ x # "scale" /\ x # "own"
    BY <1>5 DEF Scattering, Gathering
  <2>4. Mails(inn, [out EXCEPT ![r] = out[r] + 1])' /\ mail' \in [Ranks -> Seq(Frames)]
    <3>1. FrameAt(variant, r, b, k) \in Frames
      BY <1>5 DEF v
    <3> QED
      BY <1>1, <1>2, <1>5, <2>1, <3>1, MailsSend
  <2>5. /\ inn[r] =< inn[r] /\ inn[r] =< out[r] + 1 /\ out[r] + 1 =< inn[r] + 1
        /\ out[r] + 1 =< Base(b) + K /\ out[r] + 1 \in Nat
    BY <1>4, <1>5
  <2>6. Places([inn EXCEPT ![r] = inn[r]], [out EXCEPT ![r] = out[r] + 1])'
    BY <1>0, <1>1, <1>2, <1>5, <2>2, <2>3, <2>5, PlacesKept
  <2>7. [inn EXCEPT ![r] = inn[r]] = inn /\ [out EXCEPT ![r] = out[r] + 1] \in [Ranks -> Nat]
    BY <2>5
  <2>8. InTurn'
    BY <1>0, <1>2, <2>2, <2>3, InTurnKept
  <2>9. Buffers'
    BY <1>0, <1>2, <1>3, <1>5, <2>2, BuffersKept DEF v
  <2>10. RingTypes'
    <3>1. data' \in [Ranks -> [Calls -> [Chunks -> BufferValues]]]
      BY <1>0, <1>3 DEF RingTypes
    <3> QED
      BY <1>0, <1>2, <1>5, <2>2, <2>3, <2>4, <3>1, TypesKept
  <2> QED
    BY <2>4, <2>6, <2>7, <2>8, <2>9, <2>10 DEF RingInv
<1>6. /\ FrameAt(v, r, b, s + 1) = [len |-> ChunkLen(ScatterSend(r, s)), val |-> Partial(r, s, b)]
      /\ FrameAt(v, r, b, N + s) = [len |-> ChunkLen(GatherSend(r, s)),
                                    val |-> Whole(v, GatherSend(r, s), b)]
      /\ FrameAt(v, r, b, s + 1) \in Frames /\ FrameAt(v, r, b, N + s) \in Frames
      /\ s + 1 \in 1..K /\ N + s \in 1..K
  BY <1>2, FrameIs
<1>7. ScatterSend(r, s) = Chunk(r, s) /\ GatherSend(r, s) = Chunk(r, IF s = 0 THEN N - 1 ELSE s - 1)
  BY <1>2, StepChunks
<1>8. Place(pc[r][b], s, b, inn[r], out[r])
  BY <1>1 DEF Places
<1>9. \A d \in 0..(N - 1) : Holds(v, pc[r][b], s, r, b, d, data[r][b][Chunk(r, d)])
  BY <1>0 DEF Buffers
<1> HIDE DEF s, v
<1>10. CASE SendChunk(r, b, "scatter_send", ScatterSend(r, s), "scatter_recv")
  <2>1. pc[r][b] = "scatter_send" /\ "scatter_recv" \in Labels /\ "scatter_recv" \in Scattering
    BY <1>10 DEF SendChunk, At, Labels, Scattering
  <2>2. inn[r] = Base(b) + s /\ out[r] = inn[r]
    BY <1>8, <2>1 DEF Place
  <2>3. out[r] + 1 = Base(b) + (s + 1) /\ Place("scatter_recv", s, b, inn[r], out[r] + 1)
    <3>1. out[r] + 1 = Base(b) + (s + 1) /\ out[r] + 1 = inn[r] + 1
      BY <1>2, <1>4, <2>2
    <3> QED
      BY <2>2, <3>1 DEF Place
  <2>4. data[r][b][ScatterSend(r, s)] = Partial(r, s, b)
    <3>1. s \in 0..(N - 1) /\ s =< s
      BY <1>2
    <3> QED
      BY <1>7, <1>9, <2>1, <3>1 DEF Holds, Scattering
  <2>5. \A d \in 0..(N - 1) : Holds(v, "scatter_recv", s, r, b, d, data[r][b][Chunk(r, d)])
    BY <1>9, <2>1 DEF Holds, Scattering, Gathering
  <2> QED
    BY <1>5, <1>6, <1>10, <2>1, <2>2, <2>3, <2>4, <2>5
<1>11. CASE SendChunk(r, b, "gather_send", GatherSend(r, s), "gather_recv")
  <2>1. pc[r][b] = "gather_send" /\ "gather_recv" \in Labels /\ "gather_recv" \in Gathering
    BY <1>11 DEF SendChunk, At, Labels, Gathering
  <2>2. inn[r] = Base(b) + (N - 1) + s /\ out[r] = inn[r]
    BY <1>8, <2>1 DEF Place
  <2>3. out[r] + 1 = Base(b) + (N + s) /\ Place("gather_recv", s, b, inn[r], out[r] + 1)
    <3>1. out[r] + 1 = Base(b) + (N + s) /\ out[r] + 1 = inn[r] + 1
      BY <1>2, <1>4, <2>2
    <3> QED
      BY <2>2, <3>1 DEF Place
  <2>4. data[r][b][GatherSend(r, s)] = Whole(v, GatherSend(r, s), b)
    <3> DEFINE d == IF s = 0 THEN N - 1 ELSE s - 1
    <3>1. d \in 0..(N - 1) /\ (d < s \/ d = N - 1)
      BY <1>2
    <3>2. GatherSend(r, s) = Chunk(r, d)
      BY <1>7
    <3> HIDE DEF d
    <3> QED
      BY <1>9, <2>1, <3>1, <3>2 DEF Holds, Gathering
  <2>5. \A d \in 0..(N - 1) : Holds(v, "gather_recv", s, r, b, d, data[r][b][Chunk(r, d)])
    BY <1>9, <2>1 DEF Holds, Scattering, Gathering
  <2> QED
    BY <1>5, <1>6, <1>11, <2>1, <2>2, <2>3, <2>4, <2>5
<1> QED
  BY <1>10, <1>11 DEF s

\* One chunk of one buffer is assigned.
Assigned(r, b, c, y) == data' = [data EXCEPT ![r][b][c] = y]

LEMMA ChunkSet ==
    ASSUME RingTypes, NEW r \in Ranks, NEW b \in Calls, NEW c \in Chunks, NEW y \in BufferValues,
           Assigned(r, b, c, y)
    PROVE  /\ data' \in [Ranks -> [Calls -> [Chunks -> BufferValues]]]
           /\ \A q \in Ranks, a \in Calls : ~(q = r /\ a = b) => data'[q][a] = data[q][a]
           /\ \A e \in Chunks : data'[r][b][e] = IF e = c THEN y ELSE data[r][b][e]
<1>1. data \in [Ranks -> [Calls -> [Chunks -> BufferValues]]]
  BY DEF RingTypes
<1> HIDE DEF BufferValues
<1>2. [data[r][b] EXCEPT ![c] = y] \in [Chunks -> BufferValues]
  BY <1>1
<1>3. [data[r] EXCEPT ![b] = [data[r][b] EXCEPT ![c] = y]] \in [Calls -> [Chunks -> BufferValues]]
  BY <1>1, <1>2
<1>4. data' \in [Ranks -> [Calls -> [Chunks -> BufferValues]]]
  BY <1>1, <1>3 DEF Assigned
<1> QED
  BY <1>1, <1>4 DEF Assigned

\* A step that moves a call on, sends nothing and takes t frames, one or none.
LEMMA StepKept ==
    ASSUME RingTypes, InTurn, Buffers, NEW r \in Ranks, NEW b \in Calls, NEW x \in Labels,
           NEW m \in 0..(N - 2), Moves(r, b, x, m), variant' = variant,
           NEW inn \in [Ranks -> Nat], NEW out \in [Ranks -> Nat], NEW i \in Nat,
           Places(inn, out), Mails([inn EXCEPT ![r] = i], out)',
           mail' \in [Ranks -> Seq(Frames)],
           data' \in [Ranks -> [Calls -> [Chunks -> BufferValues]]],
           pc[r][b] # "done", pc[r][b] # "idle", x # "idle",
           inn[r] =< i, i = out[r], out[r] =< Base(b) + K, Place(x, m, b, i, out[r]),
           x \notin Scattering \cup Gathering => m = 0,
           x = "scale" => variant = "typed", x = "own" => variant # "typed",
           \A q \in Ranks, a \in Calls : ~(q = r /\ a = b) => data'[q][a] = data[q][a],
           \A d \in 0..(N - 1) : Holds(variant, x, m, r, b, d, data'[r][b][Chunk(r, d)])
    PROVE  RingInv'
<1>1. out[r] \in Nat /\ i =< out[r] /\ out[r] =< i + 1
  OBVIOUS
<1>2. Places([inn EXCEPT ![r] = i], [out EXCEPT ![r] = out[r]])'
  BY <1>1, PlacesKept
<1>3. [out EXCEPT ![r] = out[r]] = out /\ [inn EXCEPT ![r] = i] \in [Ranks -> Nat]
  OBVIOUS
<1>4. Buffers'
  BY BuffersKept
<1>5. InTurn'
  BY InTurnKept
<1>6. RingTypes'
  BY TypesKept
<1> QED
  BY <1>2, <1>3, <1>4, <1>5, <1>6 DEF RingInv

\* The chunk a rank owns, reduced but not finalized; and what finalizing makes of it.
LEMMA WholeIs ==
    ASSUME NEW r \in Ranks, NEW b \in Calls
    PROVE  /\ Partial(r, N - 1, b) = Whole("typed", Chunk(r, N - 1), b)
           /\ Finalize(Partial(r, N - 1, b)) = Whole("ring", Chunk(r, N - 1), b)
           /\ Update(Finalize(Partial(r, N - 1, b))) = Whole("owned", Chunk(r, N - 1), b)
           /\ \A c \in Chunks : /\ Finalize(Whole("typed", c, b)) = [Whole("typed", c, b) EXCEPT !.final = 1]
                                /\ [Whole("ring", c, b) EXCEPT !.final = 1] = Whole("ring", c, b)
                                /\ [Whole("owned", c, b) EXCEPT !.final = 1] = Whole("owned", c, b)
<1>1. (N - 1) + 1 = N
  BY RingAssumption
<1>2. Partial(r, N - 1, b) = Value(Reduced(b)[Chunk(r, N - 1)].fold)
  BY <1>1, OwnedWhole DEF Partial
<1>3. ASSUME NEW f, NEW p, NEW u, NEW q
      PROVE  /\ [[fold |-> f, final |-> p, updated |-> u] EXCEPT !.final = q]
                   = [fold |-> f, final |-> q, updated |-> u]
             /\ [[fold |-> f, final |-> p, updated |-> u] EXCEPT !.updated = q]
                   = [fold |-> f, final |-> p, updated |-> q]
  OBVIOUS
<1>4. ASSUME NEW f
      PROVE  /\ Finalize(Value(f)) = [fold |-> f, final |-> 1, updated |-> 0]
             /\ Update([fold |-> f, final |-> 1, updated |-> 0])
                   = [fold |-> f, final |-> 1, updated |-> 1]
  <2>1. 0 + 1 = 1
    OBVIOUS
  <2>2. Value(f).final = 0 /\ [fold |-> f, final |-> 1, updated |-> 0].updated = 0
    BY DEF Value
  <2>3. Finalize(Value(f)) = [Value(f) EXCEPT !.final = 1]
    BY <2>1, <2>2 DEF Finalize
  <2>4. Update([fold |-> f, final |-> 1, updated |-> 0])
          = [[fold |-> f, final |-> 1, updated |-> 0] EXCEPT !.updated = 1]
    BY <2>1, <2>2 DEF Update
  <2> QED
    BY <1>3, <2>3, <2>4 DEF Value
<1>5. ASSUME NEW c
      PROVE  /\ Whole("typed", c, b) = Value(Reduced(b)[c].fold)
             /\ Whole("ring", c, b) = [fold |-> Reduced(b)[c].fold, final |-> 1, updated |-> 0]
             /\ Whole("owned", c, b) = [fold |-> Reduced(b)[c].fold, final |-> 1, updated |-> 1]
  BY DEF Whole, Value
<1>6. ASSUME NEW c
      PROVE  /\ Finalize(Whole("typed", c, b)) = [Whole("typed", c, b) EXCEPT !.final = 1]
             /\ [Whole("ring", c, b) EXCEPT !.final = 1] = Whole("ring", c, b)
             /\ [Whole("owned", c, b) EXCEPT !.final = 1] = Whole("owned", c, b)
  BY <1>3, <1>4, <1>5 DEF Value
<1> QED
  BY <1>2, <1>4, <1>5, <1>6

\* Receiving in the first loop.
LEMMA ScatterKept ==
    ASSUME RingInv, NEW r \in Ranks, NEW b \in Calls, variant' = variant,
           RecvChunk(r, b, "scatter_recv", ScatterRecv(r, step[r][b]),
                     Combine(data[r][b][ScatterRecv(r, step[r][b])], Head(mail[r]).val),
                     "scatter_send", IF variant = "typed" THEN "gather_send" ELSE "own")
    PROVE  RingInv'
<1>0. RingTypes /\ InTurn /\ Buffers
  BY DEF RingInv
<1>1. PICK inn, out \in [Ranks -> Nat] : Places(inn, out) /\ Mails(inn, out)
  BY DEF RingInv
<1> DEFINE s == step[r][b]
           v == variant
           c == ScatterRecv(r, s)
           last == IF v = "typed" THEN "gather_send" ELSE "own"
<1>2. /\ s \in 0..(N - 2) /\ v \in Variants /\ N \in Nat /\ N > 1 /\ s \in Nat
      /\ mail \in [Ranks -> Seq(Frames)] /\ s + 1 \in 0..(N - 1)
  BY <1>0, RingAssumption DEF RingTypes
<1>3. /\ pc[r][b] = "scatter_recv" /\ mail[r] # << >> /\ mail' = [mail EXCEPT ![r] = Tail(@)]
  BY DEF RecvChunk, At
<1>4. inn[r] \in Nat /\ out[r] \in Nat /\ Base(b) \in Nat /\ K \in Nat /\ K = 2 * (N - 1)
  BY BaseIs DEF K
<1>5. inn[r] = Base(b) + s /\ out[r] = inn[r] + 1
  BY <1>1, <1>3 DEF Places, Place
<1>6. \A d \in 0..(N - 1) : data[r][b][Chunk(r, d)] = Partial(r, IF d =< s THEN d ELSE 0, b)
  BY <1>0, <1>3 DEF Buffers, Holds, Scattering
<1>7. c = Chunk(r, s + 1) /\ c \in Chunks /\ ScatterSend(Left(r), s) = c /\ Left(r) \in Ranks
  <2> HIDE DEF s
  <2>1. c = Chunk(r, s + 1) /\ ScatterSend(Left(r), s) = c
    BY <1>2, StepChunks
  <2>2. Chunk(r, s + 1) \in Chunks
    BY <1>2, ChunkIs
  <2> QED
    BY <2>1, <2>2, Neighbours
<1>8. s + 1 \in 1..K /\ FrameAt(v, Left(r), b, s + 1) = [len |-> ChunkLen(c), val |-> Partial(Left(r), s, b)]
  BY <1>2, <1>7, FrameIs
<1>9. Head(mail[r]) = FrameAt(v, Left(r), b, s + 1)
  <2>1. inn[r] + 1 = Base(b) + (s + 1)
    <3>1. \A x, y \in Nat : (x + y) + 1 = x + (y + 1)
      OBVIOUS
    <3> QED
      BY <1>2, <1>4, <1>5, <3>1
  <2>2. mail \in [Ranks -> Seq(Frames)]
    BY <1>2
  <2>3. \A a \in Calls, k \in 1..K :
            inn[r] + 1 = Base(a) + k => Head(mail[r]) = FrameAt(variant, Left(r), a, k)
    BY <1>1, <1>3, <2>2, MailsTake
  <2> QED
    BY <1>8, <2>1, <2>3
<1>10. Head(mail[r]).len = ChunkLen(c) /\ Head(mail[r]).val = Partial(Left(r), s, b)
  BY <1>8, <1>9
<1>11. data[r][b][c] = Partial(r, 0, b)
  <2>1. ~(s + 1 =< s)
    BY <1>2
  <2> QED
    BY <1>2, <1>6, <1>7, <2>1
<1>12. Combine(data[r][b][c], Head(mail[r]).val) = Partial(r, s + 1, b)
  BY <1>2, <1>10, <1>11, ChainGrows
<1>13. /\ data' = [data EXCEPT ![r][b][c] = Partial(r, s + 1, b)]
       /\ IF s < N - 2 THEN Moves(r, b, "scatter_send", s + 1)
                       ELSE Moves(r, b, last, 0)
  <2>1. ~(Head(mail[r]).len # ChunkLen(c))
    BY <1>10
  <2> QED
    BY <1>12, <2>1 DEF RecvChunk, Goto, Moves
<1> HIDE DEF s, v, c, last
<1> DEFINE y == Partial(r, s + 1, b)
<1>14. y \in BufferValues
  BY <1>2, ValuesTyped
<1>15. /\ data' \in [Ranks -> [Calls -> [Chunks -> BufferValues]]]
       /\ \A q \in Ranks, a \in Calls : ~(q = r /\ a = b) => data'[q][a] = data[q][a]
       /\ \A e \in Chunks : data'[r][b][e] = IF e = c THEN y ELSE data[r][b][e]
  <2>1. Assigned(r, b, c, y)
    BY <1>13 DEF Assigned
  <2> HIDE DEF y
  <2> QED
    BY <1>0, <1>7, <1>14, <2>1, ChunkSet
<1>16. ASSUME NEW d \in 0..(N - 1)
       PROVE  data'[r][b][Chunk(r, d)] = Partial(r, IF d =< s + 1 THEN d ELSE 0, b)
  <2>1. Chunk(r, d) \in Chunks /\ (Chunk(r, d) = c => d = s + 1)
    BY <1>2, <1>7, ChunkIs
  <2>2. CASE d = s + 1
    <3>1. d =< s + 1
      BY <1>2, <2>2
    <3> QED
      BY <1>7, <1>15, <2>1, <2>2, <3>1
  <2>3. CASE d # s + 1
    <3>1. (d =< s) <=> (d =< s + 1)
      BY <1>2, <2>3
    <3> QED
      BY <1>6, <1>15, <2>1, <2>3, <3>1
  <2> QED
    BY <2>2, <2>3
<1>17. Mails([inn EXCEPT ![r] = inn[r] + 1], out)' /\ mail' \in [Ranks -> Seq(Frames)]
  BY <1>1, <1>2, <1>3, MailsTake
<1>18. /\ inn[r] + 1 \in Nat /\ inn[r] =< inn[r] + 1 /\ inn[r] + 1 = out[r]
       /\ out[r] =< Base(b) + K
  BY <1>2, <1>4, <1>5
<1>19. CASE s < N - 2
  <2>1. s + 1 \in 0..(N - 2) /\ "scatter_send" \in Labels /\ "scatter_send" \in Scattering
    BY <1>2, <1>19 DEF Labels, Scattering
  <2>2. Place("scatter_send", s + 1, b, inn[r] + 1, out[r])
    <3>1. inn[r] + 1 = Base(b) + (s + 1)
      BY <1>2, <1>4, <1>5
    <3> QED
      BY <1>5, <3>1 DEF Place
  <2>3. \A d \in 0..(N - 1) : Holds(variant, "scatter_send", s + 1, r, b, d, data'[r][b][Chunk(r, d)])
    BY <1>16 DEF Holds, Scattering, Gathering
  <2>4. Moves(r, b, "scatter_send", s + 1)
    BY <1>13, <1>19
  <2> QED
    BY <1>0, <1>1, <1>3, <1>15, <1>17, <1>18, <2>1, <2>2, <2>3, <2>4, StepKept
<1>20. CASE ~(s < N - 2)
  <2>0. s + 1 = N - 1 /\ 0 \in 0..(N - 2)
    BY <1>2, <1>20
  <2>1. \A d \in 0..(N - 1) : data'[r][b][Chunk(r, d)] = Partial(r, d, b)
    <3>1. \A d \in 0..(N - 1) : d =< s + 1
      BY <1>2, <2>0
    <3> QED
      BY <1>16, <3>1
  <2>2. inn[r] + 1 = Base(b) + (N - 1) /\ inn[r] + 1 = Base(b) + (N - 1) + 0
    <3> DEFINE x == Base(b)
               i == inn[r]
    <3>1. x \in Nat /\ i = x + s
      BY <1>4, <1>5
    <3> HIDE DEF x, i, s
    <3>2. i + 1 = x + (N - 1) /\ i + 1 = x + (N - 1) + 0
      BY <1>2, <2>0, <3>1
    <3> QED
      BY <3>2 DEF x, i
  <2>3. last \in Labels /\ last # "idle" /\ last # "scale"
        /\ (last = "own" => variant # "typed")
    BY DEF Labels, Gathering, last, v
  <2>4. Place(last, 0, b, inn[r] + 1, out[r])
    BY <1>5, <2>2 DEF Place, last
  <2>5. ASSUME NEW d \in 0..(N - 1)
        PROVE  Holds(variant, last, 0, r, b, d, data'[r][b][Chunk(r, d)])
    <3>1. CASE v = "typed"
      <4>1. last = "gather_send" /\ ~(d < 0)
        BY <1>2, <3>1 DEF last
      <4>2. d = N - 1 => data'[r][b][Chunk(r, d)] = Whole(variant, Chunk(r, d), b)
        BY <2>1, <3>1, WholeIs DEF v
      <4> QED
        BY <2>1, <4>1, <4>2 DEF Holds, Scattering, Gathering
    <3>2. CASE v # "typed"
      <4>1. last = "own"
        BY <3>2 DEF last
      <4> QED
        BY <2>1, <4>1 DEF Holds, Scattering, Gathering
    <3> QED
      BY <3>1, <3>2
  <2>6. Moves(r, b, last, 0)
    BY <1>13, <1>20
  <2> QED
    BY <1>0, <1>1, <1>3, <1>15, <1>17, <1>18, <2>0, <2>3, <2>4, <2>5, <2>6, StepKept
<1> QED
  BY <1>19, <1>20

\* Receiving in the second loop.
LEMMA GatherKept ==
    ASSUME RingInv, NEW r \in Ranks, NEW b \in Calls, variant' = variant,
           RecvChunk(r, b, "gather_recv", GatherRecv(r, step[r][b]), Head(mail[r]).val,
                     "gather_send", IF variant = "typed" THEN "scale" ELSE "done")
    PROVE  RingInv'
<1>0. RingTypes /\ InTurn /\ Buffers
  BY DEF RingInv
<1>1. PICK inn, out \in [Ranks -> Nat] : Places(inn, out) /\ Mails(inn, out)
  BY DEF RingInv
<1> DEFINE s == step[r][b]
           v == variant
           c == GatherRecv(r, s)
           last == IF v = "typed" THEN "scale" ELSE "done"
           y == Whole(v, c, b)
<1>2. /\ s \in 0..(N - 2) /\ v \in Variants /\ N \in Nat /\ N > 1 /\ s \in Nat
      /\ mail \in [Ranks -> Seq(Frames)] /\ s \in 0..(N - 1)
  BY <1>0, RingAssumption DEF RingTypes
<1>3. /\ pc[r][b] = "gather_recv" /\ mail[r] # << >> /\ mail' = [mail EXCEPT ![r] = Tail(@)]
  BY DEF RecvChunk, At
<1>4. inn[r] \in Nat /\ out[r] \in Nat /\ Base(b) \in Nat /\ K \in Nat /\ K = 2 * (N - 1)
  BY BaseIs DEF K
<1>5. inn[r] = Base(b) + (N - 1) + s /\ out[r] = inn[r] + 1
  BY <1>1, <1>3 DEF Places, Place
<1>6. \A d \in 0..(N - 1) : data[r][b][Chunk(r, d)]
         = IF d < s \/ d = N - 1 THEN Whole(v, Chunk(r, d), b) ELSE Partial(r, d, b)
  BY <1>0, <1>3 DEF Buffers, Holds, Gathering
<1>7. c = Chunk(r, s) /\ c \in Chunks /\ GatherSend(Left(r), s) = c /\ Left(r) \in Ranks
  <2> HIDE DEF s
  <2>1. c = Chunk(r, s) /\ GatherSend(Left(r), s) = c
    BY <1>2, StepChunks
  <2>2. Chunk(r, s) \in Chunks
    BY <1>2, ChunkIs
  <2> QED
    BY <2>1, <2>2, Neighbours
<1>8. N + s \in 1..K /\ FrameAt(v, Left(r), b, N + s) = [len |-> ChunkLen(c), val |-> y]
  <2> HIDE DEF s, v, c
  <2>1. /\ N + s \in 1..K
        /\ FrameAt(v, Left(r), b, N + s)
              = [len |-> ChunkLen(GatherSend(Left(r), s)), val |-> Whole(v, GatherSend(Left(r), s), b)]
    BY <1>2, <1>7, FrameIs
  <2> QED
    BY <1>7, <2>1
<1>9. Head(mail[r]) = FrameAt(v, Left(r), b, N + s)
  <2>1. inn[r] + 1 = Base(b) + (N + s)
    <3>1. \A m, i, z \in Nat : (m + (z - 1) + i) + 1 = m + (z + i)
      OBVIOUS
    <3> QED
      BY <1>2, <1>4, <1>5, <3>1
  <2>2. mail \in [Ranks -> Seq(Frames)]
    BY <1>2
  <2>3. \A a \in Calls, k \in 1..K :
            inn[r] + 1 = Base(a) + k => Head(mail[r]) = FrameAt(variant, Left(r), a, k)
    BY <1>1, <1>3, <2>2, MailsTake
  <2> QED
    BY <1>8, <2>1, <2>3
<1>10. Head(mail[r]).len = ChunkLen(c) /\ Head(mail[r]).val = y
  BY <1>8, <1>9
<1>11. /\ Assigned(r, b, c, y)
       /\ IF s < N - 2 THEN Moves(r, b, "gather_send", s + 1)
                       ELSE Moves(r, b, last, 0)
  <2>1. ~(Head(mail[r]).len # ChunkLen(c))
    BY <1>10
  <2> QED
    BY <1>10, <2>1 DEF RecvChunk, Goto, Moves, Assigned
<1> HIDE DEF s, v, c, last
<1>12. y \in BufferValues
  BY <1>2, <1>7, ValuesTyped
<1>13. /\ data' \in [Ranks -> [Calls -> [Chunks -> BufferValues]]]
       /\ \A q \in Ranks, a \in Calls : ~(q = r /\ a = b) => data'[q][a] = data[q][a]
       /\ \A e \in Chunks : data'[r][b][e] = IF e = c THEN y ELSE data[r][b][e]
  <2> HIDE DEF y
  <2> QED
    BY <1>0, <1>7, <1>11, <1>12, ChunkSet
<1>14. ASSUME NEW d \in 0..(N - 1)
       PROVE  data'[r][b][Chunk(r, d)]
                = IF d < s + 1 \/ d = N - 1 THEN Whole(v, Chunk(r, d), b) ELSE Partial(r, d, b)
  <2>1. Chunk(r, d) \in Chunks /\ (Chunk(r, d) = c => d = s)
    BY <1>2, <1>7, ChunkIs
  <2>2. CASE d = s
    <3>1. d < s + 1
      BY <1>2, <2>2
    <3> QED
      BY <1>7, <1>13, <2>1, <2>2, <3>1
  <2>3. CASE d # s
    <3>1. (d < s) <=> (d < s + 1)
      BY <1>2, <2>3
    <3> QED
      BY <1>6, <1>13, <2>1, <2>3, <3>1
  <2> QED
    BY <2>2, <2>3
<1>15. Mails([inn EXCEPT ![r] = inn[r] + 1], out)' /\ mail' \in [Ranks -> Seq(Frames)]
  BY <1>1, <1>2, <1>3, MailsTake
<1>16. /\ inn[r] + 1 \in Nat /\ inn[r] =< inn[r] + 1 /\ inn[r] + 1 = out[r]
       /\ out[r] =< Base(b) + K
  BY <1>2, <1>4, <1>5
<1>17. CASE s < N - 2
  <2>1. s + 1 \in 0..(N - 2) /\ "gather_send" \in Labels /\ "gather_send" \in Gathering
    BY <1>2, <1>17 DEF Labels, Gathering
  <2>2. Place("gather_send", s + 1, b, inn[r] + 1, out[r])
    <3>1. inn[r] + 1 = Base(b) + (N - 1) + (s + 1)
      BY <1>2, <1>4, <1>5
    <3> QED
      BY <1>5, <3>1 DEF Place
  <2>3. \A d \in 0..(N - 1) : Holds(variant, "gather_send", s + 1, r, b, d, data'[r][b][Chunk(r, d)])
    BY <1>14 DEF Holds, Scattering, Gathering, v
  <2>4. Moves(r, b, "gather_send", s + 1)
    BY <1>11, <1>17
  <2> QED
    BY <1>0, <1>1, <1>3, <1>13, <1>15, <1>16, <2>1, <2>2, <2>3, <2>4, StepKept
<1>18. CASE ~(s < N - 2)
  <2>0. s + 1 = N - 1 /\ 0 \in 0..(N - 2)
    BY <1>2, <1>18
  <2>1. \A d \in 0..(N - 1) : data'[r][b][Chunk(r, d)] = Whole(v, Chunk(r, d), b)
    <3>1. \A d \in 0..(N - 1) : d < s + 1 \/ d = N - 1
      BY <1>2, <2>0
    <3> QED
      BY <1>14, <3>1
  <2>2. inn[r] + 1 = Base(b) + K /\ Base(b) + K =< inn[r] + 1
    <3>1. ASSUME NEW x \in Nat
          PROVE  x + (N - 1) + s + 1 = x + K
      BY <1>2, <1>4, <2>0
    <3>2. inn[r] + 1 = Base(b) + K
      BY <1>4, <1>5, <3>1
    <3> QED
      BY <1>4, <3>2
  <2>3. last \in Labels /\ last # "idle" /\ last # "own" /\ (last = "scale" => variant = "typed")
    BY DEF Labels, last, v
  <2>4. Place(last, 0, b, inn[r] + 1, out[r])
    BY <1>5, <2>2 DEF Place, last
  <2>5. ASSUME NEW d \in 0..(N - 1)
        PROVE  Holds(variant, last, 0, r, b, d, data'[r][b][Chunk(r, d)])
    <3>1. CASE v = "typed"
      <4>1. last = "scale"
        BY <3>1 DEF last
      <4> QED
        BY <2>1, <4>1 DEF Holds, Scattering, Gathering, v
    <3>2. CASE v # "typed"
      <4>1. last = "done" /\ Chunk(r, d) \in Chunks
        BY <3>2, ChunkIs DEF last
      <4>2. [Whole(v, Chunk(r, d), b) EXCEPT !.final = 1] = Whole(v, Chunk(r, d), b)
        BY <1>2, <3>2, <4>1, WholeIs DEF Variants
      <4> QED
        BY <2>1, <4>1, <4>2 DEF Holds, Scattering, Gathering, v
    <3> QED
      BY <3>1, <3>2
  <2>6. Moves(r, b, last, 0)
    BY <1>11, <1>18
  <2> QED
    BY <1>0, <1>1, <1>3, <1>13, <1>15, <1>16, <2>0, <2>3, <2>4, <2>5, <2>6, StepKept
<1> QED
  BY <1>17, <1>18

\* Finishing the owned chunk: the only one not the neighbours' to finish.
LEMMA OwnKept ==
    ASSUME RingInv, NEW r \in Ranks, NEW b \in Calls, variant' = variant, FinishOwned(r, b)
    PROVE  RingInv'
<1>0. RingTypes /\ InTurn /\ Buffers
  BY DEF RingInv
<1>1. PICK inn, out \in [Ranks -> Nat] : Places(inn, out) /\ Mails(inn, out)
  BY DEF RingInv
<1> DEFINE v == variant
           c == Owned(r)
           y == Whole(v, c, b)
<1>2. /\ v \in Variants /\ N \in Nat /\ N > 1 /\ 0 \in 0..(N - 2) /\ N - 1 \in 0..(N - 1)
      /\ mail \in [Ranks -> Seq(Frames)] /\ step \in [Ranks -> [Calls -> 0..(N - 2)]]
  BY <1>0, RingAssumption DEF RingTypes
<1>3. pc[r][b] = "own" /\ UNCHANGED <<step, mail>> /\ pc' = [pc EXCEPT ![r][b] = "gather_send"]
  BY DEF FinishOwned, At, Goto
<1>4. step[r][b] = 0 /\ v # "typed"
  BY <1>0, <1>3 DEF RingTypes, Scattering, Gathering
<1>5. inn[r] = Base(b) + (N - 1) /\ out[r] = inn[r]
  BY <1>1, <1>3 DEF Places, Place
<1>6. \A d \in 0..(N - 1) : data[r][b][Chunk(r, d)] = Partial(r, d, b)
  BY <1>0, <1>3 DEF Buffers, Holds
<1>7. c = Chunk(r, N - 1) /\ c \in Chunks
  BY <1>2, StepChunks, ChunkIs
<1>8. (IF v = "owned" THEN Update(Finalize(data[r][b][c])) ELSE Finalize(data[r][b][c])) = y
  BY <1>2, <1>4, <1>6, <1>7, WholeIs DEF Variants
<1>9. Assigned(r, b, c, y)
  BY <1>8 DEF FinishOwned, Assigned
<1> HIDE DEF v, c
<1>10. y \in BufferValues
  BY <1>2, <1>7, ValuesTyped
<1>11. /\ data' \in [Ranks -> [Calls -> [Chunks -> BufferValues]]]
       /\ \A q \in Ranks, a \in Calls : ~(q = r /\ a = b) => data'[q][a] = data[q][a]
       /\ \A e \in Chunks : data'[r][b][e] = IF e = c THEN y ELSE data[r][b][e]
  <2> HIDE DEF y
  <2> QED
    BY <1>0, <1>7, <1>9, <1>10, ChunkSet
<1>12. Moves(r, b, "gather_send", 0)
  <2>1. step' = [step EXCEPT ![r][b] = 0]
    BY <1>2, <1>3, <1>4
  <2> QED
    BY <1>3, <2>1 DEF Moves
<1>13. ASSUME NEW d \in 0..(N - 1)
       PROVE  Holds(variant, "gather_send", 0, r, b, d, data'[r][b][Chunk(r, d)])
  <2>1. Chunk(r, d) \in Chunks /\ (Chunk(r, d) = c => d = N - 1) /\ ~(d < 0)
    BY <1>2, <1>7, ChunkIs
  <2>2. data'[r][b][Chunk(r, d)]
          = IF d < 0 \/ d = N - 1 THEN Whole(v, Chunk(r, d), b) ELSE Partial(r, d, b)
    BY <1>6, <1>7, <1>11, <2>1
  <2> QED
    BY <2>2 DEF Holds, Scattering, Gathering, v
<1>14. /\ inn[r] \in Nat /\ out[r] \in Nat /\ Base(b) \in Nat /\ K \in Nat /\ N - 1 < K
  BY BaseIs
<1>15. /\ inn[r] =< inn[r] /\ inn[r] = out[r] /\ out[r] =< Base(b) + K
       /\ Place("gather_send", 0, b, inn[r], out[r])
  <2>1. inn[r] = Base(b) + (N - 1) + 0 /\ out[r] =< Base(b) + K /\ inn[r] =< inn[r]
    BY <1>2, <1>5, <1>14
  <2> QED
    BY <1>5, <2>1 DEF Place
<1>16. Mails([inn EXCEPT ![r] = inn[r]], out)' /\ mail' \in [Ranks -> Seq(Frames)]
  <2>1. [inn EXCEPT ![r] = inn[r]] = inn
    OBVIOUS
  <2>2. Mails(inn, out)'
    BY <1>1, <1>3 DEF Mails
  <2> QED
    BY <1>2, <1>3, <2>1, <2>2
<1>17. "gather_send" \in Labels /\ "gather_send" \in Gathering
  BY DEF Labels, Gathering
<1> QED
  BY <1>0, <1>1, <1>2, <1>3, <1>11, <1>12, <1>13, <1>14, <1>15, <1>16, <1>17, StepKept

\* Scaling the whole buffer.
LEMMA ScaleKept ==
    ASSUME RingInv, NEW r \in Ranks, NEW b \in Calls, variant' = variant, Scale(r, b)
    PROVE  RingInv'
<1>0. RingTypes /\ InTurn /\ Buffers
  BY DEF RingInv
<1>1. PICK inn, out \in [Ranks -> Nat] : Places(inn, out) /\ Mails(inn, out)
  BY DEF RingInv
<1>2. /\ variant \in Variants /\ N \in Nat /\ N > 1 /\ 0 \in 0..(N - 2)
      /\ mail \in [Ranks -> Seq(Frames)] /\ step \in [Ranks -> [Calls -> 0..(N - 2)]]
      /\ data \in [Ranks -> [Calls -> [Chunks -> BufferValues]]]
  BY <1>0, RingAssumption DEF RingTypes
<1>3. pc[r][b] = "scale" /\ UNCHANGED <<step, mail>> /\ pc' = [pc EXCEPT ![r][b] = "done"]
  BY DEF Scale, At, Goto
<1>4. step[r][b] = 0 /\ variant = "typed"
  BY <1>0, <1>3 DEF RingTypes, Scattering, Gathering
<1>5. inn[r] = Base(b) + K /\ out[r] = inn[r]
  BY <1>1, <1>3 DEF Places, Place
<1>6. \A d \in 0..(N - 1) : data[r][b][Chunk(r, d)] = Whole("typed", Chunk(r, d), b)
  <2>1. \A d \in 0..(N - 1) : Holds(variant, pc[r][b], step[r][b], r, b, d, data[r][b][Chunk(r, d)])
    BY <1>0 DEF Buffers
  <2> QED
    BY <1>3, <1>4, <2>1 DEF Holds
<1> DEFINE y == [c \in Chunks |-> Finalize(data[r][b][c])]
<1>7. y \in [Chunks -> BufferValues]
  <2>1. ASSUME NEW x \in BufferValues
        PROVE  Finalize(x) \in BufferValues
    <3>1. x.final + 1 \in Nat
      BY DEF BufferValues
    <3>2. ASSUME NEW q \in Nat
          PROVE  [x EXCEPT !.final = q] \in BufferValues
      BY DEF BufferValues
    <3> QED
      BY <3>1, <3>2 DEF Finalize
  <2>2. data[r][b] \in [Chunks -> BufferValues]
    BY <1>2
  <2> HIDE DEF BufferValues
  <2> QED
    BY <2>1, <2>2
<1>8. data' = [data EXCEPT ![r][b] = y]
  BY DEF Scale
<1>9. \A d \in 0..(N - 1) : y[Chunk(r, d)] = [Whole("typed", Chunk(r, d), b) EXCEPT !.final = 1]
  <2>1. \A d \in 0..(N - 1) : Chunk(r, d) \in Chunks
    BY ChunkIs
  <2>2. \A d \in 0..(N - 1) : y[Chunk(r, d)] = Finalize(Whole("typed", Chunk(r, d), b))
    BY <1>6, <2>1
  <2> QED
    BY <2>1, <2>2, WholeIs
<1> HIDE DEF y
<1>10. /\ data' \in [Ranks -> [Calls -> [Chunks -> BufferValues]]] /\ data'[r][b] = y
       /\ \A q \in Ranks, a \in Calls : ~(q = r /\ a = b) => data'[q][a] = data[q][a]
  <2> HIDE DEF BufferValues
  <2> QED
    BY <1>2, <1>7, <1>8
<1>11. Moves(r, b, "done", 0)
  <2>1. step' = [step EXCEPT ![r][b] = 0]
    BY <1>2, <1>3, <1>4
  <2> QED
    BY <1>3, <2>1 DEF Moves
<1>12. \A d \in 0..(N - 1) : Holds(variant, "done", 0, r, b, d, data'[r][b][Chunk(r, d)])
  BY <1>4, <1>9, <1>10 DEF Holds, Scattering, Gathering
<1>13. /\ inn[r] \in Nat /\ out[r] \in Nat /\ Base(b) \in Nat /\ K \in Nat
  BY BaseIs
<1>14. /\ inn[r] =< inn[r] /\ inn[r] = out[r] /\ out[r] =< Base(b) + K
       /\ Place("done", 0, b, inn[r], out[r])
  <2>1. Base(b) + K =< inn[r] /\ out[r] =< Base(b) + K /\ inn[r] =< inn[r]
    BY <1>5, <1>13
  <2> QED
    BY <1>5, <2>1 DEF Place
<1>15. Mails([inn EXCEPT ![r] = inn[r]], out)' /\ mail' \in [Ranks -> Seq(Frames)]
  <2>1. [inn EXCEPT ![r] = inn[r]] = inn
    OBVIOUS
  <2>2. Mails(inn, out)'
    BY <1>1, <1>3 DEF Mails
  <2> QED
    BY <1>2, <1>3, <2>1, <2>2
<1>16. "done" \in Labels
  BY DEF Labels
<1> QED
  BY <1>0, <1>1, <1>2, <1>3, <1>10, <1>11, <1>12, <1>13, <1>14, <1>15, <1>16, StepKept

-----------------------------------------------------------------------------
(* The invariant holds, whichever of the functions is called.              *)

LEMMA RingInit == Init => RingInv
<1> SUFFICES ASSUME Init
             PROVE  RingInv
  OBVIOUS
<1>1. N \in Nat /\ N > 1 /\ 0 \in 0..(N - 2) /\ 0 \in 0..(N - 1)
  BY RingAssumption
<1>2. \A r \in Ranks, b \in Calls : Input(r, b) = Partial(r, 0, b) /\ Partial(r, 0, b) \in BufferValues
  BY <1>1, InputIs, ValuesTyped
<1>3. RingTypes
  <2>1. \A r \in Ranks, b \in Calls : Input(r, b) \in BufferValues
    BY <1>2
  <2> HIDE DEF BufferValues
  <2>2. data \in [Ranks -> [Calls -> [Chunks -> BufferValues]]]
    BY <2>1 DEF Init
  <2>3. mail \in [Ranks -> Seq(Frames)]
    BY DEF Init
  <2>4. pc \in [Ranks -> [Calls -> Labels]] /\ step \in [Ranks -> [Calls -> 0..(N - 2)]]
    BY <1>1 DEF Init, Labels
  <2> QED
    BY <2>2, <2>3, <2>4 DEF RingTypes, Init
<1>4. InTurn
  BY DEF InTurn, Init
<1>5. Buffers
  <2> SUFFICES ASSUME NEW r \in Ranks, NEW b \in Calls, NEW d \in 0..(N - 1)
               PROVE  Holds(variant, pc[r][b], step[r][b], r, b, d, data[r][b][Chunk(r, d)])
    BY DEF Buffers
  <2>1. pc[r][b] = "idle" /\ step[r][b] = 0
    BY DEF Init
  <2>2. data[r][b][Chunk(r, d)] = Partial(r, 0, b)
    <3>1. Chunk(r, d) \in Chunks
      BY ChunkIs
    <3> QED
      BY <1>2, <3>1 DEF Init
  <2>3. (IF d =< 0 THEN d ELSE 0) = 0
    BY <1>1
  <2> QED
    BY <2>1, <2>2, <2>3 DEF Holds, Scattering, Gathering
<1> DEFINE zero == [r \in Ranks |-> 0]
<1>6. Places(zero, zero)
  <2>1. \A r \in Ranks, b \in Calls : Place("idle", step[r][b], b, 0, 0)
    <3>1. \A b \in Calls : 0 =< Base(b)
      BY BaseIs
    <3> QED
      BY <3>1 DEF Place
  <2>2. \A r \in Ranks, b \in Calls : pc[r][b] = "idle"
    BY DEF Init
  <2> QED
    BY <2>1, <2>2 DEF Places
<1>7. Mails(zero, zero)
  <2>1. \A r \in Ranks : Left(r) \in Ranks /\ Len(mail[r]) = 0
    BY Neighbours DEF Init
  <2>2. ASSUME NEW r \in Ranks
        PROVE  zero[Left(r)] - zero[r] = 0 /\ 1..Len(mail[r]) = {}
    BY <2>1
  <2> HIDE DEF zero
  <2> QED
    BY <2>1, <2>2 DEF Mails
<1>8. zero \in [Ranks -> Nat]
  OBVIOUS
<1> QED
  BY <1>3, <1>4, <1>5, <1>6, <1>7, <1>8 DEF RingInv

LEMMA RingStep ==
    ASSUME ~Overlap
    PROVE  RingInv /\ [Next]_vars => RingInv'
<1> SUFFICES ASSUME RingInv, [Next]_vars
             PROVE  RingInv'
  OBVIOUS
<1>1. CASE UNCHANGED vars
  <2>1. RingTypes' /\ InTurn' /\ Buffers'
    BY <1>1 DEF vars, RingInv, RingTypes, InTurn, Buffers
  <2>2. \A inn, out \in [Ranks -> Nat] : /\ Places(inn, out) => Places(inn, out)'
                                         /\ Mails(inn, out) => Mails(inn, out)'
    BY <1>1 DEF vars, Places, Mails
  <2> QED
    BY <2>1, <2>2 DEF RingInv
<1>2. CASE Next
  <2>1. PICK r \in Ranks, b \in Calls : Step(r, b)
    BY <1>2 DEF Next
  <2>2. variant' = variant
    BY <2>1 DEF Step
  <2>3. CASE Start(r, b)
    BY <2>2, <2>3, StartKept
  <2>4. CASE Scatter(r, b)
    BY <2>2, <2>4, SendKept, ScatterKept DEF Scatter
  <2>5. CASE FinishOwned(r, b)
    BY <2>2, <2>5, OwnKept
  <2>6. CASE Gather(r, b)
    BY <2>2, <2>6, SendKept, GatherKept DEF Gather
  <2>7. CASE Scale(r, b)
    BY <2>2, <2>7, ScaleKept
  <2> QED
    BY <2>1, <2>3, <2>4, <2>5, <2>6, <2>7 DEF Step
<1> QED
  BY <1>1, <1>2

\* What the invariant says of a mailbox: the next frame, and how far the ranks are apart.
LEMMA NextFrame ==
    ASSUME NEW inn \in [Ranks -> Nat], NEW out \in [Ranks -> Nat], Mails(inn, out),
           mail \in [Ranks -> Seq(Frames)], NEW r \in Ranks, mail[r] # << >>,
           NEW b \in Calls, NEW k \in 1..K, inn[r] + 1 = Base(b) + k
    PROVE  Head(mail[r]) = FrameAt(variant, Left(r), b, k)
<1> HIDE DEF Frames
<1>1. Head(mail[r]) = mail[r][1] /\ Len(mail[r]) \in Nat \ {0}
  BY QueueTake
<1>2. 1 \in 1..Len(mail[r])
  BY <1>1
<1> QED
  BY <1>1, <1>2 DEF Mails

LEMMA Apart ==
    ASSUME NEW inn \in [Ranks -> Nat], NEW out \in [Ranks -> Nat], Mails(inn, out),
           Places(inn, out), mail \in [Ranks -> Seq(Frames)]
    PROVE  \A r \in Ranks, j \in 0..(N - 1) : out[r] =< out[Chunk(r, j)] + j
<1>1. ASSUME NEW q \in Ranks
      PROVE  out[q] =< out[Left(q)] + 1
  <2>1. Len(mail[q]) \in Nat /\ Len(mail[q]) = out[Left(q)] - inn[q] /\ out[q] =< inn[q] + 1
    BY DEF Mails, Places
  <2>2. out[q] \in Nat /\ inn[q] \in Nat /\ out[Left(q)] \in Nat
    BY Neighbours
  <2>3. ASSUME NEW x \in Nat, NEW y \in Nat, NEW z \in Nat, x - y \in Nat, z =< y + 1
        PROVE  z =< x + 1
    BY <2>3
  <2> QED
    BY <2>1, <2>2, <2>3
<1> QED
  BY <1>1, Around

-----------------------------------------------------------------------------
(* What the callers rely on.                                               *)

\* A call returns on a rank only when every rank has entered it.
EnteredFirst ==
    \A r \in Ranks, b \in Calls :
        pc[r][b] = "done" => \A q \in Ranks : pc[q][b] # "idle"

LEMMA InvTagSafe == RingInv => SingleTagSafe
<1> SUFFICES ASSUME RingInv, NEW r \in Ranks, NEW b \in Calls
             PROVE  /\ pc[r][b] # "error"
                    /\ (pc[r][b] = "scatter_recv" /\ mail[r] # << >>) =>
                          Head(mail[r]).val.fold
                             = [i \in 1..(step[r][b] + 1) |-> <<(r + N - i) % N, b>>]
                    /\ (pc[r][b] = "gather_recv" /\ mail[r] # << >>) =>
                          Head(mail[r]).val.fold = Reduced(b)[GatherRecv(r, step[r][b])].fold
  BY DEF SingleTagSafe, At
<1>1. PICK inn, out \in [Ranks -> Nat] : Places(inn, out) /\ Mails(inn, out)
  BY DEF RingInv
<1> DEFINE s == step[r][b]
           v == variant
<1>2. /\ s \in 0..(N - 2) /\ v \in Variants /\ N \in Nat /\ N > 1 /\ s \in Nat
      /\ mail \in [Ranks -> Seq(Frames)] /\ pc[r][b] \in Labels /\ Left(r) \in Ranks
  BY RingAssumption, Neighbours DEF RingInv, RingTypes
<1>3. pc[r][b] # "error"
  BY <1>2 DEF Labels, Scattering, Gathering
<1>4. inn[r] \in Nat /\ Base(b) \in Nat /\ Place(pc[r][b], s, b, inn[r], out[r])
  BY <1>1, BaseIs DEF Places
<1>5. /\ s + 1 \in 1..K /\ N + s \in 1..K
      /\ FrameAt(v, Left(r), b, s + 1) = [len |-> ChunkLen(ScatterSend(Left(r), s)),
                                          val |-> Partial(Left(r), s, b)]
      /\ FrameAt(v, Left(r), b, N + s) = [len |-> ChunkLen(GatherSend(Left(r), s)),
                                          val |-> Whole(v, GatherSend(Left(r), s), b)]
  BY <1>2, FrameIs
<1>6. GatherSend(Left(r), s) = GatherRecv(r, s)
  BY <1>2, StepChunks
<1> HIDE DEF s
<1>7. ASSUME pc[r][b] = "scatter_recv", mail[r] # << >>
      PROVE  Head(mail[r]).val.fold = [i \in 1..(s + 1) |-> <<(r + N - i) % N, b>>]
  <2>1. inn[r] + 1 = Base(b) + (s + 1)
    BY <1>2, <1>4, <1>7 DEF Place
  <2>2. Head(mail[r]) = FrameAt(v, Left(r), b, s + 1)
    BY <1>1, <1>2, <1>5, <1>7, <2>1, NextFrame
  <2>3. Head(mail[r]).val.fold = Chain(Left(r), s + 1, b)
    BY <1>5, <2>2 DEF Partial, Value
  <2>4. ASSUME NEW i \in 1..(s + 1)
        PROVE  Chain(Left(r), s + 1, b)[i] = <<(r + N - i) % N, b>>
    <3>1. i - 1 \in 0..(N - 2) /\ s + 1 \in 1..N /\ (i - 1) + 1 = i
      BY <1>2
    <3>2. Chain(Left(r), s + 1, b)[i] = <<Chunk(Left(r), i - 1), b>>
      BY <1>2, <3>1, ChainIs
    <3>3. Chunk(Left(r), i - 1) = ScatterSend(Left(r), i - 1)
      BY <1>2, <3>1, StepChunks
    <3>4. ScatterSend(Left(r), i - 1) = Chunk(r, (i - 1) + 1)
      BY <3>1, StepChunks
    <3> QED
      BY <3>1, <3>2, <3>3, <3>4 DEF Chunk
  <2>5. Chain(Left(r), s + 1, b) = [i \in 1..(s + 1) |-> Chain(Left(r), s + 1, b)[i]]
    BY DEF Chain
  <2> QED
    BY <2>3, <2>4, <2>5
<1>8. ASSUME pc[r][b] = "gather_recv", mail[r] # << >>
      PROVE  Head(mail[r]).val.fold = Reduced(b)[GatherRecv(r, s)].fold
  <2>1. inn[r] + 1 = Base(b) + (N + s)
    BY <1>2, <1>4, <1>8 DEF Place
  <2>2. Head(mail[r]) = FrameAt(v, Left(r), b, N + s)
    BY <1>1, <1>2, <1>5, <1>8, <2>1, NextFrame
  <2> QED
    BY <1>5, <1>6, <2>2 DEF Whole
<1> QED
  BY <1>3, <1>7, <1>8 DEF s

LEMMA InvBounded == RingInv => MailBounded
<1> SUFFICES ASSUME RingInv, NEW r \in Ranks
             PROVE  Len(mail[r]) =< N
  BY DEF MailBounded
<1>1. PICK inn, out \in [Ranks -> Nat] : Places(inn, out) /\ Mails(inn, out)
  BY DEF RingInv
<1>2. /\ N \in Nat /\ N > 1 /\ N - 1 \in 0..(N - 1) /\ mail \in [Ranks -> Seq(Frames)]
      /\ Left(r) \in Ranks
  BY RingAssumption, Neighbours DEF RingInv, RingTypes
<1>3. Chunk(Left(r), N - 1) = r
  <2>1. Owned(Left(r)) = Chunk(Left(r), N - 1) /\ 0 \in 0..(N - 2)
    BY <1>2, StepChunks
  <2>2. Owned(Left(r)) = Right(Left(r))
    BY DEF Owned, Right
  <2> QED
    BY <2>1, <2>2, Neighbours
<1>4. out[Left(r)] =< out[r] + (N - 1)
  BY <1>1, <1>2, <1>3, Apart
<1>5. Len(mail[r]) = out[Left(r)] - inn[r] /\ out[r] =< inn[r] + 1
  BY <1>1 DEF Mails, Places
<1>6. out[Left(r)] \in Nat /\ out[r] \in Nat /\ inn[r] \in Nat
  BY <1>2
<1> QED
  BY <1>2, <1>4, <1>5, <1>6

LEMMA InvResults == RingInv => ResultsRight
<1> SUFFICES ASSUME RingInv, NEW r \in Ranks, NEW b \in Calls, pc[r][b] = "done"
             PROVE  /\ Returned(r, b) = Reduced(b)
                    /\ \A c \in Chunks : data[r][b][c].updated = IF variant = "owned" THEN 1 ELSE 0
  BY DEF ResultsRight, At
<1>1. ASSUME NEW c \in Chunks
      PROVE  /\ data[r][b][c].fold = Reduced(b)[c].fold /\ data[r][b][c].final = 1
             /\ data[r][b][c].updated = IF variant = "owned" THEN 1 ELSE 0
  <2>1. PICK d \in 0..(N - 1) : c = Chunk(r, d)
    BY EveryChunk
  <2>2. Holds(variant, pc[r][b], step[r][b], r, b, d, data[r][b][Chunk(r, d)])
    BY DEF RingInv, Buffers
  <2>3. data[r][b][c] = [Whole(variant, c, b) EXCEPT !.final = 1]
    BY <2>1, <2>2 DEF Holds
  <2> QED
    BY <2>3 DEF Whole
<1>2. Reduced(b) = [c \in Chunks |-> [fold |-> Reduced(b)[c].fold, final |-> 1]]
  BY DEF Reduced
<1> QED
  BY <1>1, <1>2 DEF Returned

LEMMA InvEntered == RingInv => EnteredFirst
<1> SUFFICES ASSUME RingInv, NEW r \in Ranks, NEW b \in Calls, pc[r][b] = "done",
                    NEW q \in Ranks, pc[q][b] = "idle"
             PROVE  FALSE
  BY DEF EnteredFirst
<1>1. PICK inn, out \in [Ranks -> Nat] : Places(inn, out) /\ Mails(inn, out)
  BY DEF RingInv
<1>2. N \in Nat /\ N > 1 /\ mail \in [Ranks -> Seq(Frames)] /\ q \in Chunks
  BY RingAssumption DEF RingInv, RingTypes, Ranks, Chunks
<1>3. PICK j \in 0..(N - 1) : q = Chunk(r, j)
  BY <1>2, EveryChunk
<1>4. out[r] =< out[q] + j
  BY <1>1, <1>2, <1>3, Apart
<1>5. Base(b) + K =< inn[r] /\ inn[r] =< out[r] /\ out[q] =< Base(b)
  BY <1>1 DEF Places, Place
<1>6. inn[r] \in Nat /\ out[r] \in Nat /\ out[q] \in Nat /\ Base(b) \in Nat /\ K \in Nat /\ N - 1 < K
  BY BaseIs
<1> QED
  BY <1>2, <1>4, <1>5, <1>6

\* For any number of ranks, of elements and of calls made one after the other: no
\* receive meets a frame of another length, and the frame a rank takes is the one its
\* call, phase and step wait for, though all calls share one tag.
THEOREM TagIsSafe == ~Overlap => (Spec => []SingleTagSafe)
<1> SUFFICES ASSUME ~Overlap
             PROVE  Spec => []SingleTagSafe
  OBVIOUS
<1>1. RingInv /\ [Next]_vars => RingInv'
  BY RingStep
<1> QED
  BY <1>1, RingInit, InvTagSafe, PTL DEF Spec

\* A mailbox never holds more than n frames: what the unbounded inbox of a rank grows
\* to is set by the ring, not by how long the rank is busy.
THEOREM MailIsBounded == ~Overlap => (Spec => []MailBounded)
<1> SUFFICES ASSUME ~Overlap
             PROVE  Spec => []MailBounded
  OBVIOUS
<1>1. RingInv /\ [Next]_vars => RingInv'
  BY RingStep
<1> QED
  BY <1>1, RingInit, InvBounded, PTL DEF Spec

\* A call that has returned left the reduction of every rank's input, in the order that
\* is the same on every rank, finalized once, and the optimizer's update in it once.
THEOREM ReducedEverywhere == ~Overlap => (Spec => []ResultsRight)
<1> SUFFICES ASSUME ~Overlap
             PROVE  Spec => []ResultsRight
  OBVIOUS
<1>1. RingInv /\ [Next]_vars => RingInv'
  BY RingStep
<1> QED
  BY <1>1, RingInit, InvResults, PTL DEF Spec

-----------------------------------------------------------------------------
(* The ring implements AllReduce.                                          *)

\* What the abstract specification sees of a step: one call of one rank moves on.
LEMMA StepSeen ==
    ASSUME RingInv, NEW r \in Ranks, NEW b \in Calls, Step(r, b)
    PROVE  /\ pc[r][b] # "done" /\ pc'[r][b] # "idle"
           /\ pc[r][b] = "idle" => pc'[r][b] = "scatter_send"
           /\ \A q \in Ranks, a \in Calls :
                 ~(q = r /\ a = b) => pc'[q][a] = pc[q][a] /\ data'[q][a] = data[q][a]
<1>1. pc \in [Ranks -> [Calls -> Labels]] /\ data \in [Ranks -> [Calls -> [Chunks -> BufferValues]]]
  BY DEF RingInv, RingTypes
<1>2. ASSUME NEW x, NEW from, Goto(r, b, x), At(r, b, from), from # "done", x # "idle",
             from = "idle" => x = "scatter_send",
             \/ data' = data
             \/ \E y : data' = [data EXCEPT ![r][b] = y]
      PROVE  /\ pc[r][b] # "done" /\ pc'[r][b] # "idle"
             /\ pc[r][b] = "idle" => pc'[r][b] = "scatter_send"
             /\ \A q \in Ranks, a \in Calls :
                   ~(q = r /\ a = b) => pc'[q][a] = pc[q][a] /\ data'[q][a] = data[q][a]
  <2>1. pc'[r][b] = x /\ pc[r][b] = from
        /\ \A q \in Ranks, a \in Calls : ~(q = r /\ a = b) => pc'[q][a] = pc[q][a]
    BY <1>1, <1>2 DEF Goto, At
  <2>2. \A q \in Ranks, a \in Calls : ~(q = r /\ a = b) => data'[q][a] = data[q][a]
    <3> HIDE DEF BufferValues
    <3> QED
      BY <1>1, <1>2
  <2> QED
    BY <1>2, <2>1, <2>2
<1>3. ASSUME NEW c, NEW y
      PROVE  [data EXCEPT ![r][b][c] = y] = [data EXCEPT ![r][b] = [data[r][b] EXCEPT ![c] = y]]
  <2> HIDE DEF BufferValues
  <2> QED
    BY <1>1
<1>4. CASE Start(r, b)
  BY <1>2, <1>4 DEF Start
<1>5. ASSUME NEW from \in {"scatter_send", "gather_send"}, NEW c,
             NEW x \in {"scatter_recv", "gather_recv"}, SendChunk(r, b, from, c, x)
      PROVE  Goto(r, b, x) /\ At(r, b, from) /\ data' = data
  BY <1>5 DEF SendChunk
<1>6. ASSUME NEW from \in {"scatter_recv", "gather_recv"}, NEW c, NEW y,
             NEW x \in {"scatter_send", "gather_send"},
             NEW z \in {"own", "gather_send", "scale", "done"}, RecvChunk(r, b, from, c, y, x, z)
      PROVE  /\ At(r, b, from) /\ \E l \in {"error", x, z} : Goto(r, b, l)
             /\ \/ data' = data
                \/ \E w : data' = [data EXCEPT ![r][b] = w]
  <2>1. At(r, b, from)
    BY <1>6 DEF RecvChunk
  <2>2. CASE Head(mail[r]).len # ChunkLen(c)
    BY <1>6, <2>1, <2>2 DEF RecvChunk
  <2>3. CASE ~(Head(mail[r]).len # ChunkLen(c))
    <3>1. data' = [data EXCEPT ![r][b][c] = y] /\ (Goto(r, b, x) \/ Goto(r, b, z))
      BY <1>6, <2>3 DEF RecvChunk
    <3>2. \E w : data' = [data EXCEPT ![r][b] = w]
      BY <1>3, <3>1
    <3> QED
      BY <2>1, <3>1, <3>2
  <2> QED
    BY <2>2, <2>3
<1>7. CASE Scatter(r, b)
  <2>1. CASE SendChunk(r, b, "scatter_send", ScatterSend(r, step[r][b]), "scatter_recv")
    BY <1>2, <1>5, <2>1
  <2>2. CASE RecvChunk(r, b, "scatter_recv", ScatterRecv(r, step[r][b]),
                       Combine(data[r][b][ScatterRecv(r, step[r][b])], Head(mail[r]).val),
                       "scatter_send", IF variant = "typed" THEN "gather_send" ELSE "own")
    BY <1>2, <1>6, <2>2
  <2> QED
    BY <1>7, <2>1, <2>2 DEF Scatter
<1>8. CASE FinishOwned(r, b)
  <2>1. Goto(r, b, "gather_send") /\ At(r, b, "own")
    BY <1>8 DEF FinishOwned
  <2>2. \E y : data' = [data EXCEPT ![r][b][Owned(r)] = y]
    BY <1>8 DEF FinishOwned
  <2>3. \E y : data' = [data EXCEPT ![r][b] = y]
    BY <1>3, <2>2
  <2> QED
    BY <1>2, <2>1, <2>3
<1>9. CASE Gather(r, b)
  <2>1. CASE SendChunk(r, b, "gather_send", GatherSend(r, step[r][b]), "gather_recv")
    BY <1>2, <1>5, <2>1
  <2>2. CASE RecvChunk(r, b, "gather_recv", GatherRecv(r, step[r][b]), Head(mail[r]).val,
                       "gather_send", IF variant = "typed" THEN "scale" ELSE "done")
    BY <1>2, <1>6, <2>2
  <2> QED
    BY <1>9, <2>1, <2>2 DEF Gather
<1>10. CASE Scale(r, b)
  <2>1. Goto(r, b, "done") /\ At(r, b, "scale")
    BY <1>10 DEF Scale
  <2>2. \E y : data' = [data EXCEPT ![r][b] = y]
    BY <1>10 DEF Scale
  <2> QED
    BY <1>2, <2>1, <2>2
<1> QED
  BY <1>4, <1>7, <1>8, <1>9, <1>10 DEF Step

\* The variables of AllReduce, seen through the ring.
Entered == [r \in Ranks |-> {b \in Calls : pc[r][b] # "idle"}]
Result == [r \in Ranks |-> [b \in Calls |->
              IF pc[r][b] = "done" THEN Returned(r, b) ELSE << >>]]

LEMMA AbstractStep ==
    ASSUME RingInv, EnteredFirst', ResultsRight', NEW r \in Ranks, NEW b \in Calls, Step(r, b)
    PROVE  \/ /\ b \notin Entered[r]
              /\ Entered' = [Entered EXCEPT ![r] = @ \cup {b}]
              /\ Result' = Result
           \/ /\ Result[r][b] = << >>
              /\ \A q \in Ranks : b \in Entered[q]
              /\ Result' = [Result EXCEPT ![r][b] = Reduced(b)]
              /\ Entered' = Entered
           \/ Entered' = Entered /\ Result' = Result
<1>1. /\ pc[r][b] # "done" /\ pc'[r][b] # "idle"
      /\ pc[r][b] = "idle" => pc'[r][b] = "scatter_send"
      /\ \A q \in Ranks, a \in Calls :
            ~(q = r /\ a = b) => pc'[q][a] = pc[q][a] /\ data'[q][a] = data[q][a]
  BY StepSeen
<1>2. ASSUME NEW q \in Ranks, NEW a \in Calls, ~(q = r /\ a = b)
      PROVE  (a \in Entered'[q] <=> a \in Entered[q]) /\ Result'[q][a] = Result[q][a]
  BY <1>1, <1>2 DEF Entered, Result, Returned
<1>3. b \in Entered'[r] /\ Result[r][b] = << >>
      /\ (b \in Entered[r] <=> pc[r][b] # "idle")
  BY <1>1 DEF Entered, Result
<1>4. /\ Entered = [q \in Ranks |-> Entered[q]] /\ Entered' = [q \in Ranks |-> Entered'[q]]
      /\ Result = [q \in Ranks |-> [a \in Calls |-> Result[q][a]]]
      /\ Result' = [q \in Ranks |-> [a \in Calls |-> Result'[q][a]]]
      /\ \A q \in Ranks : Entered[q] \subseteq Calls /\ Entered'[q] \subseteq Calls
  BY DEF Entered, Result
<1>5. pc'[r][b] # "done" => Result'[r][b] = << >>
  BY DEF Result
<1>6. pc'[r][b] = "done" => Result'[r][b] = Reduced(b) /\ \A q \in Ranks : b \in Entered'[q]
  BY DEF Result, ResultsRight, At, EnteredFirst, Entered
<1> HIDE DEF Entered, Result
<1>7. ASSUME pc[r][b] # "idle"
      PROVE  Entered' = Entered
  <2>1. \A q \in Ranks, a \in Calls : a \in Entered'[q] <=> a \in Entered[q]
    BY <1>2, <1>3, <1>7
  <2>2. \A q \in Ranks : Entered'[q] = Entered[q]
    BY <1>4, <2>1
  <2> QED
    BY <1>4, <2>2
<1>8. ASSUME pc'[r][b] # "done"
      PROVE  Result' = Result
  <2>1. \A q \in Ranks, a \in Calls : Result'[q][a] = Result[q][a]
    BY <1>2, <1>3, <1>5, <1>8
  <2> QED
    BY <1>4, <2>1
<1>9. CASE pc[r][b] = "idle"
  <2>1. \A q \in Ranks : Entered'[q] = IF q = r THEN Entered[q] \cup {b} ELSE Entered[q]
    BY <1>2, <1>3, <1>4
  <2>2. Entered' = [Entered EXCEPT ![r] = @ \cup {b}]
    BY <1>4, <2>1
  <2> QED
    BY <1>1, <1>3, <1>8, <1>9, <2>2
<1>10. CASE pc[r][b] # "idle" /\ pc'[r][b] = "done"
  <2>1. \A q \in Ranks, a \in Calls :
           Result'[q][a] = IF q = r /\ a = b THEN Reduced(b) ELSE Result[q][a]
    BY <1>2, <1>6, <1>10
  <2>2. Result' = [Result EXCEPT ![r][b] = Reduced(b)]
    BY <1>4, <2>1
  <2> QED
    BY <1>3, <1>6, <1>7, <1>10, <2>2
<1>11. CASE pc[r][b] # "idle" /\ pc'[r][b] # "done"
  BY <1>7, <1>8, <1>11
<1> QED
  BY <1>9, <1>10, <1>11

\* The ring all-reduce is an all-reduce, for any number of ranks, of elements and of
\* calls made one after the other: a call returns on a rank only when every rank has
\* entered it, and returns the same reduction on every rank.
THEOREM RingIsAllReduce == ~Overlap => (Spec => ImplementsAllReduce)
<1> SUFFICES ASSUME ~Overlap
             PROVE  Spec => ImplementsAllReduce
  OBVIOUS
<1>1. RingInv /\ [Next]_vars => RingInv'
  BY RingStep
<1>2. Init => AR!Init
  BY DEF Init, AR!Init
<1>3. ASSUME RingInv, EnteredFirst', ResultsRight', [Next]_vars
      PROVE  [AR!Next]_(AR!vars)
  <2>1. CASE UNCHANGED vars
    BY <2>1 DEF vars, AR!vars, Returned
  <2>2. CASE Next
    <3>1. PICK r \in Ranks, b \in Calls : Step(r, b)
      BY <2>2 DEF Next
    <3>2. [a \in Calls |-> Reduced(a)][b] = Reduced(b)
      OBVIOUS
    <3>3. CASE /\ b \notin Entered[r]
               /\ Entered' = [Entered EXCEPT ![r] = @ \cup {b}]
               /\ Result' = Result
      <4>1. AR!Enter(r, b)
        BY <3>3 DEF AR!Enter, Entered, Result
      <4> QED
        BY <4>1 DEF AR!Next
    <3>4. CASE /\ Result[r][b] = << >>
               /\ \A q \in Ranks : b \in Entered[q]
               /\ Result' = [Result EXCEPT ![r][b] = Reduced(b)]
               /\ Entered' = Entered
      <4>1. AR!Return(r, b)
        BY <3>2, <3>4 DEF AR!Return, Entered, Result
      <4> QED
        BY <4>1 DEF AR!Next
    <3>5. CASE Entered' = Entered /\ Result' = Result
      BY <3>5 DEF AR!vars, Entered, Result
    <3> QED
      BY <1>3, <3>1, <3>3, <3>4, <3>5, AbstractStep
  <2> QED
    BY <1>3, <2>1, <2>2
<1> QED
  BY <1>1, <1>2, <1>3, RingInit, InvEntered, InvResults, PTL DEF Spec, ImplementsAllReduce, AR!Spec

===============================================================================
