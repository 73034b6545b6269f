---------------------------- MODULE Messages_proofs ----------------------------
(***************************************************************************)
(* The messages between ranks.  First one rank's end of the TCP transport, *)
(* for any number of peers, tags and frames: what its readers put into the *)
(* inbox and its receives take out.  Then the collectives of ProcessGroup, *)
(* for any number of ranks and any schedule of calls: which frame each     *)
(* receive takes, and what the calls return.                               *)
(***************************************************************************)
EXTENDS NetTransport, Collectives, DataLemmas

-----------------------------------------------------------------------------
(* Frames in a row.  The frame a reader has in hand comes before those on  *)
(* the wire: together they are numbered from 0, hand first.                *)

\* How many frames of s came over connection c.
Count(s, c) == Cardinality({j \in 1..Len(s) : s[j].conn = c})

\* The frames of each connection are numbered from 1 in the order they are in s.
Numbered(s) ==
    \A i \in 1..Len(s) : s[i].n = 1 + Cardinality({j \in 1..(i - 1) : s[j].conn = s[i].conn})

Is(f, t) == f.kind = "SEND" /\ f.tag = t

Nth(f, w, i) == IF i = 0 THEN f ELSE w[i]

\* After lo frames of tag t, f and w hold the others up to the n-th, in order.
Continues(f, w, t, lo, n) ==
    /\ lo =< n
    /\ \A i \in 0..Len(w) : Is(Nth(f, w, i), t) => Nth(f, w, i).n \in (lo + 1)..n
    /\ \A i, j \in 0..Len(w) :
          i < j /\ Is(Nth(f, w, i), t) /\ Is(Nth(f, w, j), t)
             => Nth(f, w, i).n < Nth(f, w, j).n
    /\ \A m \in (lo + 1)..n : \E i \in 0..Len(w) : Is(Nth(f, w, i), t) /\ Nth(f, w, i).n = m

\* A frame more is counted for its connection.
LEMMA CountAppend ==
    ASSUME NEW S, NEW s \in Seq(S), NEW e \in S, NEW c
    PROVE  /\ Count(s, c) \in Nat
           /\ Count(Append(s, e), c) = Count(s, c) + (IF e.conn = c THEN 1 ELSE 0)
<1> DEFINE A == {j \in 1..Len(s) : s[j].conn = c}
           B == {j \in 1..Len(Append(s, e)) : Append(s, e)[j].conn = c}
<1>1. /\ Len(s) \in Nat /\ Len(Append(s, e)) = Len(s) + 1
      /\ \A i \in 1..Len(s) : Append(s, e)[i] = s[i]
      /\ Append(s, e)[Len(s) + 1] = e
  BY AppendProperties
<1>2. IsFiniteSet(A) /\ Cardinality(A) \in Nat
  <2>1. IsFiniteSet(1..Len(s))
    BY <1>1, FS_Interval
  <2> QED
    BY <2>1, FS_Subset, FS_CardinalityType
<1>3. B = IF e.conn = c THEN A \cup {Len(s) + 1} ELSE A
  <2>1. 1..Len(Append(s, e)) = 1..Len(s) \cup {Len(s) + 1}
    BY <1>1
  <2> QED
    BY <1>1, <2>1
<1>4. Len(s) + 1 \notin A
  BY <1>1
<1>5. Cardinality(A \cup {Len(s) + 1}) = Cardinality(A) + 1
  BY <1>2, <1>4, FS_AddElement
<1>6. Count(s, c) = Cardinality(A) /\ Count(Append(s, e), c) = Cardinality(B)
  BY DEF Count
<1> HIDE DEF A, B
<1>7. CASE e.conn = c
  BY <1>2, <1>3, <1>5, <1>6, <1>7
<1>8. CASE e.conn # c
  BY <1>2, <1>3, <1>6, <1>8
<1> QED
  BY <1>7, <1>8

LEMMA CountNat ==
    ASSUME NEW S, NEW s \in Seq(S), NEW c
    PROVE  Count(s, c) \in Nat
<1>1. Len(s) \in Nat
  OBVIOUS
<1>2. IsFiniteSet(1..Len(s))
  BY <1>1, FS_Interval
<1> QED
  BY <1>2, FS_Subset, FS_CardinalityType DEF Count

\* A frame that comes next for its connection leaves the row numbered.
LEMMA NumberedAppend ==
    ASSUME NEW S, NEW s \in Seq(S), NEW e \in S, Numbered(s), e.n = Count(s, e.conn) + 1
    PROVE  Numbered(Append(s, e))
<1>1. /\ Len(s) \in Nat /\ Len(Append(s, e)) = Len(s) + 1
      /\ \A i \in 1..Len(s) : Append(s, e)[i] = s[i]
      /\ Append(s, e)[Len(s) + 1] = e
  BY AppendProperties
<1> SUFFICES ASSUME NEW i \in 1..(Len(s) + 1)
             PROVE  Append(s, e)[i].n
                      = 1 + Cardinality({j \in 1..(i - 1) : Append(s, e)[j].conn = Append(s, e)[i].conn})
  BY <1>1 DEF Numbered
<1>2. \A j \in 1..(i - 1) : j \in 1..Len(s) /\ Append(s, e)[j] = s[j]
  BY <1>1
<1>3. CASE i \in 1..Len(s)
  <2>1. {j \in 1..(i - 1) : Append(s, e)[j].conn = Append(s, e)[i].conn}
          = {j \in 1..(i - 1) : s[j].conn = s[i].conn}
    BY <1>1, <1>2, <1>3
  <2> QED
    BY <1>1, <1>3, <2>1 DEF Numbered
<1>4. CASE i = Len(s) + 1
  <2>1. i - 1 = Len(s)
    BY <1>1, <1>4
  <2>2. {j \in 1..(i - 1) : Append(s, e)[j].conn = Append(s, e)[i].conn}
          = {j \in 1..Len(s) : s[j].conn = e.conn}
    BY <1>1, <1>2, <1>4, <2>1
  <2>3. Count(s, e.conn) \in Nat
    BY CountAppend
  <2>4. Append(s, e)[i].n = 1 + Count(s, e.conn)
    BY <1>1, <1>4, <2>3
  <2> QED
    BY <2>2, <2>4 DEF Count
<1>5. i \in 1..Len(s) \/ i = Len(s) + 1
  BY <1>1
<1> QED
  BY <1>3, <1>4, <1>5

\* When all frames came over one connection, all are counted.
LEMMA CountAll ==
    ASSUME NEW S, NEW s \in Seq(S), NEW c, \A i \in 1..Len(s) : s[i].conn = c
    PROVE  Count(s, c) = Len(s)
<1>1. {j \in 1..Len(s) : s[j].conn = c} = 1..Len(s)
  OBVIOUS
<1>2. Len(s) \in Nat
  OBVIOUS
<1>3. Cardinality(1..Len(s)) = Len(s)
  <2>1. Cardinality(1..Len(s)) = IF 1 > Len(s) THEN 0 ELSE Len(s) - 1 + 1
    BY <1>2, FS_Interval
  <2> QED
    BY <1>2, <2>1
<1> QED
  BY <1>1, <1>3 DEF Count

\* Sending: the next frame of tag t goes to the end.
LEMMA ContinuesSend ==
    ASSUME NEW S, NEW f, NEW w \in Seq(S), NEW e \in S, NEW t, NEW lo \in Nat, NEW n \in Nat,
           Continues(f, w, t, lo, n)
    PROVE  /\ ~Is(e, t) => Continues(f, Append(w, e), t, lo, n)
           /\ (Is(e, t) /\ e.n = n + 1) => Continues(f, Append(w, e), t, lo, n + 1)
<1> DEFINE v == Append(w, e)
           L == Len(w)
<1>1. L \in Nat /\ Len(v) = L + 1
  BY AppendProperties
<1>2. /\ \A i \in 0..L : Nth(f, v, i) = Nth(f, w, i)
      /\ Nth(f, v, L + 1) = e
  <2>1. /\ \A i \in 1..L : v[i] = w[i]
        /\ v[L + 1] = e
    BY AppendProperties
  <2>2. L + 1 # 0 /\ \A i \in 0..L : i # 0 => i \in 1..L
    BY <1>1
  <2> HIDE DEF v, L
  <2> QED
    BY <2>1, <2>2 DEF Nth
<1>3. /\ lo =< n
      /\ \A i \in 0..L : Is(Nth(f, w, i), t) => Nth(f, w, i).n \in (lo + 1)..n
      /\ \A i, j \in 0..L :
            i < j /\ Is(Nth(f, w, i), t) /\ Is(Nth(f, w, j), t)
               => Nth(f, w, i).n < Nth(f, w, j).n
      /\ \A m \in (lo + 1)..n : \E i \in 0..L : Is(Nth(f, w, i), t) /\ Nth(f, w, i).n = m
  BY DEF Continues
<1>4. \A i \in 0..(L + 1) : i \in 0..L \/ i = L + 1
  BY <1>1
<1>5. \A i \in 0..L : i \in 0..(L + 1)
  BY <1>1
<1>6. \A i \in 0..L : ~(L + 1 < i)
  BY <1>1
<1>7. L + 1 \in 0..(L + 1) /\ ~(L + 1 < L + 1)
  BY <1>1
<1> HIDE DEF v, L
<1>8. ASSUME ~Is(e, t)
      PROVE  Continues(f, v, t, lo, n)
  BY <1>1, <1>2, <1>3, <1>4, <1>5, <1>8 DEF Continues
<1>9. ASSUME Is(e, t), e.n = n + 1
      PROVE  Continues(f, v, t, lo, n + 1)
  <2>1. lo =< n + 1 /\ n + 1 \in (lo + 1)..(n + 1)
    BY <1>3
  <2>2. \A m \in (lo + 1)..n : m \in (lo + 1)..(n + 1) /\ m < n + 1
    OBVIOUS
  <2>3. \A m \in (lo + 1)..(n + 1) : m \in (lo + 1)..n \/ m = n + 1
    OBVIOUS
  <2>4. \A i \in 0..(L + 1) : Is(Nth(f, v, i), t) => Nth(f, v, i).n \in (lo + 1)..(n + 1)
    BY <1>2, <1>3, <1>4, <1>9, <2>1, <2>2
  <2>5. ASSUME NEW i \in 0..(L + 1), NEW j \in 0..(L + 1),
               i < j, Is(Nth(f, v, i), t), Is(Nth(f, v, j), t)
        PROVE  Nth(f, v, i).n < Nth(f, v, j).n
    <3>1. i \in 0..L
      BY <1>4, <1>6, <1>7, <2>5
    <3>2. CASE j \in 0..L
      BY <1>2, <1>3, <2>5, <3>1, <3>2
    <3>3. CASE j = L + 1
      <4>1. Nth(f, w, i).n \in (lo + 1)..n
        BY <1>2, <1>3, <2>5, <3>1
      <4> QED
        BY <1>2, <1>9, <2>2, <3>1, <3>3, <4>1
    <3> QED
      BY <1>4, <3>2, <3>3
  <2>6. \A m \in (lo + 1)..(n + 1) : \E i \in 0..(L + 1) : Is(Nth(f, v, i), t) /\ Nth(f, v, i).n = m
    <3> TAKE m \in (lo + 1)..(n + 1)
    <3>1. CASE m = n + 1
      BY <1>2, <1>7, <1>9, <3>1
    <3>2. CASE m \in (lo + 1)..n
      <4>1. PICK i \in 0..L : Is(Nth(f, w, i), t) /\ Nth(f, w, i).n = m
        BY <1>3, <3>2
      <4> QED
        BY <1>2, <1>5, <4>1
    <3> QED
      BY <2>3, <3>1, <3>2
  <2> QED
    BY <1>1, <2>1, <2>4, <2>5, <2>6 DEF Continues
<1> QED
  BY <1>8, <1>9 DEF v

\* Reading: the head of the wire goes into the empty hand.
LEMMA ContinuesRead ==
    ASSUME NEW S, NEW f, NEW w \in Seq(S), w # << >>, NEW t, NEW lo \in Nat, NEW n \in Nat,
           ~Is(f, t), Continues(f, w, t, lo, n)
    PROVE  Continues(Head(w), Tail(w), t, lo, n)
<1> DEFINE v == Tail(w)
           L == Len(v)
           g == Head(w)
<1>1. L \in Nat /\ Len(w) = L + 1
  BY HeadTailProperties, EmptySeq
<1>2. \A i \in 0..L : Nth(g, v, i) = Nth(f, w, i + 1)
  <2>1. g = w[1] /\ \A i \in 1..L : v[i] = w[i + 1]
    BY HeadTailProperties
  <2>2. \A i \in 0..L : i + 1 # 0 /\ (i # 0 => i \in 1..L) /\ (i = 0 => i + 1 = 1)
    BY <1>1
  <2> HIDE DEF v, L, g
  <2> QED
    BY <2>1, <2>2 DEF Nth
<1>3. \A i \in 0..L : i + 1 \in 0..(L + 1)
  BY <1>1
<1>4. \A i \in 0..(L + 1) : i = 0 \/ (i - 1 \in 0..L /\ (i - 1) + 1 = i)
  BY <1>1
<1>5. /\ lo =< n
      /\ \A i \in 0..(L + 1) : Is(Nth(f, w, i), t) => Nth(f, w, i).n \in (lo + 1)..n
      /\ \A i, j \in 0..(L + 1) :
            i < j /\ Is(Nth(f, w, i), t) /\ Is(Nth(f, w, j), t)
               => Nth(f, w, i).n < Nth(f, w, j).n
      /\ \A m \in (lo + 1)..n : \E i \in 0..(L + 1) : Is(Nth(f, w, i), t) /\ Nth(f, w, i).n = m
  BY <1>1 DEF Continues
<1>6. Nth(f, w, 0) = f
  BY DEF Nth
<1> HIDE DEF v, L, g
<1>7. \A m \in (lo + 1)..n : \E i \in 0..L : Is(Nth(g, v, i), t) /\ Nth(g, v, i).n = m
  <2> TAKE m \in (lo + 1)..n
  <2>1. PICK i \in 0..(L + 1) : Is(Nth(f, w, i), t) /\ Nth(f, w, i).n = m
    BY <1>5
  <2>2. i # 0
    BY <1>6, <2>1
  <2>3. i - 1 \in 0..L /\ (i - 1) + 1 = i
    BY <1>4, <2>2
  <2> QED
    BY <1>2, <2>1, <2>3
<1>8. \A i, j \in 0..L : i < j => i + 1 < j + 1
  BY <1>1
<1>9. \A i, j \in 0..L :
            i < j /\ Is(Nth(g, v, i), t) /\ Is(Nth(g, v, j), t)
               => Nth(g, v, i).n < Nth(g, v, j).n
  BY <1>2, <1>3, <1>5, <1>8
<1>10. \A i \in 0..L : Is(Nth(g, v, i), t) => Nth(g, v, i).n \in (lo + 1)..n
  BY <1>2, <1>3, <1>5
<1> QED
  BY <1>5, <1>7, <1>9, <1>10 DEF Continues, v, L, g

\* Dispatching: the frame in hand is the next of its tag, and the others come after it.
LEMMA ContinuesDispatch ==
    ASSUME NEW S, NEW f, NEW g, NEW w \in Seq(S), NEW t, NEW lo \in Nat, NEW n \in Nat,
           Continues(f, w, t, lo, n), ~Is(g, t)
    PROVE  /\ Is(f, t) => f.n = lo + 1 /\ Continues(g, w, t, lo + 1, n)
           /\ ~Is(f, t) => Continues(g, w, t, lo, n)
<1> DEFINE L == Len(w)
<1>1. L \in Nat
  OBVIOUS
<1>2. /\ \A i \in 1..L : Nth(g, w, i) = Nth(f, w, i)
      /\ Nth(f, w, 0) = f /\ Nth(g, w, 0) = g
  BY DEF Nth
<1>3. /\ lo =< n
      /\ \A i \in 0..L : Is(Nth(f, w, i), t) => Nth(f, w, i).n \in (lo + 1)..n
      /\ \A i, j \in 0..L :
            i < j /\ Is(Nth(f, w, i), t) /\ Is(Nth(f, w, j), t)
               => Nth(f, w, i).n < Nth(f, w, j).n
      /\ \A m \in (lo + 1)..n : \E i \in 0..L : Is(Nth(f, w, i), t) /\ Nth(f, w, i).n = m
  BY DEF Continues
<1>4. \A i \in 0..L : i = 0 \/ (i \in 1..L /\ 0 < i)
  BY <1>1
<1>5. 0 \in 0..L /\ \A i \in 1..L : i \in 0..L
  BY <1>1
<1> HIDE DEF L
<1>6. ASSUME ~Is(f, t)
      PROVE  Continues(g, w, t, lo, n)
  <2>1. \A i \in 0..L : /\ Is(Nth(g, w, i), t) <=> Is(Nth(f, w, i), t)
                        /\ Is(Nth(g, w, i), t) => Nth(g, w, i) = Nth(f, w, i)
    BY <1>2, <1>4, <1>6
  <2> QED
    BY <1>3, <2>1 DEF Continues, L
<1>7. ASSUME Is(f, t)
      PROVE  f.n = lo + 1 /\ Continues(g, w, t, lo + 1, n)
  <2>1. f.n \in (lo + 1)..n
    BY <1>2, <1>3, <1>5, <1>7
  <2>2. lo + 1 \in (lo + 1)..n
    BY <2>1
  <2>3. PICK i \in 0..L : Is(Nth(f, w, i), t) /\ Nth(f, w, i).n = lo + 1
    BY <1>3, <2>2
  <2>4. i = 0
    <3> SUFFICES ASSUME i # 0
                 PROVE  FALSE
      OBVIOUS
    <3>1. f.n < lo + 1
      BY <1>2, <1>3, <1>4, <1>5, <1>7, <2>3
    <3> QED
      BY <2>1, <3>1
  <2>5. f.n = lo + 1
    BY <1>2, <2>3, <2>4
  <2>6. \A j \in 0..L : Is(Nth(g, w, j), t) =>
           /\ j \in 1..L /\ Nth(g, w, j) = Nth(f, w, j) /\ 0 < j
           /\ Nth(g, w, j).n \in ((lo + 1) + 1)..n
    <3> SUFFICES ASSUME NEW j \in 0..L, Is(Nth(g, w, j), t)
                 PROVE  /\ j \in 1..L /\ Nth(g, w, j) = Nth(f, w, j) /\ 0 < j
                        /\ Nth(g, w, j).n \in ((lo + 1) + 1)..n
      OBVIOUS
    <3>1. j \in 1..L /\ 0 < j
      BY <1>2, <1>4
    <3>2. Nth(g, w, j) = Nth(f, w, j)
      BY <1>2, <3>1
    <3>3. Nth(f, w, j).n \in (lo + 1)..n /\ f.n < Nth(f, w, j).n
      BY <1>2, <1>3, <1>5, <1>7, <3>1, <3>2
    <3>4. Nth(f, w, j).n \in ((lo + 1) + 1)..n
      BY <2>5, <3>3
    <3> QED
      BY <3>1, <3>2, <3>4
  <2>7. \A m \in ((lo + 1) + 1)..n : \E j \in 0..L : Is(Nth(g, w, j), t) /\ Nth(g, w, j).n = m
    <3> TAKE m \in ((lo + 1) + 1)..n
    <3>1. m \in (lo + 1)..n /\ m # lo + 1
      OBVIOUS
    <3>2. PICK j \in 0..L : Is(Nth(f, w, j), t) /\ Nth(f, w, j).n = m
      BY <1>3, <3>1
    <3>3. j # 0
      BY <1>2, <2>5, <3>1, <3>2
    <3> QED
      BY <1>2, <1>4, <3>2, <3>3
  <2>8. lo + 1 =< n
    BY <2>2
  <2>9. \A a, b \in 0..L :
            a < b /\ Is(Nth(g, w, a), t) /\ Is(Nth(g, w, b), t)
               => Nth(g, w, a).n < Nth(g, w, b).n
    BY <1>3, <2>6
  <2>10. \A j \in 0..L : Is(Nth(g, w, j), t) => Nth(g, w, j).n \in ((lo + 1) + 1)..n
    BY <2>6
  <2> QED
    BY <2>5, <2>7, <2>8, <2>9, <2>10 DEF Continues, L
<1> QED
  BY <1>6, <1>7


-----------------------------------------------------------------------------
(* The state.                                                              *)

Phases  == {"dialing", "accepting", "up", "failed", "dropping", "down"}
Socks   == {"unborn", "queued", "open", "closed"}
Threads == {"none", "reading", "got", "fresh", "replying", "ending",
            "marking", "notifying", "done"}

\* What a peer sends but for messages.
NotSends == {GetResp} \cup Asks

\* The steps of the reader threads, a response the peer takes included.
ReaderMoves(c) == ReaderStep(c) \/ PeerTakesAnswer(c)

\* The receive or get under way, if any: whom it asks and for which tag.
AppTyped ==
    /\ app = [pc |-> app.pc, res |-> app.res, from |-> app.from, tag |-> app.tag,
              expired |-> app.expired]
    /\ app.pc \in {"start", "checked", "parking", "asleep"} \/ app.res = "lost" =>
          app.from \in Peers /\ app.tag \in Tags

NetTypes ==
    /\ setup \in Setups
    /\ phase \in Phases
    /\ expect \subseteq Peers /\ accepted \in Nat
    /\ sock \in [Conns -> Socks]
    /\ cut \in [Conns -> BOOLEAN]
    /\ wire \in [Conns -> Seq(Sent \cup NotSends)]
    /\ sent \in [Conns -> [Tags -> Nat]]
    /\ writers \in [Peers -> {NoConn, 1, 2}]
    /\ connGen \in [Peers -> Nat]
    /\ lost \in [Peers -> BOOLEAN]
    /\ reader \in [Conns -> Threads]
    /\ mine \in [Conns -> Nat]
    /\ hand \in [Conns -> Sent \cup NotSends \cup {NoFrame}]
    /\ inbox \in [Peers -> [Tags -> Seq(Sent)]]
    /\ got \in [Peers -> [Tags -> Seq(Sent)]]
    /\ AppTyped

\* A connection belongs to a peer.
LEMMA ConnPeer ==
    /\ \A c \in Conns : Peer(c) \in Peers /\ c[2] \in {1, 2} /\ c = <<Peer(c), c[2]>>
    /\ \A p \in Peers : <<p, 1>> \in Conns /\ <<p, 2>> \in Conns
    /\ \A p \in Peers : Peer(<<p, 1>>) = p /\ Peer(<<p, 2>>) = p
BY DEF Conns, Peer

\* The steps that set up connections keep the types.
LEMMA ConstructTypes == NetTypes /\ Construct => NetTypes'
<1> SUFFICES ASSUME NetTypes, Construct
             PROVE  NetTypes'
  OBVIOUS
<1>1. ASSUME NEW p \in Dialed, Dial(p)
      PROVE  NetTypes'
  <2>1. p \in Peers
    BY <1>1, ConstantsAssumption DEF NetTypes, Dialed, Setup
  <2>2. <<p, 1>> \in Conns
    BY <2>1, ConnPeer
  <2>3. /\ sock' = [sock EXCEPT ![<<p, 1>>] = "open"]
        /\ reader' = [reader EXCEPT ![<<p, 1>>] = "reading"]
        /\ writers' = [writers EXCEPT ![p] = 1]
        /\ UNCHANGED <<setup, phase, expect, accepted, cut, wire, sent, connGen, lost, mine,
                       hand, inbox, got, app>>
    BY <1>1 DEF Dial, ctorVars, boxVars, appVars
  <2>4. /\ sock' \in [Conns -> Socks] /\ reader' \in [Conns -> Threads]
        /\ writers' \in [Peers -> {NoConn, 1, 2}]
    BY <2>1, <2>2, <2>3 DEF NetTypes, Socks, Threads
  <2> QED
    BY <2>3, <2>4 DEF NetTypes, AppTyped
<1>2. ASSUME NEW c \in Conns, AcceptMesh(c)
      PROVE  NetTypes'
  <2> DEFINE p == Peer(c)
  <2>1. p \in Peers /\ c[2] \in {1, 2}
    BY ConnPeer
  <2>2. /\ expect' = expect \ {p}
        /\ phase' = (IF expect' = {} THEN "up" ELSE phase)
        /\ connGen' = [connGen EXCEPT ![p] = connGen[p] + 1]
        /\ lost' = [lost EXCEPT ![p] = FALSE]
        /\ writers' = [writers EXCEPT ![p] = c[2]]
        /\ cut' = IF writers[p] = NoConn THEN cut ELSE [cut EXCEPT ![<<p, writers[p]>>] = TRUE]
        /\ reader' = [reader EXCEPT ![c] = "reading"]
        /\ mine' = [mine EXCEPT ![c] = connGen[p] + 1]
        /\ sock' = [sock EXCEPT ![c] = Established(c)]
        /\ UNCHANGED <<setup, accepted, wire, sent, hand, inbox, got, app>>
    BY <1>2 DEF AcceptMesh, boxVars, appVars
  <2>3. Established(c) \in Socks
    BY DEF Established, Socks
  <2>4. /\ expect' \subseteq Peers /\ phase' \in Phases
    BY <2>2 DEF NetTypes, Phases
  <2>5. /\ connGen' \in [Peers -> Nat] /\ lost' \in [Peers -> BOOLEAN]
        /\ writers' \in [Peers -> {NoConn, 1, 2}]
    BY <2>1, <2>2 DEF NetTypes
  <2>6. /\ cut' \in [Conns -> BOOLEAN] /\ reader' \in [Conns -> Threads]
        /\ sock' \in [Conns -> Socks]
    BY <2>1, <2>2, <2>3 DEF NetTypes, Threads
  <2>7. mine' \in [Conns -> Nat]
    BY <2>1, <2>2 DEF NetTypes
  <2> QED
    BY <2>2, <2>4, <2>5, <2>6, <2>7 DEF NetTypes, AppTyped
<1>3. ASSUME NEW c \in Conns, AcceptStar(c)
      PROVE  NetTypes'
  <2> DEFINE p == Peer(c)
  <2>1. p \in Peers /\ c[2] \in {1, 2}
    BY ConnPeer
  <2>2. /\ accepted' = accepted + 1
        /\ phase' = (IF accepted' = Cardinality(Peers) THEN "up" ELSE phase)
        /\ writers' = [writers EXCEPT ![p] = c[2]]
        /\ reader' = [reader EXCEPT ![c] = "reading"]
        /\ sock' = [sock EXCEPT ![c] = Established(c)]
        /\ UNCHANGED <<setup, expect, cut, wire, sent, connGen, lost, mine, hand, inbox, got, app>>
    BY <1>3 DEF AcceptStar, boxVars, appVars
  <2>3. Established(c) \in Socks
    BY DEF Established, Socks
  <2>4. accepted' \in Nat /\ phase' \in Phases
    BY <2>2 DEF NetTypes, Phases
  <2>5. /\ writers' \in [Peers -> {NoConn, 1, 2}] /\ reader' \in [Conns -> Threads]
        /\ sock' \in [Conns -> Socks]
    BY <2>1, <2>2, <2>3 DEF NetTypes, Threads
  <2> QED
    BY <2>2, <2>4, <2>5 DEF NetTypes, AppTyped
<1>4. ASSUME NEW c \in Conns, HelloFails(c)
      PROVE  NetTypes'
  <2>1. /\ reader' = [reader EXCEPT ![c] = "done"]
        /\ phase' = IF setup.star THEN "failed" ELSE phase
        /\ UNCHANGED <<setup, expect, accepted, sock, cut, wire, sent, writers, connGen, lost,
                       mine, hand, inbox, got, app>>
    BY <1>4 DEF HelloFails, ctorVars, connVars, linkVars, boxVars, appVars
  <2>2. reader' \in [Conns -> Threads] /\ phase' \in Phases
    BY <2>1 DEF NetTypes, Threads, Phases
  <2> QED
    BY <2>1, <2>2 DEF NetTypes, AppTyped
<1>5. CASE DialFails \/ StartAccepting
  <2>1. /\ phase' \in {"failed", "up", "accepting"}
        /\ UNCHANGED <<setup, expect, accepted, sock, cut, wire, sent, writers, connGen, lost,
                       reader, mine, hand, inbox, got, app>>
    BY <1>5 DEF DialFails, StartAccepting, ctorVars, connVars, linkVars, readerVars, boxVars,
                appVars
  <2> QED
    BY <2>1 DEF NetTypes, AppTyped, Phases
<1> QED
  BY <1>1, <1>2, <1>3, <1>4, <1>5 DEF Construct

\* So do the steps of the peers.
LEMMA PeerTypes ==
    ASSUME NetTypes, NEW c \in Conns, PeerStep(c)
    PROVE  NetTypes'
<1>1. CASE PeerConnects(c) \/ PeerCloses(c)
  <2>1. /\ sock' = [sock EXCEPT ![c] = "queued"] \/ sock' = [sock EXCEPT ![c] = "closed"]
        /\ UNCHANGED <<setup, phase, expect, accepted, cut, wire, sent, writers, connGen, lost,
                       reader, mine, hand, inbox, got, app>>
    BY <1>1 DEF PeerConnects, PeerCloses, ctorVars, linkVars, readerVars, boxVars, appVars
  <2>2. sock' \in [Conns -> Socks]
    BY <2>1 DEF NetTypes, Socks
  <2> QED
    BY <2>1, <2>2 DEF NetTypes, AppTyped
<1>2. ASSUME NEW t \in Tags, PeerSends(c, t)
      PROVE  NetTypes'
  <2>1. /\ sent' = [sent EXCEPT ![c][t] = sent[c][t] + 1]
        /\ wire' = [wire EXCEPT ![c] = Append(wire[c], Frame(c, t, sent[c][t] + 1))]
        /\ UNCHANGED <<setup, phase, expect, accepted, sock, cut, writers, connGen, lost,
                       reader, mine, hand, inbox, got, app>>
    BY <1>2 DEF PeerSends, ctorVars, linkVars, readerVars, boxVars, appVars
  <2>2. sent[c][t] \in Nat
    BY <1>2 DEF NetTypes
  <2>3. Frame(c, t, sent[c][t] + 1) \in Sent
    BY <2>2 DEF Frame, Sent
  <2>4. wire' \in [Conns -> Seq(Sent \cup NotSends)]
    BY <2>1, <2>3 DEF NetTypes
  <2>5. sent' \in [Conns -> [Tags -> Nat]]
    BY <2>1, <2>2 DEF NetTypes
  <2> QED
    BY <2>1, <2>4, <2>5 DEF NetTypes, AppTyped
<1>3. CASE PeerAnswersGet(c)
  <2>1. /\ wire' = [wire EXCEPT ![c] = Append(wire[c], GetResp)]
        /\ UNCHANGED <<setup, phase, expect, accepted, sock, cut, sent, writers, connGen, lost,
                       reader, mine, hand, inbox, got, app>>
    BY <1>3 DEF PeerAnswersGet, ctorVars, linkVars, readerVars, appVars
  <2>2. wire' \in [Conns -> Seq(Sent \cup NotSends)]
    BY <2>1 DEF NetTypes, NotSends
  <2> QED
    BY <2>1, <2>2 DEF NetTypes, AppTyped
<1>4. ASSUME NEW f \in Asks, PeerAsks(c, f)
      PROVE  NetTypes'
  <2>1. /\ wire' = [wire EXCEPT ![c] = Append(wire[c], f)]
        /\ UNCHANGED <<setup, phase, expect, accepted, sock, cut, sent, writers, connGen, lost,
                       reader, mine, hand, inbox, got, app>>
    BY <1>4 DEF PeerAsks, ctorVars, linkVars, readerVars, boxVars, appVars
  <2>2. f \in NotSends
    BY DEF NotSends
  <2>3. wire' \in [Conns -> Seq(Sent \cup NotSends)]
    BY <2>1, <2>2 DEF NetTypes
  <2> QED
    BY <2>1, <2>3 DEF NetTypes, AppTyped
<1> QED
  BY <1>1, <1>2, <1>3, <1>4 DEF PeerStep


\* A woken receive is the same receive.
LEMMA NotifiedIs ==
    ASSUME AppTyped, app' = Notified
    PROVE  /\ AppTyped'
           /\ app'.res = app.res /\ app'.from = app.from /\ app'.tag = app.tag
           /\ app'.pc = (IF app.pc = "asleep" THEN "start" ELSE app.pc)
<1>1. CASE app.pc = "asleep"
  <2> DEFINE a == app
  <2>1. app' = [app EXCEPT !.pc = "start"]
    BY <1>1 DEF Notified
  <2>2. app' = [pc |-> "start", res |-> app.res, from |-> app.from, tag |-> app.tag,
                expired |-> app.expired]
    BY <2>1 DEF AppTyped
  <2> QED
    BY <1>1, <2>2 DEF AppTyped
<1>2. CASE app.pc # "asleep"
  BY <1>2 DEF Notified, AppTyped
<1> QED
  BY <1>1, <1>2

\* What dispatch does with a message: it is queued under its tag.
LEMMA DispatchIs ==
    ASSUME NetTypes, NEW c \in Conns, Dispatch(c), hand[c].kind = "SEND"
    PROVE  /\ hand[c] \in Sent /\ hand[c].tag \in Tags /\ Peer(c) \in Peers
           /\ inbox' \in [Peers -> [Tags -> Seq(Sent)]]
           /\ \A p \in Peers, t \in Tags :
                 inbox'[p][t] = IF p = Peer(c) /\ t = hand[c].tag
                                THEN Append(inbox[p][t], hand[c]) ELSE inbox[p][t]
<1>1. Peer(c) \in Peers
  BY ConnPeer
<1>2. hand[c] \in Sent
  <2>1. hand[c] \in Sent \cup NotSends \cup {NoFrame}
    BY DEF NetTypes
  <2>2. NoFrame.kind # "SEND" /\ \A x \in NotSends : x.kind # "SEND"
    BY DEF NotSends, Asks, GetResp, NoFrame
  <2> QED
    BY <2>1, <2>2
<1>3. hand[c].tag \in Tags
  BY <1>2 DEF Sent
<1>4. inbox' = [inbox EXCEPT ![Peer(c)][hand[c].tag] = Append(inbox[Peer(c)][hand[c].tag], hand[c])]
  BY DEF Dispatch
<1>5. inbox \in [Peers -> [Tags -> Seq(Sent)]]
  BY DEF NetTypes
<1>6. Append(inbox[Peer(c)][hand[c].tag], hand[c]) \in Seq(Sent)
  BY <1>1, <1>2, <1>3, <1>5
<1> HIDE DEF Sent
<1> QED
  BY <1>1, <1>2, <1>3, <1>4, <1>5, <1>6

\* The reader threads keep the types.
LEMMA ReaderTypes ==
    ASSUME NetTypes, NEW c \in Conns, ReaderMoves(c)
    PROVE  NetTypes'
<1>0. Peer(c) \in Peers
  BY ConnPeer
<1>1. CASE Read(c)
  <2>1. /\ wire[c] # << >>
        /\ reader' = [reader EXCEPT ![c] = "got"]
        /\ hand' = [hand EXCEPT ![c] = Head(wire[c])]
        /\ wire' = [wire EXCEPT ![c] = Tail(wire[c])]
        /\ UNCHANGED <<setup, phase, expect, accepted, sock, cut, sent, writers, connGen, lost,
                       mine, inbox, got, app>>
    BY <1>1 DEF Read, ReaderGoes, ctorVars, linkVars, boxVars, appVars
  <2>2. wire[c] \in Seq(Sent \cup NotSends)
    BY DEF NetTypes
  <2>3. Head(wire[c]) \in Sent \cup NotSends /\ Tail(wire[c]) \in Seq(Sent \cup NotSends)
    BY <2>1, <2>2
  <2>4. /\ wire' \in [Conns -> Seq(Sent \cup NotSends)]
        /\ hand' \in [Conns -> Sent \cup NotSends \cup {NoFrame}]
    BY <2>1, <2>3 DEF NetTypes
  <2>5. reader' \in [Conns -> Threads]
    BY <2>1 DEF NetTypes, Threads
  <2> QED
    BY <2>1, <2>4, <2>5 DEF NetTypes, AppTyped
<1>2. CASE ReadFails(c) \/ CheckGen(c) \/ EndCheck(c)
  <2>1. /\ \E to \in Threads : reader' = [reader EXCEPT ![c] = to]
        /\ UNCHANGED <<setup, phase, expect, accepted, sock, cut, wire, sent, writers, connGen,
                       lost, mine, hand, inbox, got, app>>
    BY <1>2 DEF ReadFails, CheckGen, EndCheck, ReaderGoes, ctorVars, connVars, linkVars,
                boxVars, appVars, Threads
  <2>2. reader' \in [Conns -> Threads]
    BY <2>1 DEF NetTypes
  <2> QED
    BY <2>1, <2>2 DEF NetTypes, AppTyped
<1>3. CASE MarkLost(c)
  <2>1. /\ reader' = [reader EXCEPT ![c] = "notifying"]
        /\ lost' = [lost EXCEPT ![Peer(c)] = TRUE]
        /\ UNCHANGED <<setup, phase, expect, accepted, sock, cut, wire, sent, writers, connGen,
                       mine, hand, inbox, got, app>>
    BY <1>3 DEF MarkLost, ReaderGoes, ctorVars, connVars, boxVars, appVars
  <2>2. reader' \in [Conns -> Threads] /\ lost' \in [Peers -> BOOLEAN]
    BY <1>0, <2>1 DEF NetTypes, Threads
  <2> QED
    BY <2>1, <2>2 DEF NetTypes, AppTyped
<1>4. CASE NotifyLost(c)
  <2>1. /\ reader' = [reader EXCEPT ![c] = "done"] /\ app' = Notified
        /\ UNCHANGED <<setup, phase, expect, accepted, sock, cut, wire, sent, writers, connGen,
                       lost, mine, hand, inbox, got>>
    BY <1>4 DEF NotifyLost, ReaderGoes, ctorVars, connVars, linkVars, boxVars
  <2>2. reader' \in [Conns -> Threads]
    BY <2>1 DEF NetTypes, Threads
  <2>3. AppTyped'
    BY <2>1, NotifiedIs DEF NetTypes
  <2> QED
    BY <2>1, <2>2, <2>3 DEF NetTypes
<1>5. CASE Dispatch(c)
  <2>1. /\ \E to \in Threads : reader' = [reader EXCEPT ![c] = to]
        /\ hand' = [hand EXCEPT ![c] = NoFrame]
        /\ app' = Notified \/ app' = app
        /\ UNCHANGED <<setup, phase, expect, accepted, sock, cut, wire, sent, writers, connGen,
                       lost, mine, got>>
    BY <1>5 DEF Dispatch, AfterFrame, ReaderGoes, ctorVars, connVars, linkVars, Threads
  <2>2. reader' \in [Conns -> Threads] /\ hand' \in [Conns -> Sent \cup NotSends \cup {NoFrame}]
    BY <2>1 DEF NetTypes
  <2>3. AppTyped'
    BY <2>1, NotifiedIs DEF NetTypes, AppTyped
  <2>4. inbox' \in [Peers -> [Tags -> Seq(Sent)]]
    <3>1. CASE hand[c].kind = "SEND"
      BY <1>5, <3>1, DispatchIs
    <3>2. CASE hand[c].kind # "SEND"
      BY <1>5, <3>2 DEF Dispatch, NetTypes
    <3> QED
      BY <3>1, <3>2
  <2> QED
    BY <2>1, <2>2, <2>3, <2>4 DEF NetTypes
<1>6. CASE Answer(c)
  <2>1. /\ reader' = [reader EXCEPT ![c] = "replying"]
        /\ UNCHANGED <<setup, phase, expect, accepted, sock, cut, wire, sent, writers, connGen,
                       lost, mine, hand, inbox, got, app>>
    BY <1>6 DEF Answer, ReaderGoes, ctorVars, connVars, linkVars, boxVars, appVars
  <2>2. reader' \in [Conns -> Threads]
    BY <2>1 DEF NetTypes, Threads
  <2> QED
    BY <2>1, <2>2 DEF NetTypes, AppTyped
<1>7. CASE Answered(c)
  <2>1. /\ \E to \in Threads : reader' = [reader EXCEPT ![c] = to]
        /\ hand' = [hand EXCEPT ![c] = NoFrame]
        /\ UNCHANGED <<setup, phase, expect, accepted, sock, cut, wire, sent, writers, connGen,
                       lost, mine, inbox, got, app>>
    BY <1>7 DEF Answered, AfterFrame, ReaderGoes, ctorVars, connVars, linkVars, boxVars, appVars,
                Threads
  <2>2. reader' \in [Conns -> Threads] /\ hand' \in [Conns -> Sent \cup NotSends \cup {NoFrame}]
    BY <2>1 DEF NetTypes
  <2> QED
    BY <2>1, <2>2 DEF NetTypes, AppTyped
<1> QED
  BY <1>1, <1>2, <1>3, <1>4, <1>5, <1>6, <1>7
     DEF ReaderMoves, ReaderStep, PeerTakesAnswer, AnswerFails

\* What a receive takes is the head of the queue, and it is what it returns.
LEMMA TakeIs ==
    ASSUME NetTypes, RecvTake, inbox[app.from][app.tag] # << >>
    PROVE  /\ app.from \in Peers /\ app.tag \in Tags
           /\ Head(inbox[app.from][app.tag]) \in Sent
           /\ inbox' \in [Peers -> [Tags -> Seq(Sent)]]
           /\ got' \in [Peers -> [Tags -> Seq(Sent)]]
           /\ \A p \in Peers, t \in Tags :
                 /\ inbox'[p][t] = IF p = app.from /\ t = app.tag
                                   THEN Tail(inbox[p][t]) ELSE inbox[p][t]
                 /\ got'[p][t] = IF p = app.from /\ t = app.tag
                                 THEN Append(got[p][t], Head(inbox[p][t])) ELSE got[p][t]
<1> DEFINE q == app.from
           u == app.tag
<1>1. q \in Peers /\ u \in Tags
  BY DEF RecvTake, NetTypes, AppTyped
<1>2. /\ got' = [got EXCEPT ![q][u] = Append(got[q][u], Head(inbox[q][u]))]
      /\ inbox' = [inbox EXCEPT ![q][u] = Tail(inbox[q][u])]
  BY DEF RecvTake
<1>3. inbox \in [Peers -> [Tags -> Seq(Sent)]] /\ got \in [Peers -> [Tags -> Seq(Sent)]]
  BY DEF NetTypes
<1> HIDE DEF Sent, q, u
<1>4. inbox[q][u] \in Seq(Sent) /\ got[q][u] \in Seq(Sent) /\ inbox[q][u] # << >>
  BY <1>1, <1>3 DEF q, u
<1>5. Head(inbox[q][u]) \in Sent /\ Tail(inbox[q][u]) \in Seq(Sent)
  BY <1>4
<1>6. Append(got[q][u], Head(inbox[q][u])) \in Seq(Sent)
  BY <1>4, <1>5
<1>7. /\ inbox' \in [Peers -> [Tags -> Seq(Sent)]] /\ got' \in [Peers -> [Tags -> Seq(Sent)]]
      /\ \A p \in Peers, t \in Tags :
            /\ inbox'[p][t] = IF p = q /\ t = u THEN Tail(inbox[p][t]) ELSE inbox[p][t]
            /\ got'[p][t] = IF p = q /\ t = u THEN Append(got[p][t], Head(inbox[p][t])) ELSE got[p][t]
  BY <1>1, <1>2, <1>3, <1>5, <1>6
<1> QED
  BY <1>1, <1>5, <1>7 DEF q, u

\* The application's steps keep the types.
LEMMA AppTypes == NetTypes /\ (AppCall \/ AppStep \/ DeadlinePasses) => NetTypes'
<1> SUFFICES ASSUME NetTypes, AppCall \/ AppStep \/ DeadlinePasses
             PROVE  NetTypes'
  OBVIOUS
<1>0. AppTyped
  BY DEF NetTypes
<1>1. UNCHANGED <<setup, phase, expect, accepted, sock, cut, wire, sent, writers, connGen,
                  lost, reader, mine, hand>>
  BY DEF AppCall, AppStep, DeadlinePasses, GetCall, RecvCall, RecvTake, RecvCheck, RecvWait,
         GetTake, ctorVars, connVars, linkVars, readerVars
<1>2. AppTyped'
  <2>1. ASSUME NEW p \in Peers, GetCall(p) \/ \E t \in Tags : RecvCall(p, t)
        PROVE  AppTyped'
    BY <2>1 DEF GetCall, RecvCall, Idle, AppTyped
  <2>2. CASE RecvTake
    <3>1. app' = Idle("ok", app.from, app.tag) \/ app' = [app EXCEPT !.pc = "checked"]
      BY <2>2 DEF RecvTake
    <3>2. app.pc = "start"
      BY <2>2 DEF RecvTake
    <3> QED
      BY <1>0, <3>1, <3>2 DEF AppTyped, Idle
  <2>3. CASE RecvCheck
    <3>1. \/ \E res : app' = Idle(res, app.from, app.tag)
          \/ app' = [app EXCEPT !.pc = "parking"]
      BY <2>3 DEF RecvCheck, NetTypes
    <3>2. app.pc = "checked"
      BY <2>3 DEF RecvCheck
    <3> QED
      BY <1>0, <3>1, <3>2 DEF AppTyped, Idle
  <2>4. CASE RecvWait \/ DeadlinePasses
    <3>1. \/ app' = [app EXCEPT !.pc = "asleep"]
          \/ app' = [app EXCEPT !.pc = "start", !.expired = TRUE]
      BY <2>4 DEF RecvWait, DeadlinePasses
    <3>2. app.pc \in {"parking", "asleep"}
      BY <2>4 DEF RecvWait, DeadlinePasses
    <3> QED
      BY <1>0, <3>1, <3>2 DEF AppTyped
  <2>5. CASE GetTake
    BY <2>5 DEF GetTake, Idle, AppTyped
  <2> QED
    BY <2>1, <2>2, <2>3, <2>4, <2>5 DEF AppCall, AppStep
<1>3. inbox' \in [Peers -> [Tags -> Seq(Sent)]] /\ got' \in [Peers -> [Tags -> Seq(Sent)]]
  <2>1. CASE RecvTake /\ inbox[app.from][app.tag] # << >>
    BY <2>1, TakeIs
  <2>2. CASE ~(RecvTake /\ inbox[app.from][app.tag] # << >>)
    BY <2>2 DEF AppCall, AppStep, DeadlinePasses, GetCall, RecvCall, RecvTake, RecvCheck,
                RecvWait, GetTake, boxVars, NetTypes
  <2> QED
    BY <2>1, <2>2
<1> QED
  BY <1>1, <1>2, <1>3 DEF NetTypes

\* The state of this end is well typed, whatever its peers do.
LEMMA TypesKept == NetTypes /\ [Next]_vars => NetTypes'
<1> SUFFICES ASSUME NetTypes, [Next]_vars
             PROVE  NetTypes'
  OBVIOUS
<1>1. CASE Drop \/ DropStep
  <2>1. /\ phase' \in {"dropping", "down"}
        /\ \/ cut' = cut
           \/ \E p \in Peers :
                 cut' = [c \in Conns |-> cut[c] \/ (Peer(c) = p /\ writers[p] = c[2])]
        /\ UNCHANGED <<setup, expect, accepted, sock, wire, sent, writers, connGen, lost,
                       reader, mine, hand, inbox, got, app>>
    BY <1>1 DEF Drop, DropStep, Joined, ShutDown, ctorVars, connVars, linkVars, readerVars,
                boxVars, appVars
  <2>2. cut' \in [Conns -> BOOLEAN]
    BY <2>1 DEF NetTypes
  <2> QED
    BY <2>1, <2>2 DEF NetTypes, AppTyped, Phases
<1>2. CASE UNCHANGED vars
  BY <1>2 DEF vars, ctorVars, connVars, linkVars, readerVars, boxVars, appVars, NetTypes, AppTyped
<1> QED
  BY <1>1, <1>2, ConstructTypes, PeerTypes, ReaderTypes, AppTypes DEF ReaderMoves, Next


-----------------------------------------------------------------------------
(* The connections.                                                        *)

\* How the tables of connections, readers and generations agree.  A rank that has
\* connected once has the reader of the current generation, and its socket is cut
\* only by Drop.
Wired ==
    /\ \A c \in Conns : reader[c] # "none" => sock[c] # "unborn"
    /\ \A p \in Peers : writers[p] # NoConn => reader[<<p, writers[p]>>] # "none"
    /\ \A p \in Peers : ~Again(p) => connGen[p] = mine[<<p, 1>>]
    /\ \A p \in Peers : ~Again(p) /\ cut[<<p, 1>>] => phase \in {"dropping", "down"}
    /\ phase = "down" => \A c \in Conns : reader[c] \in {"none", "done"}

\* A connection, its reader and a peer's writer once there are there.
LEMMA NothingUnborn ==
    ASSUME NetTypes, [Next]_vars
    PROVE  /\ \A c \in Conns : sock'[c] = "unborn" => sock[c] = "unborn"
           /\ \A c \in Conns : reader'[c] = "none" => reader[c] = "none"
           /\ \A p \in Peers : writers'[p] = NoConn => writers[p] = NoConn
           /\ \A p \in Peers : ~Again(p)' => ~Again(p)
<1>1. \A c \in Conns : sock'[c] = "unborn" => sock[c] = "unborn"
  <2>1. \/ sock' = sock
        \/ \E d \in Conns : \E x \in {"queued", "open", "closed"} : sock' = [sock EXCEPT ![d] = x]
    <3>1. ASSUME NEW p \in Dialed, Dial(p)
          PROVE  sock' = [sock EXCEPT ![<<p, 1>>] = "open"] /\ <<p, 1>> \in Conns
      <4>1. p \in Peers
        BY <3>1, ConstantsAssumption DEF NetTypes, Dialed, Setup
      <4> QED
        BY <3>1, <4>1, ConnPeer DEF Dial
    <3>2. ASSUME NEW c \in Conns, AcceptMesh(c) \/ AcceptStar(c)
          PROVE  \E x \in {"queued", "open", "closed"} : sock' = [sock EXCEPT ![c] = x]
      BY <3>2 DEF AcceptMesh, AcceptStar, Established
    <3>3. ASSUME NEW c \in Conns, PeerConnects(c) \/ PeerCloses(c)
          PROVE  \E x \in {"queued", "open", "closed"} : sock' = [sock EXCEPT ![c] = x]
      BY <3>3 DEF PeerConnects, PeerCloses
    <3>4. ASSUME NEW c \in Conns, \/ PeerAnswersGet(c) \/ (\E t \in Tags : PeerSends(c, t))
                                  \/ (\E f \in Asks : PeerAsks(c, f))
                                  \/ ReaderMoves(c) \/ HelloFails(c)
          PROVE  sock' = sock
      BY <3>4 DEF PeerAnswersGet, PeerSends, PeerAsks, ReaderMoves, ReaderStep,
                  PeerTakesAnswer, Read, ReadFails, CheckGen, Dispatch, Answer, AnswerFails,
                  Answered, EndCheck, MarkLost, NotifyLost, HelloFails, connVars
    <3>5. CASE DialFails \/ StartAccepting \/ AppCall \/ AppStep \/ DeadlinePasses \/ Drop
                  \/ DropStep \/ UNCHANGED vars
      BY <3>5 DEF DialFails, StartAccepting, AppCall, GetCall, RecvCall, AppStep, RecvTake,
                  RecvCheck, RecvWait, GetTake, DeadlinePasses, Drop, DropStep, Joined,
                  ShutDown, connVars, vars
    <3> QED
      BY <3>1, <3>2, <3>3, <3>4, <3>5 DEF ReaderMoves, Next, PeerStep, Construct
  <2> QED
    BY <2>1 DEF NetTypes
<1>2. \A c \in Conns : reader'[c] = "none" => reader[c] = "none"
  <2>1. \/ reader' = reader
        \/ \E d \in Conns : \E x \in Threads \ {"none"} : reader' = [reader EXCEPT ![d] = x]
    <3>1. ASSUME NEW p \in Dialed, Dial(p)
          PROVE  reader' = [reader EXCEPT ![<<p, 1>>] = "reading"] /\ <<p, 1>> \in Conns
      <4>1. p \in Peers
        BY <3>1, ConstantsAssumption DEF NetTypes, Dialed, Setup
      <4> QED
        BY <3>1, <4>1, ConnPeer DEF Dial
    <3>2. ASSUME NEW c \in Conns, AcceptMesh(c) \/ AcceptStar(c) \/ HelloFails(c)
          PROVE  \E x \in {"reading", "done"} : reader' = [reader EXCEPT ![c] = x]
      BY <3>2 DEF AcceptMesh, AcceptStar, HelloFails
    <3>3. ASSUME NEW c \in Conns, ReaderMoves(c)
          PROVE  \E x \in Threads \ {"none"} : reader' = [reader EXCEPT ![c] = x]
      BY <3>3 DEF ReaderMoves, ReaderStep, PeerTakesAnswer, Read, ReadFails, CheckGen,
                  Dispatch, Answer, AnswerFails, Answered, EndCheck, MarkLost, NotifyLost,
                  AfterFrame, ReaderGoes, Threads
    <3>4. ASSUME NEW c \in Conns, PeerStep(c)
          PROVE  reader' = reader
      BY <3>4 DEF PeerStep, PeerConnects, PeerCloses, PeerAnswersGet, PeerSends, PeerAsks,
                  readerVars
    <3>5. CASE DialFails \/ StartAccepting \/ AppCall \/ AppStep \/ DeadlinePasses \/ Drop
                  \/ DropStep \/ UNCHANGED vars
      BY <3>5 DEF DialFails, StartAccepting, AppCall, GetCall, RecvCall, AppStep, RecvTake,
                  RecvCheck, RecvWait, GetTake, DeadlinePasses, Drop, DropStep, Joined,
                  ShutDown, readerVars, vars
    <3>6. {"reading", "done"} \subseteq Threads \ {"none"}
      BY DEF Threads
    <3> QED
      BY <3>1, <3>2, <3>3, <3>4, <3>5, <3>6 DEF ReaderMoves, Next, Construct
  <2> QED
    BY <2>1 DEF NetTypes
<1>3. \A p \in Peers : writers'[p] = NoConn => writers[p] = NoConn
  <2>1. \/ writers' = writers
        \/ \E q \in Peers : \E x \in {1, 2} : writers' = [writers EXCEPT ![q] = x]
    <3>1. ASSUME NEW p \in Dialed, Dial(p)
          PROVE  writers' = [writers EXCEPT ![p] = 1] /\ p \in Peers
      BY <3>1, ConstantsAssumption DEF NetTypes, Dialed, Setup, Dial
    <3>2. ASSUME NEW c \in Conns, AcceptMesh(c) \/ AcceptStar(c)
          PROVE  \E q \in Peers : \E x \in {1, 2} : writers' = [writers EXCEPT ![q] = x]
      <4>1. Peer(c) \in Peers /\ c[2] \in {1, 2}
        BY ConnPeer
      <4> QED
        BY <3>2, <4>1 DEF AcceptMesh, AcceptStar
    <3>3. ASSUME NEW c \in Conns, PeerStep(c) \/ ReaderMoves(c) \/ HelloFails(c)
          PROVE  writers' = writers
      BY <3>3 DEF PeerStep, PeerConnects, PeerCloses, PeerAnswersGet, PeerSends, PeerAsks,
                  ReaderMoves, ReaderStep, PeerTakesAnswer, Read, ReadFails, CheckGen,
                  Dispatch, Answer, AnswerFails,
                  Answered, EndCheck, MarkLost, NotifyLost, HelloFails, linkVars
    <3>5. CASE DialFails \/ StartAccepting \/ AppCall \/ AppStep \/ DeadlinePasses \/ Drop
                  \/ DropStep \/ UNCHANGED vars
      BY <3>5 DEF DialFails, StartAccepting, AppCall, GetCall, RecvCall, AppStep, RecvTake,
                  RecvCheck, RecvWait, GetTake, DeadlinePasses, Drop, DropStep, Joined,
                  ShutDown, linkVars, vars
    <3> QED
      BY <3>1, <3>2, <3>3, <3>5 DEF ReaderMoves, Next, Construct
  <2> QED
    BY <2>1 DEF NetTypes, NoConn
<1>4. \A p \in Peers : ~Again(p)' => ~Again(p)
  BY <1>1, ConnPeer DEF Again
<1> QED
  BY <1>1, <1>2, <1>3, <1>4


\* Every step keeps the tables in agreement.
LEMMA WiredKept ==
    ASSUME NetTypes, Wired, [Next]_vars
    PROVE  Wired'
<1>0. /\ sock \in [Conns -> Socks] /\ cut \in [Conns -> BOOLEAN]
      /\ writers \in [Peers -> {NoConn, 1, 2}] /\ connGen \in [Peers -> Nat]
      /\ reader \in [Conns -> Threads] /\ mine \in [Conns -> Nat]
  BY DEF NetTypes
<1>1. /\ \A c \in Conns : sock'[c] = "unborn" => sock[c] = "unborn"
      /\ \A c \in Conns : reader'[c] = "none" => reader[c] = "none"
      /\ \A p \in Peers : writers'[p] = NoConn => writers[p] = NoConn
      /\ \A p \in Peers : ~Again(p)' => ~Again(p)
  BY NothingUnborn
<1>2. \A p \in Peers, lo \in {1, 2} : <<p, lo>> \in Conns
  BY DEF Conns
<1>3. ASSUME UNCHANGED <<sock, cut, writers, connGen, reader, mine>>, phase' \in Phases,
             phase' # "down" \/ phase = "down",
             phase \in {"dropping", "down"} => phase' \in {"dropping", "down"}
      PROVE  Wired'
  BY <1>1, <1>3 DEF Wired, Again
<1>4. ASSUME NEW p \in Dialed, Dial(p)
      PROVE  Wired'
  <2>1. p \in Peers
    BY <1>4, ConstantsAssumption DEF NetTypes, Dialed, Setup
  <2>2. /\ sock' = [sock EXCEPT ![<<p, 1>>] = "open"]
        /\ reader' = [reader EXCEPT ![<<p, 1>>] = "reading"]
        /\ writers' = [writers EXCEPT ![p] = 1]
        /\ phase = "dialing" /\ UNCHANGED <<phase, cut, connGen, mine>>
    BY <1>4 DEF Dial
  <2>3. \A c \in Conns : /\ sock'[c] = IF c = <<p, 1>> THEN "open" ELSE sock[c]
                         /\ reader'[c] = IF c = <<p, 1>> THEN "reading" ELSE reader[c]
    BY <1>0, <2>2
  <2>4. \A q \in Peers : writers'[q] = IF q = p THEN 1 ELSE writers[q]
    BY <1>0, <2>2
  <2>5. \A q \in Peers : writers'[q] # NoConn => reader'[<<q, writers'[q]>>] # "none"
    <3> SUFFICES ASSUME NEW q \in Peers, writers'[q] # NoConn
                 PROVE  reader'[<<q, writers'[q]>>] # "none"
      OBVIOUS
    <3>1. CASE q = p
      BY <1>2, <2>1, <2>3, <2>4, <3>1
    <3>2. CASE q # p
      <4>1. writers'[q] = writers[q] /\ writers[q] \in {1, 2}
        BY <1>0, <2>4, <3>2
      <4> QED
        BY <1>1, <1>2, <4>1 DEF Wired
    <3> QED
      BY <3>1, <3>2
  <2> QED
    BY <1>1, <2>2, <2>3, <2>5 DEF Wired
<1>5. ASSUME NEW c \in Conns, AcceptMesh(c)
      PROVE  Wired'
  <2> DEFINE p == Peer(c)
  <2>1. p \in Peers /\ c[2] \in {1, 2} /\ c = <<p, c[2]>>
    BY ConnPeer
  <2>2. /\ phase = "accepting" /\ phase' \in {"accepting", "up"} /\ Queued(c)
        /\ connGen' = [connGen EXCEPT ![p] = connGen[p] + 1]
        /\ writers' = [writers EXCEPT ![p] = c[2]]
        /\ cut' = IF writers[p] = NoConn THEN cut ELSE [cut EXCEPT ![<<p, writers[p]>>] = TRUE]
        /\ reader' = [reader EXCEPT ![c] = "reading"]
        /\ mine' = [mine EXCEPT ![c] = connGen[p] + 1]
        /\ sock' = [sock EXCEPT ![c] = Established(c)]
    BY <1>5 DEF AcceptMesh
  <2>3. Established(c) # "unborn" /\ reader[c] = "none" /\ sock[c] # "unborn"
    BY <2>2 DEF Established, Queued
  <2> HIDE DEF p
  <2>4. \A d \in Conns : reader'[d] # "none" => sock'[d] # "unborn"
    BY <1>0, <1>1, <2>2, <2>3 DEF Wired
  <2>5. \A q \in Peers : writers'[q] # NoConn => reader'[<<q, writers'[q]>>] # "none"
    <3> SUFFICES ASSUME NEW q \in Peers, writers'[q] # NoConn
                 PROVE  reader'[<<q, writers'[q]>>] # "none"
      OBVIOUS
    <3>1. CASE q = p
      BY <1>0, <2>1, <2>2, <3>1
    <3>2. CASE q # p
      <4>1. writers'[q] = writers[q] /\ writers[q] \in {1, 2}
        BY <1>0, <2>2, <3>2
      <4> QED
        BY <1>1, <1>2, <4>1 DEF Wired
    <3> QED
      BY <3>1, <3>2
  <2>6. ASSUME NEW q \in Peers, ~Again(q)'
        PROVE  connGen'[q] = mine'[<<q, 1>>] /\ (cut'[<<q, 1>>] => cut[<<q, 1>>])
    <3>1. ~Again(q) /\ connGen[q] = mine[<<q, 1>>] /\ <<q, 1>> \in Conns /\ <<q, 2>> \in Conns
      BY <1>1, <1>2, <2>6 DEF Wired
    <3>2. CASE q = p
      <4>1. c # <<p, 2>>
        BY <2>3, <3>1, <3>2 DEF Again
      <4>2. c = <<p, 1>>
        BY <2>1, <4>1
      <4>3. writers[p] = NoConn
        <5>1. writers[p] # 1
          BY <2>1, <2>3, <4>2 DEF Wired, NoConn
        <5>2. writers[p] # 2
          BY <1>2, <2>1, <3>1, <3>2 DEF Wired, NoConn, Again
        <5> QED
          BY <1>0, <2>1, <5>1, <5>2
      <4> QED
        BY <1>0, <2>1, <2>2, <3>1, <3>2, <4>2, <4>3
    <3>3. CASE q # p
      <4>1. <<q, 1>> # c /\ <<q, 1>> # <<p, writers[p]>>
        BY <2>1, <3>3
      <4> QED
        BY <1>0, <2>2, <3>1, <3>3, <4>1
    <3> QED
      BY <3>2, <3>3
  <2>7. \A q \in Peers : ~Again(q)' /\ cut'[<<q, 1>>] => phase' \in {"dropping", "down"}
    BY <1>1, <2>2, <2>6 DEF Wired
  <2>8. phase' # "down"
    BY <2>2
  <2> QED
    BY <2>4, <2>5, <2>6, <2>7, <2>8 DEF Wired
<1>6. ASSUME NEW c \in Conns, AcceptStar(c)
      PROVE  Wired'
  <2> DEFINE p == Peer(c)
  <2>1. p \in Peers /\ c[2] \in {1, 2} /\ c = <<p, c[2]>>
    BY ConnPeer
  <2>2. /\ phase = "accepting" /\ phase' \in {"accepting", "up"} /\ Queued(c)
        /\ writers' = [writers EXCEPT ![p] = c[2]]
        /\ reader' = [reader EXCEPT ![c] = "reading"]
        /\ sock' = [sock EXCEPT ![c] = Established(c)]
        /\ UNCHANGED <<cut, connGen, mine>>
    BY <1>6 DEF AcceptStar
  <2>3. Established(c) # "unborn" /\ sock[c] # "unborn"
    BY <2>2 DEF Established, Queued
  <2> HIDE DEF p
  <2>4. \A d \in Conns : reader'[d] # "none" => sock'[d] # "unborn"
    BY <1>0, <1>1, <2>2, <2>3 DEF Wired
  <2>5. \A q \in Peers : writers'[q] # NoConn => reader'[<<q, writers'[q]>>] # "none"
    <3> SUFFICES ASSUME NEW q \in Peers, writers'[q] # NoConn
                 PROVE  reader'[<<q, writers'[q]>>] # "none"
      OBVIOUS
    <3>1. CASE q = p
      BY <1>0, <2>1, <2>2, <3>1
    <3>2. CASE q # p
      <4>1. writers'[q] = writers[q] /\ writers[q] \in {1, 2}
        BY <1>0, <2>2, <3>2
      <4> QED
        BY <1>1, <1>2, <4>1 DEF Wired
    <3> QED
      BY <3>1, <3>2
  <2>6. phase' # "down" /\ phase \notin {"dropping", "down"}
    BY <2>2
  <2>7. \A q \in Peers : ~Again(q)' => connGen'[q] = mine'[<<q, 1>>]
    BY <1>1, <2>2 DEF Wired
  <2>8. \A q \in Peers : ~Again(q)' => ~cut'[<<q, 1>>]
    BY <1>1, <2>2, <2>6 DEF Wired
  <2> QED
    BY <2>4, <2>5, <2>6, <2>7, <2>8 DEF Wired
<1>7. ASSUME NEW c \in Conns, HelloFails(c) \/ ReaderMoves(c)
      PROVE  Wired'
  <2>1. /\ \E x \in Threads \ {"none"} : reader' = [reader EXCEPT ![c] = x]
        /\ UNCHANGED <<sock, cut, writers, connGen, mine>>
    BY <1>7 DEF HelloFails, ReaderMoves, ReaderStep, PeerTakesAnswer, Read, ReadFails,
                CheckGen, Dispatch, Answer, AnswerFails, Answered, EndCheck, MarkLost,
                NotifyLost, AfterFrame, ReaderGoes, Threads, connVars, linkVars
  <2>2. sock[c] # "unborn"
    BY <1>7 DEF HelloFails, Queued, ReaderMoves, ReaderStep, PeerTakesAnswer, Read, ReadFails,
                CheckGen, Dispatch, Answer, AnswerFails, Answered, EndCheck, MarkLost,
                NotifyLost, AfterFrame, ReaderGoes, Wired
  <2>3. \/ phase' = phase /\ (phase = "down" => FALSE)
        \/ phase' # "down" /\ phase = "accepting"
    <3>1. CASE HelloFails(c)
      BY <3>1 DEF HelloFails
    <3>2. CASE ReaderMoves(c)
      <4>1. phase' = phase /\ reader[c] \notin {"none", "done"}
        BY <3>2 DEF ReaderMoves, ReaderStep, PeerTakesAnswer, Read, ReadFails, CheckGen,
                    Dispatch, Answer, AnswerFails, Answered, EndCheck, MarkLost, NotifyLost,
                    AfterFrame, ReaderGoes
      <4> QED
        BY <4>1 DEF Wired
    <3> QED
      BY <1>7, <3>1, <3>2
  <2>4. \A d \in Conns : reader'[d] # "none" => sock'[d] # "unborn"
    BY <1>0, <2>1, <2>2 DEF Wired
  <2>5. \A q \in Peers : writers'[q] # NoConn => reader'[<<q, writers'[q]>>] # "none"
    BY <1>0, <1>1, <1>2, <2>1 DEF Wired, NoConn
  <2>6. \A q \in Peers : ~Again(q)' => connGen'[q] = mine'[<<q, 1>>]
    BY <1>1, <2>1 DEF Wired
  <2>7. \A q \in Peers : ~Again(q)' /\ cut'[<<q, 1>>] => phase' \in {"dropping", "down"}
    BY <1>1, <2>1, <2>3 DEF Wired
  <2> QED
    BY <2>3, <2>4, <2>5, <2>6, <2>7 DEF Wired
<1>8. ASSUME NEW c \in Conns, PeerStep(c)
      PROVE  Wired'
  <2>1. UNCHANGED <<phase, cut, writers, connGen, reader, mine>>
    BY <1>8 DEF PeerStep, PeerConnects, PeerCloses, PeerAnswersGet, PeerSends, PeerAsks,
                linkVars, readerVars
  <2> QED
    BY <1>1, <2>1 DEF Wired
<1>9. CASE Drop
  <2>1. phase' = "dropping" /\ UNCHANGED <<sock, cut, writers, connGen, reader, mine>>
    BY <1>9 DEF Drop, connVars, linkVars, readerVars
  <2> QED
    BY <1>1, <2>1 DEF Wired
<1>12. ASSUME NEW p \in Peers, ShutDown(p)
       PROVE  Wired'
  <2>1. phase = "dropping" /\ UNCHANGED <<phase, sock, writers, connGen, reader, mine>>
    BY <1>12 DEF ShutDown, linkVars, readerVars
  <2> QED
    BY <1>1, <2>1 DEF Wired
<1>10. CASE Joined
  <2>1. /\ phase' = "down" /\ UNCHANGED <<sock, cut, writers, connGen, reader, mine>>
        /\ \A c \in Conns : reader[c] \in {"none", "done"}
    BY <1>10 DEF Joined, connVars, linkVars, readerVars
  <2> QED
    BY <1>1, <2>1 DEF Wired
<1>11. CASE DialFails \/ StartAccepting \/ AppCall \/ AppStep \/ DeadlinePasses \/ UNCHANGED vars
  <2>1. /\ UNCHANGED <<sock, cut, writers, connGen, reader, mine>>
        /\ phase' = phase \/ (phase = "dialing" /\ phase' \in {"failed", "up", "accepting"})
    BY <1>11 DEF DialFails, StartAccepting, AppCall, GetCall, RecvCall, AppStep, RecvTake,
                 RecvCheck, RecvWait, GetTake, DeadlinePasses, connVars, linkVars, readerVars, vars
  <2> QED
    BY <1>3, <2>1 DEF NetTypes, Phases
<1> QED
  BY <1>4, <1>5, <1>6, <1>7, <1>8, <1>9, <1>10, <1>11, <1>12
     DEF ReaderMoves, Next, Construct, DropStep


-----------------------------------------------------------------------------
(* The constructors.                                                       *)

Connected == {p \in Peers : writers[p] # NoConn}

NobodyTwice == \A p \in Peers : ~Again(p)

Constructed == phase \in {"up", "dropping", "down"}

\* What the constructors have done so far: the mesh crosses a rank off when it has
\* its connection, the star counts connections, which are ranks while none of them
\* connects again.
Progress ==
    /\ setup.star => phase # "dialing"
    /\ \A p \in Dialed : sock[<<p, 1>>] # "unborn" => writers[p] # NoConn
    /\ phase \notin {"dialing", "failed"} => \A p \in Dialed : sock[<<p, 1>>] # "unborn"
    /\ ~setup.star => \A p \in Peers \ Dialed : p \in expect \/ writers[p] # NoConn
    /\ ~setup.star /\ Constructed => expect = {}
    /\ setup.star /\ NobodyTwice => accepted = Cardinality(Connected)
    /\ setup.star /\ NobodyTwice /\ Constructed => accepted = Cardinality(Peers)

\* Every step keeps the count.
LEMMA ProgressKept ==
    ASSUME NetTypes, Wired, Progress, [Next]_vars
    PROVE  Progress'
<1>0. /\ sock \in [Conns -> Socks] /\ writers \in [Peers -> {NoConn, 1, 2}]
      /\ Dialed \subseteq Peers /\ (setup.star => Dialed = {})
      /\ IsFiniteSet(Peers)
  BY ConstantsAssumption DEF NetTypes, Dialed, Setup
<1>1. /\ \A c \in Conns : sock'[c] = "unborn" => sock[c] = "unborn"
      /\ \A p \in Peers : writers'[p] = NoConn => writers[p] = NoConn
      /\ NobodyTwice' => NobodyTwice
  BY NothingUnborn DEF NobodyTwice
<1>2. \A p \in Peers, lo \in {1, 2} : <<p, lo>> \in Conns
  BY DEF Conns
<1>3. setup' = setup /\ Dialed' = Dialed
  <2>1. setup' = setup
    BY DEF ReaderMoves, Next, PeerStep, PeerConnects, PeerCloses, PeerAnswersGet, PeerSends,
           PeerAsks, ReaderStep, PeerTakesAnswer, Read, ReadFails, CheckGen, Dispatch, Answer,
           AnswerFails, Answered, EndCheck, MarkLost, NotifyLost, Construct, Dial, DialFails,
           StartAccepting, AcceptMesh, AcceptStar, HelloFails, AppCall, GetCall, RecvCall,
           AppStep, RecvTake, RecvCheck, RecvWait, GetTake, DeadlinePasses, Drop, DropStep,
           Joined, ShutDown, ctorVars, vars
  <2> QED
    BY <2>1 DEF Dialed
<1>4. ASSUME UNCHANGED <<expect, accepted, writers>>,
             \A p \in Dialed : sock'[<<p, 1>>] = sock[<<p, 1>>],
             \/ phase' = phase
             \/ phase' = "failed"
             \/ Constructed /\ Constructed'
      PROVE  Progress'
  <2>1. Constructed' => Constructed
    BY <1>4 DEF Constructed
  <2>2. Connected' = Connected
    BY <1>4 DEF Connected
  <2>3. phase' \notin {"dialing", "failed"} => phase \notin {"dialing", "failed"}
    BY <1>4 DEF Constructed
  <2>4. setup.star => phase' # "dialing"
    BY <1>4 DEF Constructed, Progress
  <2> QED
    BY <1>1, <1>3, <1>4, <2>1, <2>2, <2>3, <2>4 DEF Progress
<1>5. ASSUME NEW p \in Dialed, Dial(p)
      PROVE  Progress'
  <2>1. /\ sock' = [sock EXCEPT ![<<p, 1>>] = "open"]
        /\ writers' = [writers EXCEPT ![p] = 1]
        /\ phase = "dialing" /\ UNCHANGED <<phase, expect, accepted>>
    BY <1>5 DEF Dial, ctorVars
  <2>2. ~setup.star
    BY <1>0, <1>5
  <2>3. \A q \in Dialed : sock'[<<q, 1>>] # "unborn" => writers'[q] # NoConn
    <3> SUFFICES ASSUME NEW q \in Dialed, sock'[<<q, 1>>] # "unborn"
                 PROVE  writers'[q] # NoConn
      OBVIOUS
    <3>1. CASE q = p
      BY <1>0, <2>1, <3>1 DEF NoConn
    <3>2. CASE q # p
      <4>1. sock'[<<q, 1>>] = sock[<<q, 1>>]
        BY <1>0, <1>2, <2>1, <3>2
      <4> QED
        BY <1>0, <1>1, <4>1 DEF Progress
    <3> QED
      BY <3>1, <3>2
  <2> QED
    BY <1>1, <1>3, <2>1, <2>2, <2>3 DEF Progress, Constructed
<1>6. CASE StartAccepting
  <2>1. /\ phase = "dialing" /\ \A p \in Dialed : sock[<<p, 1>>] # "unborn"
        /\ phase' = IF expect = {} THEN "up" ELSE "accepting"
        /\ UNCHANGED <<expect, accepted, sock, writers>>
    BY <1>6 DEF StartAccepting, ctorVars, connVars, linkVars
  <2>2. ~setup.star
    BY <2>1 DEF Progress
  <2> QED
    BY <1>3, <2>1, <2>2 DEF Progress, Constructed
<1>7. ASSUME NEW c \in Conns, AcceptMesh(c)
      PROVE  Progress'
  <2>1. Peer(c) \in Peers /\ c[2] \in {1, 2}
    BY ConnPeer
  <2>2. /\ phase = "accepting" /\ ~setup.star /\ Peer(c) \notin Dialed
        /\ expect' = expect \ {Peer(c)}
        /\ phase' = (IF expect' = {} THEN "up" ELSE phase)
        /\ writers' = [writers EXCEPT ![Peer(c)] = c[2]]
        /\ sock' = [sock EXCEPT ![c] = Established(c)]
    BY <1>7 DEF AcceptMesh, Queued
  <2>3. \A p \in Dialed : sock'[<<p, 1>>] = sock[<<p, 1>>]
    <3>1. \A p \in Dialed : <<p, 1>> # c
      BY <2>2 DEF Peer
    <3> QED
      BY <1>0, <1>2, <2>2, <3>1
  <2>4. \A p \in Peers \ Dialed : p \in expect' \/ writers'[p] # NoConn
    BY <1>0, <1>1, <2>1, <2>2 DEF Progress, NoConn
  <2>5. phase' # "dialing" /\ (Constructed' => expect' = {})
    BY <2>2 DEF Constructed
  <2>6. \A p \in Dialed : sock'[<<p, 1>>] # "unborn" /\ writers'[p] # NoConn
    BY <1>0, <1>1, <2>2, <2>3 DEF Progress
  <2> QED
    BY <1>3, <2>2, <2>4, <2>5, <2>6 DEF Progress
<1>8. ASSUME NEW c \in Conns, AcceptStar(c)
      PROVE  Progress'
  <2> DEFINE p == Peer(c)
  <2>1. p \in Peers /\ c[2] \in {1, 2} /\ c = <<p, c[2]>>
    BY ConnPeer
  <2>2. /\ phase = "accepting" /\ setup.star /\ sock[c] # "unborn" /\ reader[c] = "none"
        /\ accepted' = accepted + 1
        /\ phase' = (IF accepted' = Cardinality(Peers) THEN "up" ELSE phase)
        /\ writers' = [writers EXCEPT ![p] = c[2]]
    BY <1>8 DEF AcceptStar, Queued
  <2> HIDE DEF p
  <2>3. ASSUME NobodyTwice'
        PROVE  accepted' = Cardinality(Connected')
    <3>1. NobodyTwice
      BY <1>1, <2>3
    <3>2. c = <<p, 1>>
      BY <2>1, <2>2, <3>1 DEF NobodyTwice, Again
    <3>3. writers[p] = NoConn
      <4>1. writers[p] # 1
        BY <2>1, <2>2, <3>2 DEF Wired, NoConn
      <4>2. writers[p] # 2
        <5>1. <<p, 2>> \in Conns /\ sock[<<p, 2>>] = "unborn"
          BY <1>2, <2>1, <3>1 DEF NobodyTwice, Again
        <5>2. reader[<<p, 2>>] = "none"
          BY <5>1 DEF Wired
        <5> QED
          BY <2>1, <5>2 DEF Wired, NoConn
      <4> QED
        BY <1>0, <2>1, <4>1, <4>2
    <3>4. Connected' = Connected \cup {p} /\ p \notin Connected
      BY <1>0, <2>1, <2>2, <3>3 DEF Connected, NoConn
    <3>5. IsFiniteSet(Connected)
      BY <1>0, FS_Subset DEF Connected
    <3>6. Cardinality(Connected') = Cardinality(Connected) + 1
      BY <3>4, <3>5, FS_AddElement
    <3> QED
      BY <2>2, <3>1, <3>6 DEF Progress
  <2>4. Constructed' => accepted' = Cardinality(Peers)
    BY <2>2 DEF Constructed
  <2>5. Dialed = {} /\ phase' # "dialing"
    BY <1>0, <2>2
  <2> QED
    BY <1>3, <2>2, <2>3, <2>4, <2>5 DEF Progress
<1>9. ASSUME NEW c \in Conns, PeerStep(c) \/ ReaderMoves(c) \/ HelloFails(c)
      PROVE  Progress'
  <2>1. UNCHANGED <<expect, accepted, writers>> /\ (phase' = phase \/ phase' = "failed")
    BY <1>9 DEF PeerStep, PeerConnects, PeerCloses, PeerAnswersGet, PeerSends, PeerAsks,
                ReaderMoves, ReaderStep, PeerTakesAnswer, Read, ReadFails, CheckGen, Dispatch,
                Answer, AnswerFails, Answered, EndCheck, MarkLost, NotifyLost, HelloFails,
                ctorVars, linkVars
  <2>2. CASE PeerConnects(c)
    <3>1. sock' = [sock EXCEPT ![c] = "queued"] /\ Peer(c) \notin Dialed
      BY <2>2 DEF PeerConnects
    <3>2. \A p \in Dialed : <<p, 1>> # c
      BY <3>1 DEF Peer
    <3>3. \A p \in Dialed : sock'[<<p, 1>>] = sock[<<p, 1>>]
      BY <1>0, <1>2, <3>1, <3>2
    <3> QED
      BY <1>4, <2>1, <3>3
  <2>3. CASE PeerCloses(c)
    <3>1. /\ sock' = [sock EXCEPT ![c] = "closed"] /\ sock[c] # "unborn"
          /\ UNCHANGED <<phase, setup>>
      BY <2>3 DEF PeerCloses, ctorVars
    <3>2. \A d \in Conns : sock'[d] = "unborn" <=> sock[d] = "unborn"
      BY <1>0, <3>1
    <3>3. NobodyTwice' <=> NobodyTwice
      BY <1>2, <3>2 DEF NobodyTwice, Again
    <3>4. Connected' = Connected /\ (Constructed' <=> Constructed)
      BY <2>1, <3>1 DEF Connected, Constructed
    <3>5. \A p \in Dialed : sock'[<<p, 1>>] = "unborn" <=> sock[<<p, 1>>] = "unborn"
      BY <1>0, <1>2, <3>2
    <3> QED
      BY <1>3, <2>1, <3>1, <3>3, <3>4, <3>5 DEF Progress
  <2>4. CASE ~PeerConnects(c) /\ ~PeerCloses(c)
    <3>1. sock' = sock
      BY <1>9, <2>4 DEF PeerStep, PeerAnswersGet, PeerSends, PeerAsks, ReaderMoves, ReaderStep,
                        PeerTakesAnswer, Read, ReadFails, CheckGen, Dispatch, Answer,
                        AnswerFails, Answered, EndCheck, MarkLost, NotifyLost, HelloFails,
                        connVars
    <3> QED
      BY <1>4, <2>1, <3>1
  <2> QED
    BY <2>2, <2>3, <2>4
<1>10. CASE DialFails \/ AppCall \/ AppStep \/ DeadlinePasses \/ Drop \/ DropStep \/ UNCHANGED vars
  <2>1. /\ UNCHANGED <<sock, expect, accepted, writers>>
        /\ phase' = phase \/ phase' = "failed" \/ (Constructed /\ Constructed')
    BY <1>10 DEF DialFails, AppCall, GetCall, RecvCall, AppStep, RecvTake, RecvCheck, RecvWait,
                 GetTake, DeadlinePasses, Drop, DropStep, Joined, ShutDown, ctorVars, connVars,
                 linkVars, vars, Constructed
  <2> QED
    BY <1>4, <2>1
<1> QED
  BY <1>5, <1>6, <1>7, <1>8, <1>9, <1>10 DEF ReaderMoves, Next, Construct


-----------------------------------------------------------------------------
(* What has arrived.                                                       *)

\* What receives have returned, and what is queued for them.
Arrived(p, t) == got[p][t] \o inbox[p][t]

\* The reader of the connection may still put frames into the inbox.
Live(c) == reader[c] \in {"none", "reading", "got", "fresh", "replying"}

\* The frames of a connection with a live reader: those that have arrived, the one in
\* its hand and those on the wire are all that were sent, in order.
Stream(c) ==
    /\ reader[c] \in {"none", "reading"} => hand[c] = NoFrame
    /\ reader[c] = "replying" => hand[c].kind # "SEND"
    /\ \A i \in 1..Len(wire[c]) : wire[c][i].kind = "SEND" => wire[c][i].conn = c
    /\ hand[c].kind = "SEND" => hand[c].conn = c
    /\ Live(c) => \A t \in Tags :
          Continues(hand[c], wire[c], t, Count(Arrived(Peer(c), t), c), sent[c][t])

\* What has arrived from a rank came over its connections, in order.
Arrivals(p, t) ==
    /\ Numbered(Arrived(p, t))
    /\ \A i \in 1..Len(Arrived(p, t)) :
          /\ Arrived(p, t)[i].conn \in Conns /\ Peer(Arrived(p, t)[i].conn) = p
          /\ reader[Arrived(p, t)[i].conn] # "none"

Streams == /\ \A c \in Conns : Stream(c)
           /\ \A p \in Peers, t \in Tags : Arrivals(p, t)

\* Taking the head of a queue and putting it at the end of what was taken changes
\* nothing of the two together.
LEMMA TakeConcat ==
    ASSUME NEW S, NEW g \in Seq(S), NEW q \in Seq(S), q # << >>
    PROVE  Append(g, Head(q)) \o Tail(q) = g \o q
<1> DEFINE a == Append(g, Head(q))
           b == Tail(q)
<1>1. /\ Len(g) \in Nat /\ Len(q) \in Nat \ {0} /\ Head(q) \in S
      /\ b \in Seq(S) /\ Len(b) = Len(q) - 1 /\ \A i \in 1..Len(b) : b[i] = q[i + 1]
      /\ Head(q) = q[1]
  BY HeadTailProperties, EmptySeq
<1>2. /\ a \in Seq(S) /\ Len(a) = Len(g) + 1
      /\ \A i \in 1..Len(g) : a[i] = g[i]
      /\ a[Len(g) + 1] = q[1]
  BY <1>1, AppendProperties
<1>3. /\ a \o b \in Seq(S) /\ Len(a \o b) = Len(a) + Len(b)
      /\ \A i \in 1..Len(a) + Len(b) :
            (a \o b)[i] = IF i =< Len(a) THEN a[i] ELSE b[i - Len(a)]
  BY <1>1, <1>2, ConcatProperties
<1>4. /\ g \o q \in Seq(S) /\ Len(g \o q) = Len(g) + Len(q)
      /\ \A i \in 1..Len(g) + Len(q) :
            (g \o q)[i] = IF i =< Len(g) THEN g[i] ELSE q[i - Len(g)]
  BY ConcatProperties
<1> HIDE DEF a, b
<1>5. Len(a) + Len(b) = Len(g) + Len(q)
  BY <1>1, <1>2
<1>6. ASSUME NEW i \in 1..Len(g) + Len(q)
      PROVE  (a \o b)[i] = (g \o q)[i]
  <2>1. CASE i =< Len(g)
    <3>1. i =< Len(a) /\ i \in 1..Len(g)
      BY <1>1, <1>2, <2>1
    <3> QED
      BY <1>2, <1>3, <1>4, <1>5, <2>1, <3>1
  <2>2. CASE i = Len(g) + 1
    <3>1. i =< Len(a) /\ ~(i =< Len(g)) /\ i - Len(g) = 1
      BY <1>1, <1>2, <2>2
    <3>2. (a \o b)[i] = a[i] /\ a[i] = q[1]
      BY <1>2, <1>3, <1>5, <2>2, <3>1
    <3>3. (g \o q)[i] = q[1]
      BY <1>4, <3>1
    <3> QED
      BY <3>2, <3>3
  <2>3. CASE i > Len(g) + 1
    <3>1. /\ ~(i =< Len(a)) /\ ~(i =< Len(g)) /\ i - Len(a) \in 1..Len(b)
          /\ (i - Len(a)) + 1 = i - Len(g)
      BY <1>1, <1>2, <2>3
    <3> QED
      BY <1>1, <1>3, <1>4, <1>5, <3>1
  <2>4. Len(g) \in Nat /\ i \in Int
    BY <1>1
  <2>5. i =< Len(g) \/ i = Len(g) + 1 \/ i > Len(g) + 1
    BY <2>4
  <2> QED
    BY <2>1, <2>2, <2>3, <2>5
<1>7. a \o b = g \o q
  BY <1>3, <1>4, <1>5, <1>6, SeqEqual
<1> QED
  BY <1>7 DEF a, b

\* A frame queued is a frame more that has arrived.
LEMMA PutConcat ==
    ASSUME NEW S, NEW g \in Seq(S), NEW q \in Seq(S), NEW e \in S
    PROVE  g \o Append(q, e) = Append(g \o q, e)
<1> DEFINE b == Append(q, e)
           h == g \o q
<1>1. /\ Len(g) \in Nat /\ Len(q) \in Nat
      /\ b \in Seq(S) /\ Len(b) = Len(q) + 1 /\ \A i \in 1..Len(q) : b[i] = q[i]
      /\ b[Len(q) + 1] = e
  BY AppendProperties
<1>2. /\ h \in Seq(S) /\ Len(h) = Len(g) + Len(q)
      /\ \A i \in 1..Len(g) + Len(q) :
            h[i] = IF i =< Len(g) THEN g[i] ELSE q[i - Len(g)]
  BY ConcatProperties
<1>3. /\ g \o b \in Seq(S) /\ Len(g \o b) = Len(g) + Len(b)
      /\ \A i \in 1..Len(g) + Len(b) :
            (g \o b)[i] = IF i =< Len(g) THEN g[i] ELSE b[i - Len(g)]
  BY <1>1, ConcatProperties
<1>4. /\ Append(h, e) \in Seq(S) /\ Len(Append(h, e)) = Len(h) + 1
      /\ \A i \in 1..Len(h) : Append(h, e)[i] = h[i]
      /\ Append(h, e)[Len(h) + 1] = e
  BY <1>2, AppendProperties
<1> HIDE DEF b, h
<1>5. Len(g) + Len(b) = Len(h) + 1
  BY <1>1, <1>2
<1>6. ASSUME NEW i \in 1..Len(g) + Len(b)
      PROVE  (g \o b)[i] = Append(h, e)[i]
  <2>1. CASE i =< Len(g)
    <3>1. i \in 1..Len(h) /\ i \in 1..Len(g) + Len(q)
      BY <1>1, <1>2, <2>1
    <3> QED
      BY <1>2, <1>3, <1>4, <2>1, <3>1
  <2>2. CASE i > Len(g) /\ i =< Len(h)
    <3>1. /\ i \in 1..Len(h) /\ i \in 1..Len(g) + Len(q) /\ ~(i =< Len(g))
          /\ i - Len(g) \in 1..Len(q)
      BY <1>1, <1>2, <2>2
    <3> QED
      BY <1>1, <1>2, <1>3, <1>4, <3>1
  <2>3. CASE i = Len(h) + 1
    <3>1. ~(i =< Len(g)) /\ i - Len(g) = Len(q) + 1
      BY <1>1, <1>2, <2>3
    <3> QED
      BY <1>1, <1>3, <1>4, <2>3, <3>1
  <2>4. Len(h) \in Nat /\ Len(g) \in Nat /\ i \in 1..(Len(h) + 1)
    BY <1>1, <1>2, <1>5
  <2>5. i =< Len(g) \/ (i > Len(g) /\ i =< Len(h)) \/ i = Len(h) + 1
    BY <2>4
  <2> QED
    BY <2>1, <2>2, <2>3, <2>5
<1>7. g \o b = Append(h, e)
  BY <1>3, <1>4, <1>5, <1>6, SeqEqual
<1> QED
  BY <1>7 DEF b, h

LEMMA ArrivedTyped ==
    ASSUME NetTypes, NEW p \in Peers, NEW t \in Tags
    PROVE  /\ got[p][t] \in Seq(Sent) /\ inbox[p][t] \in Seq(Sent)
           /\ Arrived(p, t) \in Seq(Sent)
BY DEF NetTypes, Arrived

\* Only dispatch makes anything arrive.
LEMMA ArrivedSame ==
    ASSUME NetTypes, [Next]_vars, \A c \in Conns : Dispatch(c) => hand[c].kind # "SEND"
    PROVE  \A p \in Peers, t \in Tags : Arrived(p, t)' = Arrived(p, t)
<1>1. CASE RecvTake /\ inbox[app.from][app.tag] # << >>
  <2> SUFFICES ASSUME NEW p \in Peers, NEW t \in Tags
               PROVE  got'[p][t] \o inbox'[p][t] = got[p][t] \o inbox[p][t]
    BY DEF Arrived
  <2>1. /\ inbox'[p][t] = IF p = app.from /\ t = app.tag
                          THEN Tail(inbox[p][t]) ELSE inbox[p][t]
        /\ got'[p][t] = IF p = app.from /\ t = app.tag
                        THEN Append(got[p][t], Head(inbox[p][t])) ELSE got[p][t]
    BY <1>1, TakeIs
  <2>2. got[p][t] \in Seq(Sent) /\ inbox[p][t] \in Seq(Sent)
    BY ArrivedTyped
  <2>3. CASE p = app.from /\ t = app.tag
    <3>1. inbox[p][t] # << >>
      BY <1>1, <2>3
    <3>2. Append(got[p][t], Head(inbox[p][t])) \o Tail(inbox[p][t]) = got[p][t] \o inbox[p][t]
      BY <2>2, <3>1, TakeConcat, Zenon
    <3> QED
      BY <2>1, <2>3, <3>2
  <2>4. CASE ~(p = app.from /\ t = app.tag)
    BY <2>1, <2>4
  <2> QED
    BY <2>3, <2>4
<1>2. CASE ~(RecvTake /\ inbox[app.from][app.tag] # << >>)
  <2>1. UNCHANGED <<got, inbox>>
    <3>1. ASSUME NEW c \in Conns, Dispatch(c)
          PROVE  UNCHANGED <<got, inbox>>
      BY <3>1 DEF Dispatch
    <3>2. ASSUME NEW c \in Conns, PeerStep(c) \/ ReaderMoves(c), ~Dispatch(c)
          PROVE  UNCHANGED <<got, inbox>>
      BY <3>2 DEF PeerStep, PeerConnects, PeerCloses, PeerAnswersGet, PeerSends, PeerAsks,
                  ReaderMoves, ReaderStep, PeerTakesAnswer, Read, ReadFails, CheckGen,
                  Answer, AnswerFails, Answered, EndCheck, MarkLost, NotifyLost, boxVars, appVars
    <3>3. CASE Construct \/ Drop \/ DropStep \/ UNCHANGED vars
      BY <3>3 DEF Construct, Dial, DialFails, StartAccepting, AcceptMesh, AcceptStar, HelloFails,
           Drop, DropStep, Joined, ShutDown, boxVars, appVars, vars
    <3>4. CASE AppCall \/ AppStep \/ DeadlinePasses
      BY <1>2, <3>4 DEF AppCall, GetCall, RecvCall, AppStep, RecvTake, RecvCheck, RecvWait,
           GetTake, DeadlinePasses, boxVars
    <3> QED
      BY <3>1, <3>2, <3>3, <3>4 DEF ReaderMoves, Next
  <2> QED
    BY <2>1 DEF Arrived
<1> QED
  BY <1>1, <1>2

\* What dispatch makes arrive.
LEMMA ArrivedMore ==
    ASSUME NetTypes, NEW c \in Conns, Dispatch(c), hand[c].kind = "SEND"
    PROVE  \A p \in Peers, t \in Tags :
              Arrived(p, t)' = IF p = Peer(c) /\ t = hand[c].tag
                               THEN Append(Arrived(p, t), hand[c]) ELSE Arrived(p, t)
<1> SUFFICES ASSUME NEW p \in Peers, NEW t \in Tags
             PROVE  got'[p][t] \o inbox'[p][t]
                      = IF p = Peer(c) /\ t = hand[c].tag
                        THEN Append(got[p][t] \o inbox[p][t], hand[c])
                        ELSE got[p][t] \o inbox[p][t]
  BY DEF Arrived
<1>1. /\ hand[c] \in Sent
      /\ inbox'[p][t] = IF p = Peer(c) /\ t = hand[c].tag
                        THEN Append(inbox[p][t], hand[c]) ELSE inbox[p][t]
  BY DispatchIs
<1>2. got' = got
  BY DEF Dispatch
<1>3. got[p][t] \in Seq(Sent) /\ inbox[p][t] \in Seq(Sent)
  BY ArrivedTyped
<1> DEFINE g == got[p][t]
           q == inbox[p][t]
           e == hand[c]
<1> HIDE DEF g, q, e, Sent
<1>4. g \in Seq(Sent) /\ q \in Seq(Sent) /\ e \in Sent
  BY <1>1, <1>3 DEF g, q, e
<1>5. g \o Append(q, e) = Append(g \o q, e)
  BY <1>4, PutConcat
<1>6. CASE p = Peer(c) /\ t = hand[c].tag
  BY <1>1, <1>2, <1>5, <1>6 DEF g, q, e
<1>7. CASE ~(p = Peer(c) /\ t = hand[c].tag)
  BY <1>1, <1>2, <1>7
<1> QED
  BY <1>6, <1>7

\* A stream whose frames are left alone stays as it is.
LEMMA StreamStays ==
    ASSUME NEW d \in Conns, Stream(d),
           wire'[d] = wire[d], hand'[d] = hand[d], sent'[d] = sent[d],
           \A t \in Tags : Count(Arrived(Peer(d), t), d)' = Count(Arrived(Peer(d), t), d),
           reader'[d] \in {"none", "reading"} => reader[d] \in {"none", "reading"},
           reader'[d] = "replying" => reader[d] = "replying" \/ hand[d].kind # "SEND",
           Live(d)' => Live(d)
    PROVE  Stream(d)'
<1>1. /\ reader'[d] \in {"none", "reading"} => hand'[d] = NoFrame
      /\ reader'[d] = "replying" => hand'[d].kind # "SEND"
      /\ \A i \in 1..Len(wire'[d]) : wire'[d][i].kind = "SEND" => wire'[d][i].conn = d
      /\ hand'[d].kind = "SEND" => hand'[d].conn = d
  BY DEF Stream
<1>2. ASSUME Live(d)', NEW t \in Tags
      PROVE  Continues(hand'[d], wire'[d], t, Count(Arrived(Peer(d), t), d)', sent'[d][t])
  <2>1. Continues(hand[d], wire[d], t, Count(Arrived(Peer(d), t), d), sent[d][t])
    BY <1>2 DEF Stream
  <2> QED
    BY <2>1
<1> QED
  BY <1>1, <1>2 DEF Stream

\* What has arrived stays in order while nothing arrives.
LEMMA ArrivalsStay ==
    ASSUME NEW p \in Peers, NEW t \in Tags, Arrivals(p, t), Arrived(p, t)' = Arrived(p, t),
           \A c \in Conns : reader'[c] = "none" => reader[c] = "none"
    PROVE  Arrivals(p, t)'
BY DEF Arrivals

\* A peer's step keeps the streams: what it sends goes to the end of its own.
LEMMA PeerStreams ==
    ASSUME NetTypes, Streams, NEW c \in Conns, PeerStep(c)
    PROVE  Streams'
<1>0. /\ wire \in [Conns -> Seq(Sent \cup NotSends)] /\ sent \in [Conns -> [Tags -> Nat]]
  BY DEF NetTypes
<1>1. UNCHANGED <<reader, hand, inbox, got>>
  BY DEF PeerStep, PeerConnects, PeerCloses, PeerAnswersGet, PeerSends, PeerAsks, readerVars,
         boxVars, appVars
<1>2. /\ \A p \in Peers, t \in Tags : Arrived(p, t)' = Arrived(p, t)
      /\ \A d \in Conns : Live(d)' = Live(d)
  BY <1>1 DEF Arrived, Live
<1>3. \A d \in Conns, t \in Tags : Count(Arrived(Peer(d), t), d)' = Count(Arrived(Peer(d), t), d)
  BY <1>2, ConnPeer
<1>4. \A p \in Peers, t \in Tags : Arrivals(p, t)'
  BY <1>1, <1>2, ArrivalsStay DEF Streams
<1>5. ASSUME NEW d \in Conns, wire'[d] = wire[d], sent'[d] = sent[d]
      PROVE  Stream(d)'
  BY <1>1, <1>2, <1>3, <1>5, StreamStays DEF Streams
<1>6. ASSUME NEW e \in Sent \cup NotSends, NEW n \in [Tags -> Nat],
             wire' = [wire EXCEPT ![c] = Append(wire[c], e)],
             sent' = [sent EXCEPT ![c] = n],
             e.kind = "SEND" => e.conn = c,
             \A t \in Tags : \/ Is(e, t) /\ e.n = sent[c][t] + 1 /\ n[t] = sent[c][t] + 1
                             \/ ~Is(e, t) /\ n[t] = sent[c][t]
      PROVE  Streams'
  <2>1. /\ wire'[c] = Append(wire[c], e) /\ sent'[c] = n
        /\ \A d \in Conns : d # c => wire'[d] = wire[d] /\ sent'[d] = sent[d]
    BY <1>0, <1>6
  <2>2. wire[c] \in Seq(Sent \cup NotSends) /\ Stream(c)
    BY <1>0 DEF Streams
  <2>3. \A i \in 1..Len(wire'[c]) : wire'[c][i].kind = "SEND" => wire'[c][i].conn = c
    <3> DEFINE w == wire[c]
               v == wire'[c]
               S == Sent \cup NotSends
    <3>1. /\ \A i \in 1..Len(w) : w[i].kind = "SEND" => w[i].conn = c
          /\ w \in Seq(S) /\ v = Append(w, e) /\ e \in S
      BY <2>1, <2>2 DEF Stream
    <3> HIDE DEF w, v, S
    <3>2. /\ Len(v) = Len(w) + 1 /\ Len(w) \in Nat
          /\ \A i \in 1..Len(w) : v[i] = w[i]
          /\ v[Len(w) + 1] = e
      BY <3>1, AppendProperties
    <3>3. \A i \in 1..Len(v) : i \in 1..Len(w) \/ i = Len(w) + 1
      BY <3>2
    <3>4. \A i \in 1..Len(v) : v[i].kind = "SEND" => v[i].conn = c
      BY <1>6, <3>1, <3>2, <3>3
    <3> QED
      BY <3>4 DEF v
  <2>4. ASSUME Live(c), NEW t \in Tags
        PROVE  Continues(hand[c], wire'[c], t, Count(Arrived(Peer(c), t), c), sent'[c][t])
    <3>1. Continues(hand[c], wire[c], t, Count(Arrived(Peer(c), t), c), sent[c][t])
      BY <2>2, <2>4 DEF Stream
    <3>2. Count(Arrived(Peer(c), t), c) \in Nat
      <4>1. Arrived(Peer(c), t) \in Seq(Sent)
        BY ConnPeer, ArrivedTyped
      <4> QED
        BY <4>1, CountNat
    <3>3. sent[c][t] \in Nat
      BY <1>0
    <3> DEFINE f == hand[c]
               w == wire[c]
               lo == Count(Arrived(Peer(c), t), c)
               m == sent[c][t]
               S == Sent \cup NotSends
    <3>4. /\ w \in Seq(S) /\ e \in S /\ lo \in Nat /\ m \in Nat /\ Continues(f, w, t, lo, m)
          /\ \/ Is(e, t) /\ e.n = m + 1 /\ n[t] = m + 1
             \/ ~Is(e, t) /\ n[t] = m
      BY <1>6, <2>2, <3>1, <3>2, <3>3
    <3> HIDE DEF f, w, lo, m, S
    <3>5. Continues(f, Append(w, e), t, lo, n[t])
      BY <3>4, ContinuesSend
    <3> QED
      BY <2>1, <3>5 DEF f, w, lo
  <2>5. Stream(c)'
    <3>1. \A t \in Tags : Live(c)' => Continues(hand'[c], wire'[c], t,
                                          Count(Arrived(Peer(c), t), c)', sent'[c][t])
      BY <1>1, <1>2, <1>3, <2>4
    <3> QED
      BY <1>1, <2>2, <2>3, <3>1 DEF Stream
  <2> QED
    BY <1>4, <1>5, <2>1, <2>5 DEF Streams
<1>7. ASSUME NEW t \in Tags, PeerSends(c, t)
      PROVE  Streams'
  <2> DEFINE e == Frame(c, t, sent[c][t] + 1)
             n == [sent[c] EXCEPT ![t] = sent[c][t] + 1]
  <2>1. sent[c] \in [Tags -> Nat] /\ sent[c][t] \in Nat
    BY <1>0
  <2>2. n \in [Tags -> Nat] /\ \A u \in Tags : n[u] = IF u = t THEN sent[c][t] + 1 ELSE sent[c][u]
    BY <2>1
  <2>3. e \in Sent /\ e.kind = "SEND" /\ e.conn = c /\ e.tag = t /\ e.n = sent[c][t] + 1
    BY <2>1 DEF Frame, Sent
  <2>4. /\ wire' = [wire EXCEPT ![c] = Append(wire[c], e)]
        /\ sent' = [sent EXCEPT ![c] = n]
    BY <1>7 DEF PeerSends
  <2> HIDE DEF e, n
  <2>5. \A u \in Tags : \/ Is(e, u) /\ e.n = sent[c][u] + 1 /\ n[u] = sent[c][u] + 1
                        \/ ~Is(e, u) /\ n[u] = sent[c][u]
    BY <2>2, <2>3 DEF Is
  <2> QED
    BY <1>6, <2>2, <2>3, <2>4, <2>5
<1>8. CASE PeerAnswersGet(c)
  <2>1. wire' = [wire EXCEPT ![c] = Append(wire[c], GetResp)] /\ sent' = sent
    BY <1>8 DEF PeerAnswersGet
  <2>2. sent' = [sent EXCEPT ![c] = sent[c]] /\ sent[c] \in [Tags -> Nat]
    BY <1>0, <2>1
  <2>3. GetResp.kind # "SEND"
    BY DEF GetResp
  <2>4. GetResp \in Sent \cup NotSends
    BY DEF NotSends
  <2>5. \A t \in Tags : ~Is(GetResp, t)
    BY <2>3 DEF Is
  <2> QED
    BY <1>6, <2>1, <2>2, <2>3, <2>4, <2>5
<1>9. CASE PeerConnects(c) \/ PeerCloses(c)
  <2>1. wire' = wire /\ sent' = sent
    BY <1>9 DEF PeerConnects, PeerCloses
  <2> QED
    BY <1>4, <1>5, <2>1 DEF Streams
<1>10. ASSUME NEW f \in Asks, PeerAsks(c, f)
       PROVE  Streams'
  <2>1. wire' = [wire EXCEPT ![c] = Append(wire[c], f)] /\ sent' = sent
    BY <1>10 DEF PeerAsks
  <2>2. sent' = [sent EXCEPT ![c] = sent[c]] /\ sent[c] \in [Tags -> Nat]
    BY <1>0, <2>1
  <2>3. f.kind # "SEND"
    BY DEF Asks
  <2>4. f \in Sent \cup NotSends
    BY DEF NotSends
  <2>5. \A t \in Tags : ~Is(f, t)
    BY <2>3 DEF Is
  <2> QED
    BY <1>6, <2>1, <2>2, <2>3, <2>4, <2>5
<1> QED
  BY <1>7, <1>8, <1>9, <1>10 DEF PeerStep

\* A reader takes the next frame into its hand.
LEMMA ReadStreams ==
    ASSUME NetTypes, Streams, NEW c \in Conns, Read(c)
    PROVE  Streams'
<1>0. /\ wire \in [Conns -> Seq(Sent \cup NotSends)] /\ sent \in [Conns -> [Tags -> Nat]]
      /\ reader \in [Conns -> Threads] /\ hand \in [Conns -> Sent \cup NotSends \cup {NoFrame}]
  BY DEF NetTypes
<1>1. /\ UNCHANGED <<sent, inbox, got>> /\ wire[c] # << >> /\ reader[c] = "reading"
      /\ reader' = [reader EXCEPT ![c] = "got"]
      /\ hand' = [hand EXCEPT ![c] = Head(wire[c])]
      /\ wire' = [wire EXCEPT ![c] = Tail(wire[c])]
  BY DEF Read, ReaderGoes, boxVars, appVars
<1>2. /\ reader'[c] = "got" /\ hand'[c] = Head(wire[c]) /\ wire'[c] = Tail(wire[c])
      /\ \A d \in Conns : d # c => /\ reader'[d] = reader[d] /\ hand'[d] = hand[d]
                                   /\ wire'[d] = wire[d]
  BY <1>0, <1>1
<1>3. \A p \in Peers, t \in Tags : Arrived(p, t)' = Arrived(p, t)
  BY <1>1 DEF Arrived
<1>4. \A d \in Conns, t \in Tags : Count(Arrived(Peer(d), t), d)' = Count(Arrived(Peer(d), t), d)
  BY <1>3, ConnPeer
<1>5. \A p \in Peers, t \in Tags : Arrivals(p, t)'
  <2>1. \A d \in Conns : reader'[d] = "none" => reader[d] = "none"
    BY <1>1, <1>2
  <2> QED
    BY <2>1, <1>3, ArrivalsStay DEF Streams
<1>6. ASSUME NEW d \in Conns, d # c
      PROVE  Stream(d)'
  BY <1>1, <1>2, <1>4, <1>6, StreamStays DEF Streams, Live
<1>7. Stream(c) /\ Live(c) /\ hand[c] = NoFrame
  BY <1>1 DEF Streams, Stream, Live
<1> DEFINE w == wire[c]
           S == Sent \cup NotSends
<1>8. /\ w \in Seq(S) /\ w # << >>
      /\ \A i \in 1..Len(w) : w[i].kind = "SEND" => w[i].conn = c
  BY <1>0, <1>1, <1>7 DEF Stream
<1>9. /\ \A i \in 1..Len(Tail(w)) : Tail(w)[i].kind = "SEND" => Tail(w)[i].conn = c
      /\ Head(w).kind = "SEND" => Head(w).conn = c
  <2> HIDE DEF w, S
  <2>1. /\ Len(w) \in Nat \ {0} /\ Len(Tail(w)) = Len(w) - 1 /\ Head(w) = w[1]
        /\ \A i \in 1..Len(Tail(w)) : Tail(w)[i] = w[i + 1]
    BY <1>8, HeadTailProperties, EmptySeq
  <2>2. 1 \in 1..Len(w) /\ \A i \in 1..Len(Tail(w)) : i + 1 \in 1..Len(w)
    BY <2>1
  <2> QED
    BY <1>8, <2>1, <2>2
<1>10. ASSUME NEW t \in Tags
       PROVE  Continues(Head(w), Tail(w), t, Count(Arrived(Peer(c), t), c), sent[c][t])
  <2>1. Continues(NoFrame, w, t, Count(Arrived(Peer(c), t), c), sent[c][t])
    BY <1>7 DEF Stream
  <2>2. ~Is(NoFrame, t)
    BY DEF Is, NoFrame
  <2>3. Count(Arrived(Peer(c), t), c) \in Nat
    <3>1. Arrived(Peer(c), t) \in Seq(Sent)
      BY ConnPeer, ArrivedTyped
    <3> QED
      BY <3>1, CountNat
  <2>4. sent[c][t] \in Nat
    BY <1>0
  <2> HIDE DEF w, S
  <2> QED
    BY <1>8, <2>1, <2>2, <2>3, <2>4, ContinuesRead
<1> HIDE DEF S
<1>11. Stream(c)'
  <2>1. \A t \in Tags : Continues(hand'[c], wire'[c], t,
                                  Count(Arrived(Peer(c), t), c)', sent'[c][t])
    BY <1>1, <1>2, <1>4, <1>10
  <2> QED
    BY <1>2, <1>9, <2>1 DEF Stream
<1> QED
  BY <1>5, <1>6, <1>11 DEF Streams

\* A reader is done with the frame in its hand.  If that was a message it is in the
\* inbox now: it is the next of its connection and tag.
LEMMA DispatchStreams ==
    ASSUME NetTypes, Streams, NEW c \in Conns, Dispatch(c) \/ Answered(c)
    PROVE  Streams'
<1>0. /\ wire \in [Conns -> Seq(Sent \cup NotSends)] /\ sent \in [Conns -> [Tags -> Nat]]
      /\ reader \in [Conns -> Threads] /\ hand \in [Conns -> Sent \cup NotSends \cup {NoFrame}]
      /\ Peer(c) \in Peers
  BY ConnPeer DEF NetTypes
<1>1. /\ UNCHANGED <<sent, wire>> /\ reader[c] \in {"fresh", "replying"}
      /\ reader' = [reader EXCEPT ![c] = IF phase = "dropping" THEN "ending" ELSE "reading"]
      /\ hand' = [hand EXCEPT ![c] = NoFrame]
      /\ hand[c].kind = "SEND" => Dispatch(c)
  BY DEF Dispatch, Answered, AfterFrame, ReaderGoes, connVars, Streams, Stream
<1>2. /\ reader'[c] \in {"ending", "reading"} /\ hand'[c] = NoFrame
      /\ \A d \in Conns : d # c => reader'[d] = reader[d] /\ hand'[d] = hand[d]
      /\ \A d \in Conns : reader'[d] = "none" => reader[d] = "none"
  BY <1>0, <1>1
<1>3. Stream(c) /\ Live(c) /\ NoFrame.kind # "SEND" /\ \A t \in Tags : ~Is(NoFrame, t)
  BY <1>1 DEF Streams, Stream, Live, NoFrame, Is
<1> DEFINE lo(t) == Count(Arrived(Peer(c), t), c)
<1>4. \A t \in Tags : lo(t) \in Nat /\ sent[c][t] \in Nat /\ Arrived(Peer(c), t) \in Seq(Sent)
  <2>1. \A t \in Tags : Arrived(Peer(c), t) \in Seq(Sent)
    BY <1>0, ArrivedTyped
  <2> QED
    BY <1>0, <2>1, CountNat
<1>5. ASSUME NEW t \in Tags
      PROVE  /\ Is(hand[c], t) => /\ hand[c].n = lo(t) + 1
                                  /\ Continues(NoFrame, wire[c], t, lo(t) + 1, sent[c][t])
             /\ ~Is(hand[c], t) => Continues(NoFrame, wire[c], t, lo(t), sent[c][t])
  <2>1. wire[c] \in Seq(Sent \cup NotSends)
    BY <1>0
  <2>2. Continues(hand[c], wire[c], t, lo(t), sent[c][t])
    BY <1>3 DEF Stream
  <2> DEFINE S == Sent \cup NotSends
  <2> HIDE DEF lo, S
  <2> QED
    BY <1>3, <1>4, <2>1, <2>2, ContinuesDispatch DEF S
<1>6. CASE hand[c].kind # "SEND"
  <2>1. UNCHANGED <<inbox, got>>
    BY <1>6 DEF Dispatch, Answered, boxVars, appVars
  <2>2. \A p \in Peers, t \in Tags : Arrived(p, t)' = Arrived(p, t)
    BY <2>1 DEF Arrived
  <2>3. \A d \in Conns, t \in Tags : Count(Arrived(Peer(d), t), d)' = Count(Arrived(Peer(d), t), d)
    BY <2>2, ConnPeer
  <2>4. \A p \in Peers, t \in Tags : Arrivals(p, t)'
    BY <1>2, <2>2, ArrivalsStay DEF Streams
  <2>5. ASSUME NEW d \in Conns, d # c
        PROVE  Stream(d)'
    BY <1>1, <1>2, <2>3, <2>5, StreamStays DEF Streams, Live
  <2>6. Stream(c)'
    <3>1. \A t \in Tags : Continues(hand'[c], wire'[c], t,
                                    Count(Arrived(Peer(c), t), c)', sent'[c][t])
      BY <1>1, <1>2, <1>5, <1>6, <2>3 DEF Is
    <3> QED
      BY <1>1, <1>2, <1>3, <3>1 DEF Stream
  <2> QED
    BY <2>4, <2>5, <2>6 DEF Streams
<1>7. CASE hand[c].kind = "SEND"
  <2> DEFINE u == hand[c].tag
             e == hand[c]
             r == Peer(c)
  <2>1. e \in Sent /\ u \in Tags /\ e.conn = c /\ Is(e, u) /\ r \in Peers
    BY <1>1, <1>3, <1>7, DispatchIs DEF Stream, Is
  <2>2. \A p \in Peers, t \in Tags :
           Arrived(p, t)' = IF p = r /\ t = u THEN Append(Arrived(p, t), e) ELSE Arrived(p, t)
    BY <1>1, <1>7, ArrivedMore
  <2>3. e.n = lo(u) + 1
    BY <1>5, <2>1
  <2> HIDE DEF e
  <2>4. ASSUME NEW p \in Peers, NEW t \in Tags
        PROVE  Arrivals(p, t)'
    <3>1. CASE p = r /\ t = u
      <4> DEFINE s == Arrived(r, u)
                 v == Append(s, e)
      <4>1. /\ s \in Seq(Sent) /\ Numbered(s) /\ Arrived(p, t)' = v
            /\ \A i \in 1..Len(s) : s[i].conn \in Conns /\ Peer(s[i].conn) = r /\ reader[s[i].conn] # "none"
            /\ e.n = Count(s, e.conn) + 1
        BY <1>4, <2>1, <2>2, <2>3, <3>1 DEF Streams, Arrivals
      <4> HIDE DEF s
      <4>2. Numbered(v)
        BY <2>1, <4>1, NumberedAppend
      <4>3. /\ Len(s) \in Nat /\ Len(v) = Len(s) + 1 /\ v[Len(s) + 1] = e
            /\ \A i \in 1..Len(s) : v[i] = s[i]
        BY <2>1, <4>1, AppendProperties
      <4> HIDE DEF v
      <4>4. \A i \in 1..Len(v) : i \in 1..Len(s) \/ i = Len(s) + 1
        BY <4>3
      <4>5. \A i \in 1..Len(v) : v[i].conn \in Conns /\ Peer(v[i].conn) = r /\ reader'[v[i].conn] # "none"
        <5> SUFFICES ASSUME NEW i \in 1..Len(v)
                     PROVE  v[i].conn \in Conns /\ Peer(v[i].conn) = r /\ reader'[v[i].conn] # "none"
          OBVIOUS
        <5>1. CASE i \in 1..Len(s)
          BY <1>2, <4>1, <4>3, <5>1
        <5>2. CASE i = Len(s) + 1
          BY <1>2, <2>1, <4>3, <5>2
        <5> QED
          BY <4>4, <5>1, <5>2
      <4> QED
        BY <3>1, <4>1, <4>2, <4>5 DEF Arrivals
    <3>2. CASE ~(p = r /\ t = u)
      BY <1>2, <2>2, <3>2, ArrivalsStay DEF Streams
    <3> QED
      BY <3>1, <3>2
  <2>5. ASSUME NEW d \in Conns, d # c
        PROVE  Stream(d)'
    <3>1. ASSUME NEW t \in Tags
          PROVE  Count(Arrived(Peer(d), t), d)' = Count(Arrived(Peer(d), t), d)
      <4>1. Peer(d) \in Peers /\ Arrived(Peer(d), t) \in Seq(Sent)
        BY ConnPeer, ArrivedTyped
      <4>2. Count(Append(Arrived(Peer(d), t), e), d) = Count(Arrived(Peer(d), t), d)
        <5> DEFINE s == Arrived(Peer(d), t)
        <5> HIDE DEF s
        <5>1. s \in Seq(Sent)
          BY <4>1 DEF s
        <5>2. /\ Count(s, d) \in Nat
              /\ Count(Append(s, e), d) = Count(s, d) + (IF e.conn = d THEN 1 ELSE 0)
          BY <2>1, <5>1, CountAppend
        <5>3. Count(Append(s, e), d) = Count(s, d)
          BY <2>1, <2>5, <5>2
        <5> QED
          BY <5>3 DEF s
      <4>3. CASE Peer(d) = r /\ t = u
        BY <2>2, <4>1, <4>2, <4>3
      <4>4. CASE ~(Peer(d) = r /\ t = u)
        BY <2>2, <4>1, <4>4
      <4> QED
        BY <4>3, <4>4
    <3> QED
      BY <1>1, <1>2, <2>5, <3>1, StreamStays DEF Streams, Live
  <2>6. Stream(c)'
    <3>1. ASSUME NEW t \in Tags
          PROVE  Continues(hand'[c], wire'[c], t, Count(Arrived(Peer(c), t), c)', sent'[c][t])
      <4>1. CASE t = u
        <5> DEFINE s == Arrived(r, t)
        <5>1. s \in Seq(Sent) /\ Arrived(r, t)' = Append(s, e)
          BY <1>4, <2>1, <2>2, <4>1
        <5> HIDE DEF s
        <5>2. /\ Count(s, c) \in Nat
              /\ Count(Append(s, e), c) = Count(s, c) + (IF e.conn = c THEN 1 ELSE 0)
          BY <2>1, <5>1, CountAppend
        <5>3. Count(Append(s, e), c) = Count(s, c) + 1
          BY <2>1, <5>2
        <5>4. Count(Arrived(r, t), c)' = lo(t) + 1
          BY <4>1, <5>1, <5>3 DEF s
        <5>5. Is(hand[c], t)
          BY <2>1, <4>1 DEF e
        <5> QED
          BY <1>1, <1>2, <1>5, <5>4, <5>5
      <4>2. CASE t # u
        <5>1. ~Is(hand[c], t)
          BY <4>2 DEF Is
        <5>2. Arrived(r, t)' = Arrived(r, t)
          BY <2>1, <2>2, <4>2
        <5> QED
          BY <1>1, <1>2, <1>5, <5>1, <5>2
      <4> QED
        BY <4>1, <4>2
    <3> QED
      BY <1>1, <1>2, <1>3, <3>1 DEF Stream
  <2> QED
    BY <2>4, <2>5, <2>6 DEF Streams
<1> QED
  BY <1>6, <1>7

\* Every step keeps the streams.
LEMMA StreamsKept ==
    ASSUME NetTypes, Wired, Streams, [Next]_vars
    PROVE  Streams'
<1>0. reader \in [Conns -> Threads] /\ sock \in [Conns -> Socks]
  BY DEF NetTypes
<1>1. ASSUME UNCHANGED <<wire, sent, hand>>,
             \A c \in Conns : Dispatch(c) => hand[c].kind # "SEND",
             \A d \in Conns : /\ Live(d)' => Live(d)
                              /\ reader'[d] \in {"none", "reading"} =>
                                    reader[d] \in {"none", "reading"}
                              /\ reader'[d] = "replying" =>
                                    reader[d] = "replying" \/ hand[d].kind # "SEND"
      PROVE  Streams'
  <2>1. \A p \in Peers, t \in Tags : Arrived(p, t)' = Arrived(p, t)
    BY <1>1, ArrivedSame
  <2>2. \A d \in Conns, t \in Tags : Count(Arrived(Peer(d), t), d)' = Count(Arrived(Peer(d), t), d)
    BY <2>1, ConnPeer
  <2>3. \A d \in Conns : reader'[d] = "none" => reader[d] = "none"
    BY NothingUnborn
  <2>4. \A p \in Peers, t \in Tags : Arrivals(p, t)'
    BY <2>1, <2>3, ArrivalsStay DEF Streams
  <2>5. \A d \in Conns : Stream(d)'
    BY <1>1, <2>2, StreamStays DEF Streams
  <2> QED
    BY <2>4, <2>5 DEF Streams
<1>2. ASSUME NEW p \in Dialed, Dial(p)
      PROVE  Streams'
  <2>1. p \in Peers
    BY <1>2, ConstantsAssumption DEF NetTypes, Dialed, Setup
  <2>2. /\ sock[<<p, 1>>] = "unborn" /\ UNCHANGED <<wire, sent, hand>>
        /\ reader' = [reader EXCEPT ![<<p, 1>>] = "reading"]
    BY <1>2 DEF Dial
  <2>3. <<p, 1>> \in Conns /\ reader[<<p, 1>>] = "none"
    BY <2>1, <2>2, ConnPeer DEF Wired
  <2>4. \A d \in Conns : reader'[d] = IF d = <<p, 1>> THEN "reading" ELSE reader[d]
    BY <1>0, <2>2
  <2>5. \A c \in Conns : ~Dispatch(c)
    BY <1>0, <2>3, <2>4 DEF Dispatch, AfterFrame, ReaderGoes
  <2> QED
    BY <1>1, <2>2, <2>3, <2>4, <2>5 DEF Live
<1>3. ASSUME NEW c \in Conns, \/ AcceptMesh(c) \/ AcceptStar(c) \/ HelloFails(c)
                              \/ ReadFails(c) \/ CheckGen(c) \/ EndCheck(c) \/ MarkLost(c)
                              \/ NotifyLost(c) \/ Answer(c)
      PROVE  Streams'
  <2>1. UNCHANGED <<wire, sent, hand>>
    BY <1>3 DEF AcceptMesh, AcceptStar, HelloFails, ReadFails, CheckGen, EndCheck, MarkLost,
                NotifyLost, Answer, connVars
  <2>2. \E x \in Threads : /\ reader' = [reader EXCEPT ![c] = x]
                           /\ x \in {"none", "reading", "got", "fresh", "replying"} => Live(c)
                           /\ x \in {"none", "reading"} => reader[c] \in {"none", "reading"}
                           /\ x = "replying" => hand[c].kind # "SEND"
    <3>1. CASE AcceptMesh(c) \/ AcceptStar(c) \/ HelloFails(c)
      BY <3>1 DEF AcceptMesh, AcceptStar, HelloFails, Queued, Live, Threads
    <3>2. CASE ReadFails(c) \/ CheckGen(c) \/ EndCheck(c) \/ MarkLost(c) \/ NotifyLost(c)
      BY <3>2 DEF ReadFails, CheckGen, EndCheck, MarkLost, NotifyLost, ReaderGoes, Live, Threads
    <3>3. CASE Answer(c)
      BY <3>3 DEF Answer, ReaderGoes, Live, Threads
    <3> QED
      BY <1>3, <3>1, <3>2, <3>3
  <2>3. \A d \in Conns : Dispatch(d) => hand[d].kind # "SEND"
    <3> SUFFICES ASSUME NEW d \in Conns, Dispatch(d)
                 PROVE  hand[d].kind # "SEND"
      OBVIOUS
    <3>1. hand' = [hand EXCEPT ![d] = NoFrame] /\ hand \in [Conns -> Sent \cup NotSends \cup {NoFrame}]
      BY DEF Dispatch, NetTypes
    <3>2. hand[d] = NoFrame
      BY <2>1, <3>1
    <3> QED
      BY <3>2 DEF NoFrame
  <2>4. PICK x \in Threads :
           /\ reader' = [reader EXCEPT ![c] = x]
           /\ x \in {"none", "reading", "got", "fresh", "replying"} => Live(c)
           /\ x \in {"none", "reading"} => reader[c] \in {"none", "reading"}
           /\ x = "replying" => hand[c].kind # "SEND"
    BY <2>2
  <2>5. \A d \in Conns : reader'[d] = IF d = c THEN x ELSE reader[d]
    BY <1>0, <2>4
  <2> QED
    BY <1>1, <2>1, <2>3, <2>4, <2>5 DEF Live
<1>4. CASE \/ DialFails \/ StartAccepting \/ AppCall \/ AppStep \/ DeadlinePasses \/ Drop
           \/ DropStep \/ UNCHANGED vars
  <2>1. UNCHANGED <<wire, sent, hand, reader>>
    BY <1>4 DEF DialFails, StartAccepting, AppCall, GetCall, RecvCall, AppStep, RecvTake,
                RecvCheck, RecvWait, GetTake, DeadlinePasses, Drop, DropStep, Joined, ShutDown,
                connVars, readerVars, vars
  <2>2. ASSUME NEW c \in Conns, Dispatch(c)
        PROVE  FALSE
    <3>1. \/ reader' = [reader EXCEPT ![c] = "ending"]
          \/ reader' = [reader EXCEPT ![c] = "reading"]
      BY <2>2 DEF Dispatch, AfterFrame, ReaderGoes
    <3>2. reader[c] = "fresh"
      BY <2>2 DEF Dispatch, AfterFrame, ReaderGoes
    <3> QED
      BY <1>0, <2>1, <3>1, <3>2
  <2>3. \A d \in Conns : Live(d)' = Live(d) /\ reader'[d] = reader[d]
    BY <2>1 DEF Live
  <2> QED
    BY <1>1, <2>1, <2>2, <2>3
<1> QED
  BY <1>2, <1>3, <1>4, PeerStreams, ReadStreams, DispatchStreams
     DEF ReaderMoves, Next, Construct, ReaderStep, PeerTakesAnswer, AnswerFails

-----------------------------------------------------------------------------
(* A peer that is gone.                                                    *)

\* Rank p has closed its first connection and all it had sent on it has arrived.
Drained(p) ==
    /\ sock[<<p, 1>>] = "closed"
    /\ \A t \in Tags : Count(Arrived(p, t), <<p, 1>>) = sent[<<p, 1>>][t]

\* What the end of the reader of p's only connection means.
Ended(p) ==
    /\ reader[<<p, 1>>] = "ending" /\ phase # "dropping" => Drained(p)
    /\ reader[<<p, 1>>] \in {"marking", "notifying"} \/ lost[p] => Drained(p) /\ ~Live(<<p, 1>>)

Losses == \A p \in Peers : ~Again(p) => Ended(p)

\* A connection its peer has closed stays closed, and nothing more is sent on it.
LEMMA ClosedStays ==
    ASSUME NetTypes, [Next]_vars, NEW c \in Conns, sock[c] = "closed"
    PROVE  sock'[c] = "closed" /\ sent'[c] = sent[c]
<1>0. sock \in [Conns -> Socks] /\ sent \in [Conns -> [Tags -> Nat]]
  BY DEF NetTypes
<1>1. ASSUME NEW d \in Conns, PeerConnects(d) \/ PeerCloses(d)
      PROVE  sock'[c] = "closed" /\ sent'[c] = sent[c]
  <2>1. /\ sent' = sent /\ sock[d] # "closed"
        /\ \E x \in Socks : sock' = [sock EXCEPT ![d] = x]
    BY <1>1 DEF PeerConnects, PeerCloses, Socks
  <2> QED
    BY <1>0, <2>1
<1>2. ASSUME NEW d \in Conns, NEW t \in Tags, PeerSends(d, t)
      PROVE  sock'[c] = "closed" /\ sent'[c] = sent[c]
  <2>1. /\ sock' = sock /\ sock[d] # "closed"
        /\ sent' = [sent EXCEPT ![d][t] = sent[d][t] + 1]
    BY <1>2 DEF PeerSends
  <2> QED
    BY <1>0, <2>1
<1>3. ASSUME NEW p \in Dialed, Dial(p)
      PROVE  sock'[c] = "closed" /\ sent'[c] = sent[c]
  <2>1. /\ sent' = sent /\ sock[<<p, 1>>] = "unborn"
        /\ sock' = [sock EXCEPT ![<<p, 1>>] = "open"]
    BY <1>3 DEF Dial
  <2> QED
    BY <1>0, <2>1
<1>4. ASSUME NEW d \in Conns, AcceptMesh(d) \/ AcceptStar(d)
      PROVE  sock'[c] = "closed" /\ sent'[c] = sent[c]
  <2>1. sent' = sent /\ sock' = [sock EXCEPT ![d] = Established(d)]
    BY <1>4 DEF AcceptMesh, AcceptStar
  <2>2. d = c => Established(d) = "closed"
    BY DEF Established
  <2> QED
    BY <1>0, <2>1, <2>2
<1>5. ASSUME NEW d \in Conns, \/ PeerAnswersGet(d) \/ (\E f \in Asks : PeerAsks(d, f))
                              \/ ReaderMoves(d) \/ HelloFails(d)
      PROVE  sock'[c] = "closed" /\ sent'[c] = sent[c]
  BY <1>5 DEF PeerAnswersGet, PeerAsks, ReaderMoves, ReaderStep, PeerTakesAnswer, Read, ReadFails,
              CheckGen, Dispatch, Answer, AnswerFails, Answered, EndCheck, MarkLost,
              NotifyLost, HelloFails, connVars
<1>6. CASE \/ DialFails \/ StartAccepting \/ AppCall \/ AppStep \/ DeadlinePasses \/ Drop
           \/ DropStep \/ UNCHANGED vars
  BY <1>6 DEF DialFails, StartAccepting, AppCall, GetCall, RecvCall, AppStep, RecvTake,
              RecvCheck, RecvWait, GetTake, DeadlinePasses, Drop, DropStep, Joined, ShutDown,
              connVars, vars
<1> QED
  BY <1>1, <1>2, <1>3, <1>4, <1>5, <1>6 DEF ReaderMoves, Next, PeerStep, Construct

\* Once the reader of p's only connection has ended, nothing of p arrives.
LEMMA DrainedStays ==
    ASSUME NetTypes, Wired, [Next]_vars, NEW p \in Peers, ~Again(p), Drained(p),
           ~Live(<<p, 1>>)
    PROVE  Drained(p)'
<1>1. <<p, 1>> \in Conns /\ <<p, 2>> \in Conns /\ sock[<<p, 1>>] = "closed"
  BY ConnPeer DEF Drained
<1>2. sock'[<<p, 1>>] = "closed" /\ sent'[<<p, 1>>] = sent[<<p, 1>>]
  BY <1>1, ClosedStays
<1>3. \A t \in Tags : Arrived(p, t)' = Arrived(p, t)
  <2>1. ASSUME NEW d \in Conns, Dispatch(d)
        PROVE  Peer(d) # p
    <3>1. reader[d] = "fresh"
      BY <2>1 DEF Dispatch, AfterFrame, ReaderGoes
    <3>2. d # <<p, 1>>
      BY <3>1 DEF Live
    <3>3. d # <<p, 2>>
      BY <1>1, <3>1 DEF Wired, Again
    <3> QED
      BY <3>2, <3>3, ConnPeer
  <2>2. CASE \A d \in Conns : Dispatch(d) => hand[d].kind # "SEND"
    BY <2>2, ArrivedSame
  <2>3. ASSUME NEW d \in Conns, Dispatch(d), hand[d].kind = "SEND"
        PROVE  \A t \in Tags : Arrived(p, t)' = Arrived(p, t)
    BY <2>1, <2>3, ArrivedMore
  <2> QED
    BY <2>2, <2>3
<1> QED
  BY <1>2, <1>3 DEF Drained

\* A step that is not of the reader of p's only connection.
LEMMA EndedStays ==
    ASSUME NetTypes, Wired, [Next]_vars, NEW p \in Peers, ~Again(p), Ended(p),
           reader'[<<p, 1>>] = reader[<<p, 1>>], lost'[p] => lost[p],
           phase = "dropping" => phase' = "dropping" \/ reader[<<p, 1>>] # "ending"
    PROVE  Ended(p)'
<1>1. Live(<<p, 1>>)' = Live(<<p, 1>>)
  BY DEF Live
<1>2. reader[<<p, 1>>] = "ending" => ~Live(<<p, 1>>)
  BY DEF Live
<1>3. Drained(p) /\ ~Live(<<p, 1>>) => Drained(p)'
  BY DrainedStays
<1> QED
  BY <1>1, <1>2, <1>3 DEF Ended

\* read_frame fails on the only connection of p while this rank runs: all has arrived.
LEMMA ReadFailsDrained ==
    ASSUME NetTypes, Wired, Streams, NEW p \in Peers, ~Again(p), ReadFails(<<p, 1>>),
           phase # "dropping"
    PROVE  Drained(p)
<1> DEFINE c == <<p, 1>>
<1>1. c \in Conns /\ Peer(c) = p /\ reader[c] = "reading"
  BY ConnPeer DEF ReadFails, ReaderGoes
<1>2. phase # "down"
  BY <1>1 DEF Wired
<1>3. ~cut[c]
  BY <1>2 DEF Wired
<1>4. sock[c] = "closed" /\ wire[c] = << >>
  BY <1>3 DEF ReadFails
<1>5. hand[c] = NoFrame /\ Live(c) /\ Stream(c)
  BY <1>1 DEF Streams, Stream, Live
<1>6. ASSUME NEW t \in Tags
      PROVE  Count(Arrived(p, t), c) = sent[c][t]
  <2>1. Continues(NoFrame, << >>, t, Count(Arrived(p, t), c), sent[c][t])
    BY <1>1, <1>4, <1>5 DEF Stream
  <2>2. Arrived(p, t) \in Seq(Sent) /\ sent[c][t] \in Nat
    BY <1>1, ArrivedTyped DEF NetTypes
  <2>3. Count(Arrived(p, t), c) \in Nat
    BY <2>2, CountNat
  <2> DEFINE lo == Count(Arrived(p, t), c)
             n == sent[c][t]
  <2>4. lo \in Nat /\ n \in Nat /\ Continues(NoFrame, << >>, t, lo, n)
    BY <2>1, <2>2, <2>3
  <2> HIDE DEF lo, n
  <2>5. Nth(NoFrame, << >>, 0) = NoFrame /\ ~Is(NoFrame, t) /\ 0..Len(<< >>) = {0}
    BY DEF Nth, Is, NoFrame
  <2>6. lo =< n /\ (lo + 1)..n = {}
    BY <2>4, <2>5 DEF Continues
  <2>7. lo = n
    <3>1. n \notin (lo + 1)..n
      BY <2>6
    <3> QED
      BY <2>4, <2>6, <3>1
  <2> QED
    BY <2>7 DEF lo, n
<1> QED
  BY <1>4, <1>6 DEF Drained

\* The steps of a reader.
LEMMA ReaderLosses ==
    ASSUME NetTypes, Wired, Streams, Losses, NEW c \in Conns, ReaderMoves(c), [Next]_vars
    PROVE  Losses'
<1>0. /\ reader \in [Conns -> Threads] /\ lost \in [Peers -> BOOLEAN]
      /\ Peer(c) \in Peers /\ phase' = phase
      /\ UNCHANGED <<sock, sent, connGen, mine>>
  BY ConnPeer DEF NetTypes, ReaderMoves, ReaderStep, PeerTakesAnswer, Read, ReadFails,
                  CheckGen, Dispatch, Answer, AnswerFails, Answered, EndCheck, MarkLost,
                  NotifyLost, connVars, linkVars
<1> SUFFICES ASSUME NEW p \in Peers, ~Again(p)'
             PROVE  Ended(p)'
  BY DEF Losses
<1> DEFINE d == <<p, 1>>
<1>1. ~Again(p) /\ Ended(p) /\ d \in Conns /\ Peer(d) = p
  BY NothingUnborn, ConnPeer DEF Losses
<1>2. \E x \in Threads : reader' = [reader EXCEPT ![c] = x]
  BY DEF ReaderMoves, ReaderStep, PeerTakesAnswer, Read, ReadFails, CheckGen, Dispatch, Answer,
         AnswerFails, Answered, EndCheck, MarkLost, NotifyLost, AfterFrame, ReaderGoes, Threads
<1>3. CASE c # d
  <2>1. reader'[d] = reader[d]
    BY <1>0, <1>1, <1>2, <1>3
  <2>2. c # <<p, 2>>
    <3>1. reader[c] # "none"
      BY DEF ReaderMoves, ReaderStep, PeerTakesAnswer, Read, ReadFails, CheckGen, Dispatch,
             Answer, AnswerFails, Answered, EndCheck, MarkLost, NotifyLost, AfterFrame, ReaderGoes
    <3> QED
      BY <1>1, <3>1 DEF Wired, Again
  <2>3. Peer(c) # p
    BY <1>3, <2>2, ConnPeer
  <2>4. lost'[p] = lost[p]
    <3>1. lost' = lost \/ lost' = [lost EXCEPT ![Peer(c)] = TRUE]
      BY DEF ReaderMoves, ReaderStep, PeerTakesAnswer, Read, ReadFails, CheckGen, Dispatch,
             Answer, AnswerFails, Answered, EndCheck, MarkLost, NotifyLost, linkVars
    <3> QED
      BY <1>0, <2>3, <3>1
  <2> QED
    BY <1>0, <1>1, <2>1, <2>4, EndedStays
<1>4. CASE c = d
  <2>0. connGen[p] = mine[d]
    BY <1>1 DEF Wired
  <2>1. CASE Read(c) \/ CheckGen(c) \/ Dispatch(c) \/ Answer(c) \/ Answered(c)
    <3>1. /\ lost' = lost /\ Live(d)
          /\ \/ \E x \in {"got", "fresh", "replying", "reading"} :
                    reader' = [reader EXCEPT ![d] = x]
             \/ phase = "dropping" /\ reader' = [reader EXCEPT ![d] = "ending"]
      BY <1>1, <1>4, <2>0, <2>1 DEF Read, CheckGen, Dispatch, Answer, Answered, AfterFrame,
                                          ReaderGoes, linkVars, Live
    <3>2. \/ reader'[d] \in {"got", "fresh", "replying", "reading"}
          \/ phase = "dropping" /\ reader'[d] = "ending"
      BY <1>0, <1>1, <3>1
    <3>3. ~lost'[p]
      BY <1>1, <3>1 DEF Ended
    <3> QED
      BY <1>0, <3>2, <3>3 DEF Ended
  <2>2. CASE ReadFails(c) \/ EndCheck(c) \/ MarkLost(c) \/ NotifyLost(c)
    <3>1. UNCHANGED <<inbox, got>>
      BY <2>2 DEF ReadFails, EndCheck, MarkLost, NotifyLost, boxVars, appVars
    <3>2. Drained(p)' = Drained(p)
      BY <1>0, <3>1 DEF Drained, Arrived
    <3>3. CASE ReadFails(c)
      <4>1. reader[d] = "reading" /\ reader' = [reader EXCEPT ![d] = "ending"] /\ lost' = lost
        BY <1>4, <3>3 DEF ReadFails, ReaderGoes, linkVars
      <4>2. reader'[d] = "ending" /\ Live(d)
        BY <1>0, <1>1, <4>1 DEF Live
      <4>3. ~lost'[p]
        BY <1>1, <4>1, <4>2 DEF Ended
      <4>4. phase' # "dropping" => Drained(p)'
        BY <1>0, <1>1, <1>4, <3>2, <3>3, ReadFailsDrained
      <4> QED
        BY <4>2, <4>3, <4>4 DEF Ended
    <3>4. CASE EndCheck(c)
      <4>1. /\ reader[d] = "ending" /\ lost' = lost
            /\ \/ reader' = [reader EXCEPT ![d] = "done"]
               \/ phase # "dropping" /\ reader' = [reader EXCEPT ![d] = "marking"]
        BY <1>4, <3>4 DEF EndCheck, ReaderGoes, linkVars
      <4>2. /\ ~Live(d)'
            /\ \/ reader'[d] = "done"
               \/ phase # "dropping" /\ reader'[d] = "marking"
        BY <1>0, <1>1, <4>1 DEF Live
      <4> QED
        BY <1>1, <3>2, <4>1, <4>2 DEF Ended
    <3>5. CASE MarkLost(c)
      <4>1. reader[d] = "marking" /\ reader' = [reader EXCEPT ![d] = "notifying"]
        BY <1>4, <3>5 DEF MarkLost, ReaderGoes
      <4>2. reader'[d] = "notifying" /\ ~Live(d)'
        BY <1>0, <1>1, <4>1 DEF Live
      <4> QED
        BY <1>1, <3>2, <4>1, <4>2 DEF Ended
    <3>6. CASE NotifyLost(c)
      <4>1. reader[d] = "notifying" /\ reader' = [reader EXCEPT ![d] = "done"]
        BY <1>4, <3>6 DEF NotifyLost, ReaderGoes
      <4>2. reader'[d] = "done" /\ ~Live(d)'
        BY <1>0, <1>1, <4>1 DEF Live
      <4> QED
        BY <1>1, <3>2, <4>1, <4>2 DEF Ended
    <3> QED
      BY <2>2, <3>3, <3>4, <3>5, <3>6
  <2> QED
    BY <2>1, <2>2 DEF ReaderMoves, ReaderStep, PeerTakesAnswer, AnswerFails
<1> QED
  BY <1>3, <1>4

\* Every step keeps what the end of a reader means.
LEMMA LossesKept ==
    ASSUME NetTypes, Wired, Streams, Losses, [Next]_vars
    PROVE  Losses'
<1>0. reader \in [Conns -> Threads] /\ lost \in [Peers -> BOOLEAN]
  BY DEF NetTypes
<1>1. ASSUME NEW c \in Conns, reader[c] = "none",
             \E x \in {"reading", "done"} : reader' = [reader EXCEPT ![c] = x],
             \A p \in Peers : lost'[p] => lost[p], phase # "dropping"
      PROVE  Losses'
  <2> SUFFICES ASSUME NEW p \in Peers, ~Again(p)'
               PROVE  Ended(p)'
    BY DEF Losses
  <2>1. ~Again(p) /\ Ended(p) /\ <<p, 1>> \in Conns
    BY NothingUnborn, ConnPeer DEF Losses
  <2>2. CASE c = <<p, 1>>
    <3>1. ~lost'[p]
      BY <1>1, <2>1, <2>2 DEF Ended, Live
    <3>2. reader'[<<p, 1>>] \in {"reading", "done"}
      BY <1>0, <1>1, <2>1, <2>2
    <3> QED
      BY <3>1, <3>2 DEF Ended
  <2>3. CASE c # <<p, 1>>
    <3>1. reader'[<<p, 1>>] = reader[<<p, 1>>]
      BY <1>0, <1>1, <2>1, <2>3
    <3> QED
      BY <1>1, <2>1, <3>1, EndedStays
  <2> QED
    BY <2>2, <2>3
<1>2. ASSUME NEW p \in Dialed, Dial(p)
      PROVE  Losses'
  <2>1. p \in Peers /\ <<p, 1>> \in Conns
    BY <1>2, ConstantsAssumption, ConnPeer DEF NetTypes, Dialed, Setup
  <2>2. /\ reader' = [reader EXCEPT ![<<p, 1>>] = "reading"] /\ lost' = lost
        /\ phase = "dialing" /\ sock[<<p, 1>>] = "unborn"
    BY <1>2 DEF Dial
  <2>3. reader[<<p, 1>>] = "none"
    BY <2>1, <2>2 DEF Wired
  <2> QED
    BY <1>1, <2>1, <2>2, <2>3
<1>3. ASSUME NEW c \in Conns, AcceptMesh(c) \/ AcceptStar(c) \/ HelloFails(c)
      PROVE  Losses'
  <2>1. /\ reader[c] = "none" /\ phase = "accepting"
        /\ \E x \in {"reading", "done"} : reader' = [reader EXCEPT ![c] = x]
        /\ lost' = lost \/ lost' = [lost EXCEPT ![Peer(c)] = FALSE]
    BY <1>3 DEF AcceptMesh, AcceptStar, HelloFails, Queued, linkVars
  <2>2. \A p \in Peers : lost'[p] => lost[p]
    BY <1>0, <2>1
  <2> QED
    BY <1>1, <2>1, <2>2
<1>4. ASSUME UNCHANGED <<reader, lost>>,
             phase = "dropping" => phase' = "dropping" \/ \A c \in Conns : reader[c] # "ending"
      PROVE  Losses'
  <2> SUFFICES ASSUME NEW p \in Peers, ~Again(p)'
               PROVE  Ended(p)'
    BY DEF Losses
  <2>1. ~Again(p) /\ Ended(p) /\ <<p, 1>> \in Conns
    BY NothingUnborn, ConnPeer DEF Losses
  <2> QED
    BY <1>4, <2>1, EndedStays
<1>5. ASSUME NEW c \in Conns, PeerStep(c)
      PROVE  Losses'
  <2>1. UNCHANGED <<phase, reader, lost>>
    BY <1>5 DEF PeerStep, PeerConnects, PeerCloses, PeerAnswersGet, PeerSends, PeerAsks,
                linkVars, readerVars
  <2> QED
    BY <1>4, <2>1
<1>6. CASE \/ DialFails \/ StartAccepting \/ AppCall \/ AppStep \/ DeadlinePasses \/ Drop
           \/ DropStep \/ UNCHANGED vars
  <2>1. /\ UNCHANGED <<reader, lost>>
        /\ \/ phase' = phase
           \/ phase # "dropping"
           \/ \A c \in Conns : reader[c] \in {"none", "done"}
    BY <1>6 DEF DialFails, StartAccepting, AppCall, GetCall, RecvCall, AppStep, RecvTake,
                RecvCheck, RecvWait, GetTake, DeadlinePasses, Drop, DropStep, Joined, ShutDown,
                linkVars, readerVars, vars
  <2> QED
    BY <1>4, <2>1
<1> QED
  BY <1>2, <1>3, <1>5, <1>6, ReaderLosses DEF ReaderMoves, Next, Construct

\* A receive that looks at `lost' has found its queue empty, and the inbox is locked.
FoundEmpty == app.pc = "checked" => inbox[app.from][app.tag] = << >>

\* How a step of the application or of a notifier changes the receive under way.
LEMMA AppMoves ==
    ASSUME NetTypes, [Next]_vars
    PROVE  /\ app'.pc = "checked" =>
                 \/ app'.from = app.from /\ app'.tag = app.tag /\ app.pc = "checked"
                    /\ inbox' = inbox
                 \/ app'.from = app.from /\ app'.tag = app.tag /\ inbox' = inbox
                    /\ inbox[app.from][app.tag] = << >>
           /\ app'.res = "lost" =>
                 \/ app'.from = app.from /\ app'.tag = app.tag /\ got' = got /\ app.res = "lost"
                 \/ RecvCheck /\ lost[app.from] /\ app'.from = app.from /\ app'.tag = app.tag
<1>0. AppTyped
  BY DEF NetTypes
<1> DEFINE Goal == /\ app'.pc = "checked" =>
                         \/ app'.from = app.from /\ app'.tag = app.tag /\ app.pc = "checked"
                            /\ inbox' = inbox
                         \/ app'.from = app.from /\ app'.tag = app.tag /\ inbox' = inbox
                            /\ inbox[app.from][app.tag] = << >>
                   /\ app'.res = "lost" =>
                         \/ app'.from = app.from /\ app'.tag = app.tag /\ got' = got
                            /\ app.res = "lost"
                         \/ RecvCheck /\ lost[app.from] /\ app'.from = app.from
                            /\ app'.tag = app.tag
<1>1. ASSUME UNCHANGED <<app, inbox, got>>
      PROVE  Goal
  BY <1>1
<1>2. ASSUME InboxFree, app' = Notified, got' = got
      PROVE  Goal
  <2>1. /\ app'.res = app.res /\ app'.from = app.from /\ app'.tag = app.tag
        /\ app'.pc = (IF app.pc = "asleep" THEN "start" ELSE app.pc)
    BY <1>0, <1>2, NotifiedIs
  <2>2. app'.pc # "checked"
    BY <1>2, <2>1 DEF InboxFree
  <2> QED
    BY <1>2, <2>1, <2>2
<1>3. ASSUME NEW c \in Conns, PeerStep(c) \/ ReaderMoves(c)
      PROVE  Goal
  <2>1. CASE \/ PeerStep(c) \/ Read(c) \/ ReadFails(c) \/ CheckGen(c) \/ Answer(c)
             \/ Answered(c) \/ EndCheck(c) \/ MarkLost(c)
    <3>1. UNCHANGED <<app, inbox, got>>
      BY <2>1 DEF PeerStep, PeerConnects, PeerCloses, PeerAnswersGet, PeerSends, PeerAsks,
                  Read, ReadFails, CheckGen, Answer, Answered, EndCheck, MarkLost, boxVars,
                  appVars
    <3> QED
      BY <1>1, <3>1
  <2>2. CASE Dispatch(c)
    <3>1. got' = got /\ (UNCHANGED <<inbox, app>> \/ (InboxFree /\ app' = Notified))
      BY <2>2 DEF Dispatch
    <3> QED
      BY <1>1, <1>2, <3>1
  <2>3. CASE NotifyLost(c)
    BY <1>2, <2>3 DEF NotifyLost
  <2> QED
    BY <1>3, <2>1, <2>2, <2>3 DEF ReaderMoves, ReaderStep, PeerTakesAnswer, AnswerFails
<1>4. CASE Construct \/ Drop \/ DropStep \/ UNCHANGED vars
  <2>1. UNCHANGED <<app, inbox, got>>
    BY <1>4 DEF Construct, Dial, DialFails, StartAccepting, AcceptMesh, AcceptStar, HelloFails,
                Drop, DropStep, Joined, ShutDown, boxVars, appVars, vars
  <2> QED
    BY <1>1, <2>1
<1>5. CASE AppCall \/ GetTake \/ DeadlinePasses \/ RecvWait
  <2>1. CASE AppCall \/ GetTake
    <3>1. ASSUME NEW p \in Peers, NEW t \in Tags, RecvCall(p, t)
          PROVE  app'.pc # "checked" /\ app'.res # "lost"
      BY <3>1 DEF RecvCall
    <3>2. ASSUME NEW p \in Peers, GetCall(p)
          PROVE  app'.pc # "checked" /\ app'.res # "lost"
      <4>1. \/ app' = [pc |-> "getting", res |-> "none", from |-> p, tag |-> app.tag,
                       expired |-> FALSE]
            \/ app' = Idle("senderr", p, app.tag)
        BY <3>2 DEF GetCall
      <4> QED
        BY <4>1 DEF Idle
    <3>3. ASSUME GetTake
          PROVE  app'.pc # "checked" /\ app'.res # "lost"
      <4>1. app' = Idle("ok", app.from, app.tag)
        BY <3>3 DEF GetTake
      <4> QED
        BY <4>1 DEF Idle
    <3>4. app'.pc # "checked" /\ app'.res # "lost"
      BY <2>1, <3>1, <3>2, <3>3 DEF AppCall
    <3> QED
      BY <3>4
  <2>2. CASE DeadlinePasses \/ RecvWait
    <3>1. /\ got' = got
          /\ \/ app' = [app EXCEPT !.pc = "start", !.expired = TRUE]
             \/ app' = [app EXCEPT !.pc = "asleep"]
      BY <2>2 DEF DeadlinePasses, RecvWait
    <3>2. \/ app' = [pc |-> "start", res |-> app.res, from |-> app.from, tag |-> app.tag,
                     expired |-> TRUE]
          \/ app' = [pc |-> "asleep", res |-> app.res, from |-> app.from, tag |-> app.tag,
                     expired |-> app.expired]
      BY <1>0, <3>1 DEF AppTyped
    <3>3. app'.pc # "checked" /\ app'.res = app.res /\ app'.from = app.from /\ app'.tag = app.tag
      BY <3>2
    <3> QED
      BY <3>1, <3>3
  <2> QED
    BY <1>5, <2>1, <2>2
<1>6. CASE RecvTake
  <2>1. CASE inbox[app.from][app.tag] # << >>
    <3>1. app' = Idle("ok", app.from, app.tag)
      BY <1>6, <2>1 DEF RecvTake
    <3>2. app'.pc # "checked" /\ app'.res # "lost"
      BY <3>1 DEF Idle
    <3> QED
      BY <3>2
  <2>2. CASE inbox[app.from][app.tag] = << >>
    <3>1. app' = [app EXCEPT !.pc = "checked"] /\ inbox' = inbox /\ got' = got
      BY <1>6, <2>2 DEF RecvTake
    <3>2. app' = [pc |-> "checked", res |-> app.res, from |-> app.from, tag |-> app.tag,
                  expired |-> app.expired]
      BY <1>0, <3>1 DEF AppTyped
    <3>3. app'.res = app.res /\ app'.from = app.from /\ app'.tag = app.tag
      BY <3>2
    <3> QED
      BY <2>2, <3>1, <3>3
  <2> QED
    BY <2>1, <2>2
<1>7. CASE RecvCheck
  <2>1. \/ \E r \in {"noconn", "timeout"} : app' = Idle(r, app.from, app.tag)
        \/ lost[app.from] /\ app' = Idle("lost", app.from, app.tag)
        \/ app' = [app EXCEPT !.pc = "parking"]
    <3>1. lost[app.from] \in BOOLEAN /\ (writers[app.from] = NoConn \/ writers[app.from] # NoConn)
      <4>1. app.from \in Peers
        BY <1>0, <1>7 DEF RecvCheck, AppTyped
      <4> QED
        BY <4>1 DEF NetTypes
    <3>2. CASE writers[app.from] = NoConn
      <4>1. app' = Idle("noconn", app.from, app.tag)
        BY <1>7, <3>2 DEF RecvCheck
      <4> QED
        BY <4>1
    <3>3. CASE writers[app.from] # NoConn /\ lost[app.from]
      <4>1. app' = Idle("lost", app.from, app.tag)
        BY <1>7, <3>3 DEF RecvCheck
      <4> QED
        BY <3>3, <4>1
    <3>4. CASE writers[app.from] # NoConn /\ ~lost[app.from] /\ app.expired
      <4>1. app' = Idle("timeout", app.from, app.tag)
        BY <1>7, <3>4 DEF RecvCheck
      <4> QED
        BY <4>1
    <3>5. CASE writers[app.from] # NoConn /\ ~lost[app.from] /\ ~app.expired
      <4>1. app' = [app EXCEPT !.pc = "parking"]
        BY <1>7, <3>5 DEF RecvCheck
      <4> QED
        BY <4>1
    <3> QED
      BY <3>1, <3>2, <3>3, <3>4, <3>5
  <2>2. CASE \E r \in {"noconn", "timeout"} : app' = Idle(r, app.from, app.tag)
    <3>1. app'.pc = "idle" /\ app'.res # "lost"
      BY <2>2 DEF Idle
    <3> QED
      BY <3>1
  <2>3. CASE lost[app.from] /\ app' = Idle("lost", app.from, app.tag)
    <3>1. app'.pc = "idle" /\ app'.from = app.from /\ app'.tag = app.tag
      BY <2>3 DEF Idle
    <3> QED
      BY <1>7, <2>3, <3>1
  <2>4. CASE app' = [app EXCEPT !.pc = "parking"]
    <3>1. app' = [pc |-> "parking", res |-> app.res, from |-> app.from, tag |-> app.tag,
                  expired |-> app.expired]
      BY <1>0, <2>4 DEF AppTyped
    <3>2. /\ app'.pc # "checked" /\ app'.res = app.res /\ app'.from = app.from
          /\ app'.tag = app.tag
      BY <3>1
    <3>3. got' = got
      BY <1>7 DEF RecvCheck
    <3> QED
      BY <3>2, <3>3
  <2> QED
    BY <2>1, <2>2, <2>3, <2>4
<1>8. Goal
  BY <1>3, <1>4, <1>5, <1>6, <1>7 DEF ReaderMoves, Next, AppStep
<1> QED
  BY <1>8

\* Every step keeps what a receive that reports a lost peer has seen.
LEMMA LostSeen ==
    ASSUME NetTypes, Wired, Streams, Losses, FoundEmpty, DrainedBeforeLost, [Next]_vars
    PROVE  FoundEmpty' /\ DrainedBeforeLost'
<1>1. FoundEmpty'
  BY AppMoves DEF FoundEmpty
<1>2. ASSUME NEW p, NEW t, p = app'.from, t = app'.tag, app'.res = "lost", ~Again(p)'
      PROVE  /\ sock'[<<p, 1>>] = "closed"
             /\ Len(got'[p][t]) = sent'[<<p, 1>>][t]
  <2>1. p \in Peers /\ t \in Tags /\ ~Again(p) /\ <<p, 1>> \in Conns /\ <<p, 2>> \in Conns
    <3>1. p \in Peers /\ t \in Tags
      BY <1>2, TypesKept DEF NetTypes, AppTyped
    <3> QED
      BY <1>2, <3>1, NothingUnborn, ConnPeer
  <2>2. sock[<<p, 1>>] = "closed" => sock'[<<p, 1>>] = "closed" /\ sent'[<<p, 1>>] = sent[<<p, 1>>]
    BY <2>1, ClosedStays
  <2>3. CASE app'.from = app.from /\ app'.tag = app.tag /\ got' = got /\ app.res = "lost"
    <3>1. sock[<<p, 1>>] = "closed" /\ Len(got[p][t]) = sent[<<p, 1>>][t]
      BY <1>2, <2>1, <2>3 DEF DrainedBeforeLost
    <3> QED
      BY <2>2, <2>3, <3>1
  <2>4. CASE RecvCheck /\ lost[app.from] /\ app'.from = app.from /\ app'.tag = app.tag
    <3>1. app.pc = "checked" /\ got' = got /\ app.from = p /\ app.tag = t /\ lost[p]
      BY <1>2, <2>4 DEF RecvCheck
    <3>2. inbox[p][t] = << >>
      BY <3>1 DEF FoundEmpty
    <3>3. Drained(p)
      BY <2>1, <3>1 DEF Losses, Ended
    <3>4. Arrived(p, t) = got[p][t] /\ got[p][t] \in Seq(Sent)
      <4>1. got[p][t] \in Seq(Sent)
        BY <2>1, ArrivedTyped
      <4> QED
        BY <3>2, <4>1, ConcatEmptySeq DEF Arrived
    <3>5. \A i \in 1..Len(got[p][t]) : got[p][t][i].conn = <<p, 1>>
      <4> SUFFICES ASSUME NEW i \in 1..Len(got[p][t])
                   PROVE  got[p][t][i].conn = <<p, 1>>
        OBVIOUS
      <4> DEFINE d == got[p][t][i].conn
      <4>1. d \in Conns /\ Peer(d) = p /\ reader[d] # "none"
        BY <2>1, <3>4 DEF Streams, Arrivals
      <4>2. d # <<p, 2>>
        BY <2>1, <4>1 DEF Wired, Again
      <4> HIDE DEF d
      <4>3. d = <<p, 1>>
        BY <4>1, <4>2, ConnPeer
      <4> QED
        BY <4>3 DEF d
    <3>6. Count(got[p][t], <<p, 1>>) = Len(got[p][t])
      BY <3>4, <3>5, CountAll
    <3>7. sock[<<p, 1>>] = "closed" /\ Len(got[p][t]) = sent[<<p, 1>>][t]
      BY <2>1, <3>3, <3>4, <3>6 DEF Drained
    <3> QED
      BY <2>2, <3>1, <3>7
  <2> QED
    BY <1>2, <2>3, <2>4, AppMoves
<1>3. DrainedBeforeLost'
  BY <1>2 DEF DrainedBeforeLost, Again
<1> QED
  BY <1>1, <1>3

-----------------------------------------------------------------------------
(* The theorems.                                                           *)

\* The inductive invariant.
NetInv ==
    /\ NetTypes
    /\ Wired
    /\ Progress
    /\ Streams
    /\ Losses
    /\ FoundEmpty
    /\ DrainedBeforeLost

\* Nothing is connected, sent or received when the constructor is called.
LEMMA NetInit == Init => NetInv
<1> SUFFICES ASSUME Init
             PROVE  NetInv
  OBVIOUS
<1>1. setup \in Setups /\ (setup.star => Dialed = {}) /\ Dialed \subseteq Peers
  BY ConstantsAssumption DEF Init, Dialed, Setup
<1>2. /\ sock = [c \in Conns |-> "unborn"] /\ cut = [c \in Conns |-> FALSE]
      /\ wire = [c \in Conns |-> << >>] /\ sent = [c \in Conns |-> [t \in Tags |-> 0]]
      /\ writers = [p \in Peers |-> NoConn] /\ connGen = [p \in Peers |-> 0]
      /\ lost = [p \in Peers |-> FALSE] /\ reader = [c \in Conns |-> "none"]
      /\ mine = [c \in Conns |-> 0] /\ hand = [c \in Conns |-> NoFrame]
      /\ inbox = [p \in Peers |-> [t \in Tags |-> << >>]]
      /\ got = [p \in Peers |-> [t \in Tags |-> << >>]]
      /\ expect = Peers \ Dialed /\ accepted = 0
  BY DEF Init
<1>3. phase \in {"accepting", "dialing"} /\ (setup.star => phase = "accepting")
      /\ (~setup.star => phase = "dialing")
  BY DEF Init
<1>4. app.pc = "idle" /\ app.res = "none" /\ AppTyped
  BY DEF Init, Idle, AppTyped
<1>5. << >> \in Seq(Sent) /\ << >> \in Seq(Sent \cup NotSends)
  OBVIOUS
<1>6. NetTypes
  <2>1. setup \in Setups /\ phase \in Phases /\ expect \subseteq Peers /\ accepted \in Nat
    BY <1>1, <1>2, <1>3 DEF Phases
  <2>2. /\ sock \in [Conns -> Socks] /\ cut \in [Conns -> BOOLEAN]
        /\ sent \in [Conns -> [Tags -> Nat]]
        /\ writers \in [Peers -> {NoConn, 1, 2}] /\ connGen \in [Peers -> Nat]
        /\ lost \in [Peers -> BOOLEAN] /\ reader \in [Conns -> Threads]
        /\ mine \in [Conns -> Nat]
    BY <1>2 DEF Socks, Threads
  <2>3. /\ wire \in [Conns -> Seq(Sent \cup NotSends)]
        /\ hand \in [Conns -> Sent \cup NotSends \cup {NoFrame}]
    BY <1>2, <1>5
  <2>4. inbox \in [Peers -> [Tags -> Seq(Sent)]] /\ got \in [Peers -> [Tags -> Seq(Sent)]]
    BY <1>2, <1>5
  <2> QED
    BY <1>4, <2>1, <2>2, <2>3, <2>4 DEF NetTypes
<1>7. Wired
  <2>1. \A p \in Peers : <<p, 1>> \in Conns /\ <<p, 2>> \in Conns
    BY ConnPeer
  <2> QED
    BY <1>2, <1>3, <2>1 DEF Wired
<1>8. Progress
  <2>1. Connected = {}
    BY <1>2 DEF Connected
  <2>2. Cardinality(Connected) = 0
    BY <2>1, FS_EmptySet
  <2>3. \A p \in Dialed : <<p, 1>> \in Conns
    BY <1>1, ConnPeer
  <2>4. \A p \in Dialed : sock[<<p, 1>>] = "unborn"
    BY <1>2, <2>3
  <2>5. ~Constructed
    BY <1>3 DEF Constructed
  <2>6. \A p \in Peers \ Dialed : p \in expect
    BY <1>2
  <2>7. phase \notin {"dialing", "failed"} => Dialed = {}
    BY <1>1, <1>3
  <2>8. setup.star => phase # "dialing"
    BY <1>3
  <2> QED
    BY <1>2, <2>2, <2>4, <2>5, <2>6, <2>7, <2>8 DEF Progress
<1>9. Streams
  <2>1. \A p \in Peers, t \in Tags : Arrived(p, t) = << >>
    BY <1>2, ConcatEmptySeq, EmptySeq DEF Arrived
  <2>2. \A p \in Peers, t \in Tags : Arrivals(p, t)
    <3>1. Numbered(<< >>) /\ 1..Len(<< >>) = {}
      BY DEF Numbered
    <3> QED
      BY <2>1, <3>1 DEF Arrivals
  <2>3. \A c \in Conns : Count(<< >>, c) = 0
    <3>1. ASSUME NEW c \in Conns
          PROVE  {j \in 1..Len(<< >>) : << >>[j].conn = c} = {}
      OBVIOUS
    <3> QED
      BY <3>1, FS_EmptySet DEF Count
  <2>4. ASSUME NEW t \in Tags
        PROVE  Continues(NoFrame, << >>, t, 0, 0)
    <3>1. Nth(NoFrame, << >>, 0) = NoFrame /\ ~Is(NoFrame, t) /\ 0..Len(<< >>) = {0}
      BY DEF Nth, Is, NoFrame
    <3> QED
      BY <3>1 DEF Continues
  <2>5. \A c \in Conns : Stream(c)
    <3> SUFFICES ASSUME NEW c \in Conns
                 PROVE  Stream(c)
      OBVIOUS
    <3>1. wire[c] = << >> /\ hand[c] = NoFrame /\ NoFrame.kind # "SEND" /\ Peer(c) \in Peers
      BY <1>2, ConnPeer DEF NoFrame
    <3>2. \A t \in Tags : Count(Arrived(Peer(c), t), c) = 0 /\ sent[c][t] = 0
      BY <1>2, <2>1, <2>3, <3>1
    <3> QED
      BY <2>4, <3>1, <3>2 DEF Stream
  <2> QED
    BY <2>2, <2>5 DEF Streams
<1>10. Losses
  <2>1. \A p \in Peers : reader[<<p, 1>>] = "none" /\ ~lost[p]
    BY <1>2, ConnPeer
  <2> QED
    BY <2>1 DEF Losses, Ended
<1>11. FoundEmpty /\ DrainedBeforeLost
  BY <1>4 DEF FoundEmpty, DrainedBeforeLost
<1> QED
  BY <1>6, <1>7, <1>8, <1>9, <1>10, <1>11 DEF NetInv

LEMMA NetInvKept == NetInv /\ [Next]_vars => NetInv'
BY TypesKept, WiredKept, ProgressKept, StreamsKept, LossesKept, LostSeen DEF NetInv

\* Whatever readers, replaced connections and receives interleave, the frames of a
\* connection under a tag are received in the order they were sent, none twice and none
\* missing before one that is there (reader_loop, dispatch, recv_inbox).
THEOREM ReceivedInOrder == Spec => []InOrderOnce
<1>1. NetInv => InOrderOnce
  <2> SUFFICES ASSUME NetInv, NEW p \in Peers, NEW t \in Tags
               PROVE  LET s == got[p][t] \o inbox[p][t] IN
                      \A i \in DOMAIN s :
                         s[i].n = 1 + Cardinality({j \in 1..(i - 1) : s[j].conn = s[i].conn})
    BY DEF InOrderOnce
  <2> DEFINE s == got[p][t] \o inbox[p][t]
  <2>1. s \in Seq(Sent) /\ Numbered(s)
    BY ArrivedTyped DEF NetInv, Streams, Arrivals, Arrived
  <2> HIDE DEF s
  <2>2. DOMAIN s = 1..Len(s)
    BY <2>1, LenProperties
  <2>3. \A i \in DOMAIN s :
           s[i].n = 1 + Cardinality({j \in 1..(i - 1) : s[j].conn = s[i].conn})
    BY <2>1, <2>2 DEF Numbered
  <2> QED
    BY <2>3 DEF s
<1> QED
  BY <1>1, NetInit, NetInvKept, PTL DEF Spec

\* A constructor returns with a connection to every peer, also when a rank connects
\* again meanwhile (from_listener_reversed; coordinator_listen as long as none does).
THEOREM AllConnected == Spec => []EveryPeerConnected
<1>1. NetInv => EveryPeerConnected
  <2> SUFFICES ASSUME NetInv, phase \in {"up", "dropping", "down"},
                      ~(setup.star /\ \E p \in Peers : Again(p)), NEW p \in Peers
               PROVE  writers[p] # NoConn
    BY DEF EveryPeerConnected
  <2>1. Constructed /\ Progress
    BY DEF Constructed, NetInv
  <2>2. CASE ~setup.star
    <3>1. expect = {}
      BY <2>1, <2>2 DEF Progress
    <3>2. CASE p \in Dialed
      BY <2>1, <3>2 DEF Progress, Constructed
    <3>3. CASE p \notin Dialed
      BY <2>1, <2>2, <3>1, <3>3 DEF Progress
    <3> QED
      BY <3>2, <3>3
  <2>3. CASE setup.star
    <3>1. NobodyTwice
      BY <2>3 DEF NobodyTwice
    <3>2. Cardinality(Connected) = Cardinality(Peers)
      BY <2>1, <2>3, <3>1 DEF Progress
    <3>3. Connected \subseteq Peers /\ IsFiniteSet(Peers)
      BY ConstantsAssumption DEF Connected
    <3>4. Connected = Peers
      BY <3>2, <3>3, FS_Subset
    <3> QED
      BY <3>4 DEF Connected
  <2> QED
    BY <2>2, <2>3
<1> QED
  BY <1>1, NetInit, NetInvKept, PTL DEF Spec

\* A receive reports a rank with one connection as disconnected only when the rank has
\* closed it and everything it sent under the tag has been received (recv_inbox, mark_lost).
THEOREM QueuedFirst == Spec => []DrainedBeforeLost
<1>1. NetInv => DrainedBeforeLost
  BY DEF NetInv
<1> QED
  BY <1>1, NetInit, NetInvKept, PTL DEF Spec

-----------------------------------------------------------------------------
(* Where a call's frames are sent and taken.                               *)

Whats == {"local", "whole", "data", "part", "chunk", "count"}

\* The place of q among the ranks other than r.
Slot(r, q) == IF q < r THEN q + 1 ELSE q

\* The operations with q in a pairwise exchange.
PairSend(r, q) == IF r < q THEN 2 * Slot(r, q) - 1 ELSE 2 * Slot(r, q)
PairRecv(r, q) == IF r < q THEN 2 * Slot(r, q) ELSE 2 * Slot(r, q) - 1

\* Call c has a frame `what' from p to r.
Sends(p, r, what, c) ==
    /\ p # r
    /\ \/ c.kind = "all_gather" /\ what = "local" /\ r = 0
       \/ c.kind = "all_gather" /\ what = "whole" /\ p = 0
       \/ c.kind = "broadcast" /\ what = "data" /\ p = c.root
       \/ c.kind = "all_to_all" /\ what = "chunk"
       \/ c.kind = "all_to_all_v" /\ what \in {"count", "chunk"}
       \/ c.kind = "reduce" /\ what = "part" /\ r = c.root
       \/ c.kind = "ppermute" /\ what = "data" /\ <<p, r>> \in c.perm

\* The place of that send in p's program, and of its receive in r's.
SendAt(p, r, what, c) ==
    CASE c.kind = "all_gather"   -> IF what = "local" THEN 1 ELSE N - 1 + r
      [] c.kind = "broadcast"    -> Slot(p, r)
      [] c.kind = "all_to_all"   -> PairSend(p, r)
      [] c.kind = "all_to_all_v" -> IF what = "count" THEN PairSend(p, r)
                                                      ELSE 2 * (N - 1) + PairSend(p, r)
      [] c.kind = "reduce"       -> 1
      [] c.kind = "ppermute"     -> 1

RecvAt(r, p, what, c) ==
    CASE c.kind = "all_gather"   -> IF what = "local" THEN p ELSE 2
      [] c.kind = "broadcast"    -> 1
      [] c.kind = "all_to_all"   -> PairRecv(r, p)
      [] c.kind = "all_to_all_v" -> IF what = "count" THEN PairRecv(r, p)
                                                      ELSE 2 * (N - 1) + PairRecv(r, p)
      [] c.kind = "reduce"       -> Slot(r, p)
      [] c.kind = "ppermute"     -> IF \E q \in Ranks \ {r} : <<r, q>> \in c.perm THEN 2 ELSE 1

Ops == [op : {"send", "recv"}, peer : Ranks, what : Whats]

\* What a program of call c on rank r is: its operations are the sends and receives
\* of c's frames, each at its place and nothing else.
Shaped(prog, r, c) ==
    /\ prog \in Seq(Ops)
    /\ \A a \in 1..Len(prog) : \E q \in Ranks, w \in Whats :
           \/ prog[a] = Send(q, w) /\ Sends(r, q, w, c) /\ a = SendAt(r, q, w, c)
           \/ prog[a] = Recv(q, w) /\ Sends(q, r, w, c) /\ a = RecvAt(r, q, w, c)
    /\ \A q \in Ranks, w \in Whats : Sends(r, q, w, c) =>
           SendAt(r, q, w, c) \in 1..Len(prog) /\ prog[SendAt(r, q, w, c)] = Send(q, w)
    /\ \A q \in Ranks, w \in Whats : Sends(q, r, w, c) =>
           RecvAt(r, q, w, c) \in 1..Len(prog) /\ prog[RecvAt(r, q, w, c)] = Recv(q, w)

\* The world has at least two ranks, counted from 0.
LEMMA WorldSize == N \in Nat /\ N > 1 /\ Ranks = 0..(N - 1)
BY CollectivesAssumption DEF Ranks

\* The ranks other than r are numbered from 1, each once.
LEMMA OthersAre ==
    ASSUME NEW r \in Ranks
    PROVE  /\ DOMAIN Others(r) = 1..(N - 1)
           /\ \A i \in 1..(N - 1) : /\ Others(r)[i] \in Ranks /\ Others(r)[i] # r
                                    /\ Slot(r, Others(r)[i]) = i
           /\ \A q \in Ranks : q # r => Slot(r, q) \in 1..(N - 1) /\ Others(r)[Slot(r, q)] = q
BY WorldSize DEF Others, Slot

\* A send and a receive, with their fields.
LEMMA OpsAre ==
    ASSUME NEW q \in Ranks, NEW w \in Whats
    PROVE  /\ Send(q, w) \in Ops /\ Send(q, w).op = "send"
           /\ Send(q, w).peer = q /\ Send(q, w).what = w
           /\ Recv(q, w) \in Ops /\ Recv(q, w).op = "recv"
           /\ Recv(q, w).peer = q /\ Recv(q, w).what = w
BY DEF Ops, Send, Recv

\* Two sequences of operations, one after the other.
LEMMA ConcatOps ==
    ASSUME NEW S, NEW s \in Seq(S), NEW t \in Seq(S)
    PROVE  /\ s \o t \in Seq(S) /\ Len(s \o t) = Len(s) + Len(t)
           /\ Len(s) \in Nat /\ Len(t) \in Nat
           /\ \A i \in 1..Len(s) : (s \o t)[i] = s[i]
           /\ \A i \in 1..Len(t) : (s \o t)[Len(s) + i] = t[i]
BY ConcatProperties, LenProperties

\* Odd and even operations of a pairwise exchange.
LEMMA Halves ==
    ASSUME NEW i \in Nat \ {0}
    PROVE  /\ (2 * i - 1 + 1) \div 2 = i /\ (2 * i - 1) % 2 = 1
           /\ (2 * i + 1) \div 2 = i /\ (2 * i) % 2 = 0
OBVIOUS

\* Every operation of a pairwise exchange is the first or the second with some rank.
LEMMA HalfOf ==
    ASSUME NEW a \in Nat \ {0}
    PROVE  /\ (a + 1) \div 2 \in Nat \ {0}
           /\ a = 2 * ((a + 1) \div 2) - 1 \/ a = 2 * ((a + 1) \div 2)
OBVIOUS

\* In a pairwise exchange every other rank is sent to once and received from once.
LEMMA PairwiseIs ==
    ASSUME NEW r \in Ranks, NEW w \in Whats
    PROVE  /\ Pairwise(r, w) \in Seq(Ops) /\ Len(Pairwise(r, w)) = 2 * (N - 1)
           /\ \A a \in 1..(2 * (N - 1)) : \E q \in Ranks \ {r} :
                 \/ Pairwise(r, w)[a] = Send(q, w) /\ a = PairSend(r, q)
                 \/ Pairwise(r, w)[a] = Recv(q, w) /\ a = PairRecv(r, q)
           /\ \A q \in Ranks \ {r} :
                 /\ PairSend(r, q) \in 1..(2 * (N - 1))
                 /\ Pairwise(r, w)[PairSend(r, q)] = Send(q, w)
                 /\ PairRecv(r, q) \in 1..(2 * (N - 1))
                 /\ Pairwise(r, w)[PairRecv(r, q)] = Recv(q, w)
<1> DEFINE P == Pairwise(r, w)
<1>1. N \in Nat /\ N > 1 /\ Ranks = 0..(N - 1)
  BY WorldSize
<1>2. \A i \in 1..(N - 1) :
         /\ 2 * i - 1 \in 1..(2 * (N - 1)) /\ 2 * i \in 1..(2 * (N - 1))
         /\ P[2 * i - 1] = Exchange(r, Others(r)[i], w)[1]
         /\ P[2 * i] = Exchange(r, Others(r)[i], w)[2]
  <2> SUFFICES ASSUME NEW i \in 1..(N - 1)
               PROVE  /\ 2 * i - 1 \in 1..(2 * (N - 1)) /\ 2 * i \in 1..(2 * (N - 1))
                      /\ P[2 * i - 1] = Exchange(r, Others(r)[i], w)[1]
                      /\ P[2 * i] = Exchange(r, Others(r)[i], w)[2]
    OBVIOUS
  <2>1. 2 * i - 1 \in 1..(2 * (N - 1)) /\ 2 * i \in 1..(2 * (N - 1)) /\ i \in Nat \ {0}
    BY <1>1
  <2>2. /\ (2 * i - 1 + 1) \div 2 = i /\ (2 * i - 1) % 2 = 1
        /\ (2 * i + 1) \div 2 = i /\ (2 * i) % 2 = 0
    BY <2>1, Halves
  <2>3. 2 - ((2 * i - 1) % 2) = 1 /\ 2 - ((2 * i) % 2) = 2
    BY <2>2
  <2> QED
    BY <2>1, <2>2, <2>3 DEF Pairwise
<1>3. \A q \in Ranks \ {r} :
         /\ Exchange(r, q, w)[1] = IF r < q THEN Send(q, w) ELSE Recv(q, w)
         /\ Exchange(r, q, w)[2] = IF r < q THEN Recv(q, w) ELSE Send(q, w)
  BY DEF Exchange
<1>4. \A i \in 1..(N - 1) : \E q \in Ranks \ {r} :
         /\ Slot(r, q) = i
         /\ P[2 * i - 1] = IF r < q THEN Send(q, w) ELSE Recv(q, w)
         /\ P[2 * i] = IF r < q THEN Recv(q, w) ELSE Send(q, w)
  <2> SUFFICES ASSUME NEW i \in 1..(N - 1)
               PROVE  \E q \in Ranks \ {r} :
                         /\ Slot(r, q) = i
                         /\ P[2 * i - 1] = IF r < q THEN Send(q, w) ELSE Recv(q, w)
                         /\ P[2 * i] = IF r < q THEN Recv(q, w) ELSE Send(q, w)
    OBVIOUS
  <2>1. Others(r)[i] \in Ranks \ {r} /\ Slot(r, Others(r)[i]) = i
    BY OthersAre
  <2>2. /\ P[2 * i - 1] = Exchange(r, Others(r)[i], w)[1]
        /\ P[2 * i] = Exchange(r, Others(r)[i], w)[2]
    BY <1>2
  <2> HIDE DEF P
  <2> QED
    BY <1>3, <2>1, <2>2
<1>5. \A a \in 1..(2 * (N - 1)) : \E i \in 1..(N - 1) : a = 2 * i - 1 \/ a = 2 * i
  <2> SUFFICES ASSUME NEW a \in 1..(2 * (N - 1))
               PROVE  \E i \in 1..(N - 1) : a = 2 * i - 1 \/ a = 2 * i
    OBVIOUS
  <2>1. a \in Nat \ {0}
    BY <1>1
  <2> DEFINE i == (a + 1) \div 2
  <2>2. i \in Nat \ {0} /\ (a = 2 * i - 1 \/ a = 2 * i)
    BY <2>1, HalfOf
  <2> HIDE DEF i
  <2>3. i \in 1..(N - 1)
    BY <1>1, <2>2
  <2> QED
    BY <2>2, <2>3
<1>6. \A a \in 1..(2 * (N - 1)) : \E q \in Ranks \ {r} :
         \/ P[a] = Send(q, w) /\ a = PairSend(r, q)
         \/ P[a] = Recv(q, w) /\ a = PairRecv(r, q)
  <2> SUFFICES ASSUME NEW a \in 1..(2 * (N - 1))
               PROVE  \E q \in Ranks \ {r} :
                         \/ P[a] = Send(q, w) /\ a = PairSend(r, q)
                         \/ P[a] = Recv(q, w) /\ a = PairRecv(r, q)
    OBVIOUS
  <2>1. PICK i \in 1..(N - 1) : a = 2 * i - 1 \/ a = 2 * i
    BY <1>5
  <2>2. PICK q \in Ranks \ {r} :
         /\ Slot(r, q) = i
         /\ P[2 * i - 1] = IF r < q THEN Send(q, w) ELSE Recv(q, w)
         /\ P[2 * i] = IF r < q THEN Recv(q, w) ELSE Send(q, w)
    BY <1>4
  <2> HIDE DEF P
  <2> QED
    BY <2>1, <2>2 DEF PairSend, PairRecv
<1>7. \A q \in Ranks \ {r} :
                 /\ PairSend(r, q) \in 1..(2 * (N - 1))
                 /\ P[PairSend(r, q)] = Send(q, w)
                 /\ PairRecv(r, q) \in 1..(2 * (N - 1))
                 /\ P[PairRecv(r, q)] = Recv(q, w)
  <2> TAKE q \in Ranks \ {r}
  <2>1. Slot(r, q) \in 1..(N - 1) /\ Others(r)[Slot(r, q)] = q
    BY OthersAre
  <2>2. /\ 2 * Slot(r, q) - 1 \in 1..(2 * (N - 1)) /\ 2 * Slot(r, q) \in 1..(2 * (N - 1))
        /\ P[2 * Slot(r, q) - 1] = IF r < q THEN Send(q, w) ELSE Recv(q, w)
        /\ P[2 * Slot(r, q)] = IF r < q THEN Recv(q, w) ELSE Send(q, w)
    <3> HIDE DEF P
    <3> QED
      BY <1>2, <1>3, <2>1
  <2> HIDE DEF P
  <2> QED
    BY <2>2 DEF PairSend, PairRecv
<1>8. \A a \in 1..(2 * (N - 1)) : P[a] \in Ops
  BY <1>6, OpsAre
<1>9. P = [a \in 1..(2 * (N - 1)) |-> P[a]] /\ 2 * (N - 1) \in Nat
  BY <1>1 DEF Pairwise
<1>10. P \in Seq(Ops) /\ Len(P) = 2 * (N - 1)
  <2> HIDE DEF P
  <2> QED
    BY <1>8, <1>9
<1> QED
  BY <1>6, <1>7, <1>10

\* The root receives every chunk before it sends the whole; the others send and wait.
LEMMA GatherShape ==
    ASSUME NEW r \in Ranks, NEW c \in Call, c.kind = "all_gather"
    PROVE  Shaped(Program(r, c), r, c)
<1>1. N \in Nat /\ N > 1 /\ Ranks = 0..(N - 1)
  BY WorldSize
<1> DEFINE P == Program(r, c)
<1>2. P = AllGather(r)
  BY DEF Program
<1>3. \A p, q \in Ranks, w \in Whats :
        /\ Sends(p, q, w, c) <=> p # q /\ ((w = "local" /\ q = 0) \/ (w = "whole" /\ p = 0))
        /\ SendAt(p, q, w, c) = IF w = "local" THEN 1 ELSE N - 1 + q
        /\ RecvAt(p, q, w, c) = IF w = "local" THEN q ELSE 2
  BY DEF Sends, SendAt, RecvAt
<1>4. "local" \in Whats /\ "whole" \in Whats /\ 0 \in Ranks
  BY <1>1 DEF Whats
<1>5. CASE r = 0
  <2> DEFINE ins == [i \in 1..(N - 1) |-> Recv(i, "local")]
             outs == [i \in 1..(N - 1) |-> Send(i, "whole")]
  <2>1. \A i \in 1..(N - 1) : Recv(i, "local") \in Ops /\ Send(i, "whole") \in Ops /\ i \in Ranks
    BY <1>1, <1>4, OpsAre
  <2>2. ins \in Seq(Ops) /\ outs \in Seq(Ops) /\ Len(ins) = N - 1 /\ Len(outs) = N - 1
    BY <1>1, <2>1
  <2>3. /\ P \in Seq(Ops) /\ Len(P) = 2 * (N - 1)
        /\ \A i \in 1..(N - 1) : P[i] = Recv(i, "local") /\ P[N - 1 + i] = Send(i, "whole")
    <3>1. P = ins \o outs
      BY <1>2, <1>5 DEF AllGather
    <3>2. \A i \in 1..(N - 1) : ins[i] = Recv(i, "local") /\ outs[i] = Send(i, "whole")
      OBVIOUS
    <3> HIDE DEF P, ins, outs
    <3>3. ins \in Seq(Ops) /\ outs \in Seq(Ops)
      BY <2>2
    <3>4. ins \o outs \in Seq(Ops)
      BY <3>3, ConcatOps
    <3>5. Len(ins \o outs) = Len(ins) + Len(outs)
      BY <3>3, ConcatOps
    <3>6. \A i \in 1..Len(ins) : (ins \o outs)[i] = ins[i]
      BY <3>3, ConcatOps
    <3>7. \A i \in 1..Len(outs) : (ins \o outs)[Len(ins) + i] = outs[i]
      BY <3>3, ConcatOps
    <3> QED
      BY <1>1, <2>2, <3>1, <3>2, <3>4, <3>5, <3>6, <3>7
  <2> HIDE DEF P, ins, outs
  <2>4. \A a \in 1..Len(P) : \E q \in Ranks, w \in Whats :
           \/ P[a] = Send(q, w) /\ Sends(r, q, w, c) /\ a = SendAt(r, q, w, c)
           \/ P[a] = Recv(q, w) /\ Sends(q, r, w, c) /\ a = RecvAt(r, q, w, c)
    <3> TAKE a \in 1..Len(P)
    <3>1. CASE a =< N - 1
      <4>1. a \in Ranks /\ a # 0 /\ P[a] = Recv(a, "local")
        BY <1>1, <2>1, <2>3, <3>1
      <4>2. Sends(a, r, "local", c) /\ a = RecvAt(r, a, "local", c)
        BY <1>5, <4>1 DEF Sends, RecvAt
      <4> QED
        BY <1>4, <4>1, <4>2
    <3>2. CASE a > N - 1
      <4> DEFINE q == a - (N - 1)
      <4>1. q \in 1..(N - 1) /\ N - 1 + q = a
        BY <1>1, <2>3, <3>2
      <4>2. q \in Ranks /\ q # 0 /\ P[a] = Send(q, "whole")
        BY <1>1, <2>3, <4>1
      <4> HIDE DEF q
      <4>3. Sends(r, q, "whole", c) /\ a = SendAt(r, q, "whole", c)
        BY <1>3, <1>4, <1>5, <4>1, <4>2
      <4> QED
        BY <1>4, <4>2, <4>3
    <3> QED
      BY <1>1, <2>3, <3>1, <3>2
  <2>5. \A q \in Ranks : q # 0 => q \in 1..(N - 1)
    BY <1>1
  <2>6. \A q \in Ranks, w \in Whats : Sends(r, q, w, c) =>
           SendAt(r, q, w, c) \in 1..Len(P) /\ P[SendAt(r, q, w, c)] = Send(q, w)
    BY <1>1, <1>3, <1>5, <2>3, <2>5
  <2>7. \A q \in Ranks, w \in Whats : Sends(q, r, w, c) =>
           RecvAt(r, q, w, c) \in 1..Len(P) /\ P[RecvAt(r, q, w, c)] = Recv(q, w)
    BY <1>1, <1>3, <1>5, <2>3, <2>5
  <2>9. Shaped(P, r, c)
    BY <2>3, <2>4, <2>6, <2>7 DEF Shaped
  <2> QED
    BY <2>9 DEF P
<1>6. CASE r # 0
  <2>1. P = <<Send(0, "local"), Recv(0, "whole")>>
    BY <1>2, <1>6 DEF AllGather
  <2>2. Send(0, "local") \in Ops /\ Recv(0, "whole") \in Ops
    BY <1>4, OpsAre
  <2> HIDE DEF P
  <2>3. P \in Seq(Ops) /\ Len(P) = 2 /\ P[1] = Send(0, "local") /\ P[2] = Recv(0, "whole")
    BY <2>1, <2>2
  <2>4. /\ Sends(r, 0, "local", c) /\ SendAt(r, 0, "local", c) = 1
        /\ Sends(0, r, "whole", c) /\ RecvAt(r, 0, "whole", c) = 2
    BY <1>6 DEF Sends, SendAt, RecvAt
  <2>5. \A a \in 1..Len(P) : a = 1 \/ a = 2
    BY <2>3
  <2>6. \A a \in 1..Len(P) : \E q \in Ranks, w \in Whats :
           \/ P[a] = Send(q, w) /\ Sends(r, q, w, c) /\ a = SendAt(r, q, w, c)
           \/ P[a] = Recv(q, w) /\ Sends(q, r, w, c) /\ a = RecvAt(r, q, w, c)
    <3> TAKE a \in 1..Len(P)
    <3>1. CASE a = 1
      BY <1>4, <2>3, <2>4, <3>1
    <3>2. CASE a = 2
      BY <1>4, <2>3, <2>4, <3>2
    <3> QED
      BY <2>5, <3>1, <3>2
  <2>7. \A q \in Ranks, w \in Whats : Sends(r, q, w, c) =>
           SendAt(r, q, w, c) \in 1..Len(P) /\ P[SendAt(r, q, w, c)] = Send(q, w)
    BY <1>3, <1>6, <2>3
  <2>8. \A q \in Ranks, w \in Whats : Sends(q, r, w, c) =>
           RecvAt(r, q, w, c) \in 1..Len(P) /\ P[RecvAt(r, q, w, c)] = Recv(q, w)
    BY <1>3, <1>6, <2>3
  <2>9. Shaped(P, r, c)
    BY <2>3, <2>6, <2>7, <2>8 DEF Shaped
  <2> QED
    BY <2>9 DEF P
<1> QED
  BY <1>5, <1>6

\* The root sends to the others in rank order; each of them receives once.
LEMMA BroadcastShape ==
    ASSUME NEW r \in Ranks, NEW c \in Call, c.kind = "broadcast"
    PROVE  Shaped(Program(r, c), r, c)
<1>1. N \in Nat /\ N > 1 /\ Ranks = 0..(N - 1)
  BY WorldSize
<1> DEFINE P == Program(r, c)
<1>2. P = Broadcast(r, c.root) /\ c.root \in Ranks
  BY DEF Program, Call
<1>3. \A p, q \in Ranks, w \in Whats :
        /\ Sends(p, q, w, c) <=> p # q /\ w = "data" /\ p = c.root
        /\ SendAt(p, q, w, c) = Slot(p, q)
        /\ RecvAt(p, q, w, c) = 1
  BY DEF Sends, SendAt, RecvAt
<1>4. "data" \in Whats
  BY DEF Whats
<1>5. CASE r = c.root
  <2>1. \A i \in 1..(N - 1) : Others(r)[i] \in Ranks /\ Others(r)[i] # r /\ Slot(r, Others(r)[i]) = i
    BY OthersAre
  <2>2. \A q \in Ranks : q # r => Slot(r, q) \in 1..(N - 1) /\ Others(r)[Slot(r, q)] = q
    BY OthersAre
  <2>3. P = [i \in 1..(N - 1) |-> Send(Others(r)[i], "data")]
    BY <1>2, <1>5 DEF Broadcast
  <2>4. \A i \in 1..(N - 1) : Send(Others(r)[i], "data") \in Ops
    BY <1>4, <2>1, OpsAre
  <2> HIDE DEF P
  <2>5. /\ P \in Seq(Ops) /\ Len(P) = N - 1
        /\ \A i \in 1..(N - 1) : P[i] = Send(Others(r)[i], "data")
    BY <1>1, <2>3, <2>4
  <2>6. \A a \in 1..Len(P) : \E q \in Ranks, w \in Whats :
           \/ P[a] = Send(q, w) /\ Sends(r, q, w, c) /\ a = SendAt(r, q, w, c)
           \/ P[a] = Recv(q, w) /\ Sends(q, r, w, c) /\ a = RecvAt(r, q, w, c)
    BY <1>3, <1>4, <1>5, <2>1, <2>5
  <2>7. \A q \in Ranks, w \in Whats : Sends(r, q, w, c) =>
           SendAt(r, q, w, c) \in 1..Len(P) /\ P[SendAt(r, q, w, c)] = Send(q, w)
    BY <1>3, <2>2, <2>5
  <2>8. \A q \in Ranks, w \in Whats : Sends(q, r, w, c) =>
           RecvAt(r, q, w, c) \in 1..Len(P) /\ P[RecvAt(r, q, w, c)] = Recv(q, w)
    BY <1>3, <1>5
  <2>9. Shaped(P, r, c)
    BY <2>5, <2>6, <2>7, <2>8 DEF Shaped
  <2> QED
    BY <2>9 DEF P
<1>6. CASE r # c.root
  <2>1. P = <<Recv(c.root, "data")>>
    BY <1>2, <1>6 DEF Broadcast
  <2>2. Recv(c.root, "data") \in Ops
    BY <1>2, <1>4, OpsAre
  <2> HIDE DEF P
  <2>3. P \in Seq(Ops) /\ Len(P) = 1 /\ P[1] = Recv(c.root, "data")
    BY <2>1, <2>2
  <2>4. Sends(c.root, r, "data", c) /\ RecvAt(r, c.root, "data", c) = 1
    BY <1>2, <1>3, <1>4, <1>6
  <2>5. \A a \in 1..Len(P) : \E q \in Ranks, w \in Whats :
           \/ P[a] = Send(q, w) /\ Sends(r, q, w, c) /\ a = SendAt(r, q, w, c)
           \/ P[a] = Recv(q, w) /\ Sends(q, r, w, c) /\ a = RecvAt(r, q, w, c)
    BY <1>2, <1>4, <2>3, <2>4
  <2>6. \A q \in Ranks, w \in Whats : ~Sends(r, q, w, c)
    BY <1>3, <1>6
  <2>7. \A q \in Ranks, w \in Whats : Sends(q, r, w, c) =>
           RecvAt(r, q, w, c) \in 1..Len(P) /\ P[RecvAt(r, q, w, c)] = Recv(q, w)
    BY <1>3, <2>3
  <2>9. Shaped(P, r, c)
    BY <2>3, <2>5, <2>6, <2>7 DEF Shaped
  <2> QED
    BY <2>9 DEF P
<1> QED
  BY <1>5, <1>6

\* The root receives from the others in rank order; each of them sends once.
LEMMA ReduceShape ==
    ASSUME NEW r \in Ranks, NEW c \in Call, c.kind = "reduce"
    PROVE  Shaped(Program(r, c), r, c)
<1>1. N \in Nat /\ N > 1 /\ Ranks = 0..(N - 1)
  BY WorldSize
<1> DEFINE P == Program(r, c)
<1>2. P = Reduce(r, c.root) /\ c.root \in Ranks
  BY DEF Program, Call
<1>3. \A p, q \in Ranks, w \in Whats :
        /\ Sends(p, q, w, c) <=> p # q /\ w = "part" /\ q = c.root
        /\ SendAt(p, q, w, c) = 1
        /\ RecvAt(p, q, w, c) = Slot(p, q)
  BY DEF Sends, SendAt, RecvAt
<1>4. "part" \in Whats
  BY DEF Whats
<1>5. CASE r = c.root
  <2>1. \A i \in 1..(N - 1) : Others(r)[i] \in Ranks /\ Others(r)[i] # r /\ Slot(r, Others(r)[i]) = i
    BY OthersAre
  <2>2. \A q \in Ranks : q # r => Slot(r, q) \in 1..(N - 1) /\ Others(r)[Slot(r, q)] = q
    BY OthersAre
  <2>3. P = [i \in 1..(N - 1) |-> Recv(Others(r)[i], "part")]
    BY <1>2, <1>5 DEF Reduce
  <2>4. \A i \in 1..(N - 1) : Recv(Others(r)[i], "part") \in Ops
    BY <1>4, <2>1, OpsAre
  <2> HIDE DEF P
  <2>5. /\ P \in Seq(Ops) /\ Len(P) = N - 1
        /\ \A i \in 1..(N - 1) : P[i] = Recv(Others(r)[i], "part")
    BY <1>1, <2>3, <2>4
  <2>6. \A a \in 1..Len(P) : \E q \in Ranks, w \in Whats :
           \/ P[a] = Send(q, w) /\ Sends(r, q, w, c) /\ a = SendAt(r, q, w, c)
           \/ P[a] = Recv(q, w) /\ Sends(q, r, w, c) /\ a = RecvAt(r, q, w, c)
    BY <1>3, <1>4, <1>5, <2>1, <2>5
  <2>7. \A q \in Ranks, w \in Whats : Sends(q, r, w, c) =>
           RecvAt(r, q, w, c) \in 1..Len(P) /\ P[RecvAt(r, q, w, c)] = Recv(q, w)
    BY <1>3, <2>2, <2>5
  <2>8. \A q \in Ranks, w \in Whats : ~Sends(r, q, w, c)
    BY <1>3, <1>5
  <2>9. Shaped(P, r, c)
    BY <2>5, <2>6, <2>7, <2>8 DEF Shaped
  <2> QED
    BY <2>9 DEF P
<1>6. CASE r # c.root
  <2>1. P = <<Send(c.root, "part")>>
    BY <1>2, <1>6 DEF Reduce
  <2>2. Send(c.root, "part") \in Ops
    BY <1>2, <1>4, OpsAre
  <2> HIDE DEF P
  <2>3. P \in Seq(Ops) /\ Len(P) = 1 /\ P[1] = Send(c.root, "part")
    BY <2>1, <2>2
  <2>4. Sends(r, c.root, "part", c) /\ SendAt(r, c.root, "part", c) = 1
    BY <1>2, <1>3, <1>4, <1>6
  <2>5. \A a \in 1..Len(P) : \E q \in Ranks, w \in Whats :
           \/ P[a] = Send(q, w) /\ Sends(r, q, w, c) /\ a = SendAt(r, q, w, c)
           \/ P[a] = Recv(q, w) /\ Sends(q, r, w, c) /\ a = RecvAt(r, q, w, c)
    BY <1>2, <1>4, <2>3, <2>4
  <2>6. \A q \in Ranks, w \in Whats : ~Sends(q, r, w, c)
    BY <1>3, <1>6
  <2>7. \A q \in Ranks, w \in Whats : Sends(r, q, w, c) =>
           SendAt(r, q, w, c) \in 1..Len(P) /\ P[SendAt(r, q, w, c)] = Send(q, w)
    BY <1>3, <2>3
  <2>9. Shaped(P, r, c)
    BY <2>3, <2>5, <2>6, <2>7 DEF Shaped
  <2> QED
    BY <2>9 DEF P
<1> QED
  BY <1>5, <1>6

\* One pairwise exchange of chunks.
LEMMA AllToAllShape ==
    ASSUME NEW r \in Ranks, NEW c \in Call, c.kind = "all_to_all"
    PROVE  Shaped(Program(r, c), r, c)
<1> DEFINE P == Program(r, c)
<1>1. P = Pairwise(r, "chunk") /\ "chunk" \in Whats
  BY DEF Program, AllToAll, Whats
<1>2. \A p, q \in Ranks, w \in Whats :
        /\ Sends(p, q, w, c) <=> p # q /\ w = "chunk"
        /\ SendAt(p, q, w, c) = PairSend(p, q)
        /\ RecvAt(p, q, w, c) = PairRecv(p, q)
  BY DEF Sends, SendAt, RecvAt
<1> HIDE DEF P
<1>3. P \in Seq(Ops) /\ Len(P) = 2 * (N - 1)
  BY <1>1, PairwiseIs
<1>4. \A a \in 1..(2 * (N - 1)) : \E q \in Ranks \ {r} :
         \/ P[a] = Send(q, "chunk") /\ a = PairSend(r, q)
         \/ P[a] = Recv(q, "chunk") /\ a = PairRecv(r, q)
  <2>1. \A a \in 1..(2 * (N - 1)) : \E q \in Ranks \ {r} :
           \/ Pairwise(r, "chunk")[a] = Send(q, "chunk") /\ a = PairSend(r, q)
           \/ Pairwise(r, "chunk")[a] = Recv(q, "chunk") /\ a = PairRecv(r, q)
    BY <1>1, PairwiseIs
  <2> QED
    BY <1>1, <2>1
<1>5. \A q \in Ranks \ {r} :
         /\ PairSend(r, q) \in 1..(2 * (N - 1)) /\ P[PairSend(r, q)] = Send(q, "chunk")
         /\ PairRecv(r, q) \in 1..(2 * (N - 1)) /\ P[PairRecv(r, q)] = Recv(q, "chunk")
  BY <1>1, PairwiseIs
<1>6. \A a \in 1..Len(P) : \E q \in Ranks, w \in Whats :
         \/ P[a] = Send(q, w) /\ Sends(r, q, w, c) /\ a = SendAt(r, q, w, c)
         \/ P[a] = Recv(q, w) /\ Sends(q, r, w, c) /\ a = RecvAt(r, q, w, c)
  BY <1>1, <1>2, <1>3, <1>4
<1>7. \A q \in Ranks, w \in Whats : Sends(r, q, w, c) =>
         SendAt(r, q, w, c) \in 1..Len(P) /\ P[SendAt(r, q, w, c)] = Send(q, w)
  BY <1>2, <1>3, <1>5
<1>8. \A q \in Ranks, w \in Whats : Sends(q, r, w, c) =>
         RecvAt(r, q, w, c) \in 1..Len(P) /\ P[RecvAt(r, q, w, c)] = Recv(q, w)
  BY <1>2, <1>3, <1>5
<1>9. Shaped(P, r, c)
  BY <1>3, <1>6, <1>7, <1>8 DEF Shaped
<1> QED
  BY <1>9 DEF P

\* A pairwise exchange of counts, then one of chunks.
LEMMA AllToAllVShape ==
    ASSUME NEW r \in Ranks, NEW c \in Call, c.kind = "all_to_all_v"
    PROVE  Shaped(Program(r, c), r, c)
<1> DEFINE P == Program(r, c)
           firsts == Pairwise(r, "count")
           seconds == Pairwise(r, "chunk")
           M == 2 * (N - 1)
<1>1. P = firsts \o seconds /\ "chunk" \in Whats /\ "count" \in Whats
  BY DEF Program, AllToAllV, Whats
<1>2. \A p, q \in Ranks, w \in Whats :
        /\ Sends(p, q, w, c) <=> p # q /\ w \in {"count", "chunk"}
        /\ SendAt(p, q, w, c) = IF w = "count" THEN PairSend(p, q) ELSE M + PairSend(p, q)
        /\ RecvAt(p, q, w, c) = IF w = "count" THEN PairRecv(p, q) ELSE M + PairRecv(p, q)
  BY DEF Sends, SendAt, RecvAt
<1>3. M \in Nat
  BY WorldSize
<1> HIDE DEF P, firsts, seconds, M
<1>4. firsts \in Seq(Ops) /\ Len(firsts) = M /\ seconds \in Seq(Ops) /\ Len(seconds) = M
  BY <1>1, PairwiseIs DEF firsts, seconds, M
<1>5. P \in Seq(Ops)
  BY <1>1, <1>4, ConcatOps
<1>6. Len(P) = M + M
  BY <1>1, <1>4, ConcatOps
<1>7. \A a \in 1..M : P[a] = firsts[a]
  BY <1>1, <1>4, ConcatOps
<1>8. \A a \in 1..M : P[M + a] = seconds[a]
  BY <1>1, <1>4, ConcatOps
<1>9. /\ \A a \in 1..M : \E q \in Ranks \ {r} :
            \/ firsts[a] = Send(q, "count") /\ a = PairSend(r, q)
            \/ firsts[a] = Recv(q, "count") /\ a = PairRecv(r, q)
      /\ \A q \in Ranks \ {r} :
            /\ PairSend(r, q) \in 1..M /\ firsts[PairSend(r, q)] = Send(q, "count")
            /\ PairRecv(r, q) \in 1..M /\ firsts[PairRecv(r, q)] = Recv(q, "count")
  BY <1>1, PairwiseIs DEF firsts, M
<1>10. /\ \A a \in 1..M : \E q \in Ranks \ {r} :
            \/ seconds[a] = Send(q, "chunk") /\ a = PairSend(r, q)
            \/ seconds[a] = Recv(q, "chunk") /\ a = PairRecv(r, q)
      /\ \A q \in Ranks \ {r} :
            /\ PairSend(r, q) \in 1..M /\ seconds[PairSend(r, q)] = Send(q, "chunk")
            /\ PairRecv(r, q) \in 1..M /\ seconds[PairRecv(r, q)] = Recv(q, "chunk")
  BY <1>1, PairwiseIs DEF seconds, M
<1>11. \A a \in 1..Len(P) : \E q \in Ranks, w \in Whats :
         \/ P[a] = Send(q, w) /\ Sends(r, q, w, c) /\ a = SendAt(r, q, w, c)
         \/ P[a] = Recv(q, w) /\ Sends(q, r, w, c) /\ a = RecvAt(r, q, w, c)
  <2> TAKE a \in 1..Len(P)
  <2>1. CASE a =< M
    <3>1. a \in 1..M
      BY <1>3, <1>6, <2>1
    <3>2. PICK q \in Ranks \ {r} : \/ P[a] = Send(q, "count") /\ a = PairSend(r, q)
                                   \/ P[a] = Recv(q, "count") /\ a = PairRecv(r, q)
      BY <1>7, <1>9, <3>1
    <3>3. /\ Sends(r, q, "count", c) /\ Sends(q, r, "count", c)
          /\ SendAt(r, q, "count", c) = PairSend(r, q)
          /\ RecvAt(r, q, "count", c) = PairRecv(r, q)
      BY <1>1, <1>2
    <3> QED
      BY <1>1, <3>2, <3>3
  <2>2. CASE a > M
    <3> DEFINE b == a - M
    <3>1. b \in 1..M /\ a = M + b
      BY <1>3, <1>6, <2>2
    <3> HIDE DEF b
    <3>2. PICK q \in Ranks \ {r} : \/ P[a] = Send(q, "chunk") /\ b = PairSend(r, q)
                                   \/ P[a] = Recv(q, "chunk") /\ b = PairRecv(r, q)
      BY <1>8, <1>10, <3>1
    <3>3. /\ Sends(r, q, "chunk", c) /\ Sends(q, r, "chunk", c)
          /\ SendAt(r, q, "chunk", c) = M + PairSend(r, q)
          /\ RecvAt(r, q, "chunk", c) = M + PairRecv(r, q)
      BY <1>1, <1>2
    <3> QED
      BY <1>1, <3>1, <3>2, <3>3
  <2> QED
    BY <1>3, <1>6, <2>1, <2>2
<1>12. \A x \in 1..M : x \in 1..Len(P) /\ M + x \in 1..Len(P)
  BY <1>3, <1>6
<1>13. \A q \in Ranks, w \in Whats : Sends(r, q, w, c) =>
         SendAt(r, q, w, c) \in 1..Len(P) /\ P[SendAt(r, q, w, c)] = Send(q, w)
  <2> SUFFICES ASSUME NEW q \in Ranks, NEW w \in Whats, Sends(r, q, w, c)
               PROVE  SendAt(r, q, w, c) \in 1..Len(P) /\ P[SendAt(r, q, w, c)] = Send(q, w)
    OBVIOUS
  <2>1. q \in Ranks \ {r} /\ (w = "count" \/ w = "chunk")
    BY <1>2
  <2>2. PairSend(r, q) \in 1..M
    BY <1>9, <2>1
  <2>3. P[PairSend(r, q)] = Send(q, "count") /\ P[M + PairSend(r, q)] = Send(q, "chunk")
    BY <1>7, <1>8, <1>9, <1>10, <2>1, <2>2
  <2>4. SendAt(r, q, w, c) = IF w = "count" THEN PairSend(r, q) ELSE M + PairSend(r, q)
    BY <1>2
  <2> QED
    BY <1>12, <2>1, <2>2, <2>3, <2>4
<1>14. \A q \in Ranks, w \in Whats : Sends(q, r, w, c) =>
         RecvAt(r, q, w, c) \in 1..Len(P) /\ P[RecvAt(r, q, w, c)] = Recv(q, w)
  <2> SUFFICES ASSUME NEW q \in Ranks, NEW w \in Whats, Sends(q, r, w, c)
               PROVE  RecvAt(r, q, w, c) \in 1..Len(P) /\ P[RecvAt(r, q, w, c)] = Recv(q, w)
    OBVIOUS
  <2>1. q \in Ranks \ {r} /\ (w = "count" \/ w = "chunk")
    BY <1>2
  <2>2. PairRecv(r, q) \in 1..M
    BY <1>9, <2>1
  <2>3. P[PairRecv(r, q)] = Recv(q, "count") /\ P[M + PairRecv(r, q)] = Recv(q, "chunk")
    BY <1>7, <1>8, <1>9, <1>10, <2>1, <2>2
  <2>4. RecvAt(r, q, w, c) = IF w = "count" THEN PairRecv(r, q) ELSE M + PairRecv(r, q)
    BY <1>2
  <2> QED
    BY <1>12, <2>1, <2>2, <2>3, <2>4
<1>15. Shaped(P, r, c)
  BY <1>5, <1>11, <1>13, <1>14 DEF Shaped
<1> QED
  BY <1>15 DEF P

\* A permutation has at most one destination and one source for a rank.
Functional(perm) == \A a, b \in perm : a[1] = b[1] \/ a[2] = b[2] => a = b

\* A set of one or no element: as many operations as elements.
LEMMA AtMostOne ==
    ASSUME NEW S, \A x, y \in S : x = y
    PROVE  \/ S = {} /\ Cardinality(S) = 0
           \/ Cardinality(S) = 1 /\ \E x \in S : S = {x} /\ (CHOOSE y \in S : TRUE) = x
<1>1. CASE S = {}
  BY <1>1, FS_EmptySet
<1>2. CASE S # {}
  <2>1. PICK x \in S : S = {x}
    BY <1>2
  <2>2. Cardinality(S) = 1
    BY <2>1, FS_Singleton
  <2> QED
    BY <2>1, <2>2
<1> QED
  BY <1>1, <1>2

\* At most one send and one receive, the send first, none to oneself.
LEMMA PpermuteShape ==
    ASSUME NEW r \in Ranks, NEW c \in Call, c.kind = "ppermute", Functional(c.perm)
    PROVE  Shaped(Program(r, c), r, c)
<1> DEFINE P    == Program(r, c)
           to   == {p \in Ranks : <<r, p>> \in c.perm} \ {r}
           from == {p \in Ranks : <<p, r>> \in c.perm} \ {r}
           outs == [i \in 1..Cardinality(to) |-> Send(CHOOSE p \in to : TRUE, "data")]
           ins  == [i \in 1..Cardinality(from) |-> Recv(CHOOSE p \in from : TRUE, "data")]
<1>1. P = outs \o ins /\ "data" \in Whats
  BY DEF Program, Ppermute, Whats
<1>2. \A p, q \in Ranks, w \in Whats :
        /\ Sends(p, q, w, c) <=> p # q /\ w = "data" /\ <<p, q>> \in c.perm
        /\ SendAt(p, q, w, c) = 1
  BY DEF Sends, SendAt
<1>3. \A q \in Ranks, w \in Whats : RecvAt(r, q, w, c) = IF to = {} THEN 1 ELSE 2
  BY DEF RecvAt
<1>4. \A x, y \in to : x = y
  BY DEF Functional
<1>5. \A x, y \in from : x = y
  BY DEF Functional
<1>6. /\ \A q \in Ranks : q \in to <=> q # r /\ <<r, q>> \in c.perm
      /\ \A q \in Ranks : q \in from <=> q # r /\ <<q, r>> \in c.perm
      /\ to \subseteq Ranks /\ from \subseteq Ranks
  OBVIOUS
<1>7. /\ outs \in Seq(Ops) /\ Len(outs) = IF to = {} THEN 0 ELSE 1
      /\ \A q \in to : outs[1] = Send(q, "data")
  <2>1. CASE to = {} /\ Cardinality(to) = 0
    <3>1. outs = [i \in 1..0 |-> Send(CHOOSE p \in to : TRUE, "data")]
      BY <2>1
    <3>2. \A i \in 1..0 : Send(CHOOSE p \in to : TRUE, "data") \in Ops
      OBVIOUS
    <3>3. outs \in Seq(Ops) /\ Len(outs) = 0
      <4> DEFINE x == Send(CHOOSE p \in to : TRUE, "data")
      <4>1. outs = [i \in 1..0 |-> x] /\ 0 \in Nat /\ \A i \in 1..0 : x \in Ops
        BY <3>1, <3>2
      <4> HIDE DEF to, outs, x
      <4> QED
        BY <4>1
    <3> HIDE DEF to, outs
    <3> QED
      BY <2>1, <3>3
  <2>2. CASE Cardinality(to) = 1 /\ \E x \in to : to = {x} /\ (CHOOSE y \in to : TRUE) = x
    <3>1. PICK p \in to : to = {p} /\ (CHOOSE y \in to : TRUE) = p
      BY <2>2
    <3>2. outs = [i \in 1..1 |-> Send(p, "data")]
      BY <2>2, <3>1
    <3>3. Send(p, "data") \in Ops
      BY <1>1, <1>6, OpsAre
    <3> HIDE DEF to, outs
    <3>4. outs \in Seq(Ops) /\ Len(outs) = 1 /\ outs[1] = Send(p, "data")
      BY <3>2, <3>3
    <3> QED
      BY <3>1, <3>4
  <2>3. \/ to = {} /\ Cardinality(to) = 0
        \/ Cardinality(to) = 1 /\ \E x \in to : to = {x} /\ (CHOOSE y \in to : TRUE) = x
    <3> HIDE DEF to
    <3> QED
      BY <1>4, AtMostOne
  <2> HIDE DEF to, outs
  <2> QED
    BY <2>1, <2>2, <2>3
<1>8. /\ ins \in Seq(Ops) /\ Len(ins) = IF from = {} THEN 0 ELSE 1
      /\ \A q \in from : ins[1] = Recv(q, "data")
  <2>1. CASE from = {} /\ Cardinality(from) = 0
    <3>1. ins = [i \in 1..0 |-> Recv(CHOOSE p \in from : TRUE, "data")]
      BY <2>1
    <3>2. \A i \in 1..0 : Recv(CHOOSE p \in from : TRUE, "data") \in Ops
      OBVIOUS
    <3>3. ins \in Seq(Ops) /\ Len(ins) = 0
      <4> DEFINE x == Recv(CHOOSE p \in from : TRUE, "data")
      <4>1. ins = [i \in 1..0 |-> x] /\ 0 \in Nat /\ \A i \in 1..0 : x \in Ops
        BY <3>1, <3>2
      <4> HIDE DEF from, ins, x
      <4> QED
        BY <4>1
    <3> HIDE DEF from, ins
    <3> QED
      BY <2>1, <3>3
  <2>2. CASE Cardinality(from) = 1 /\ \E x \in from : from = {x} /\ (CHOOSE y \in from : TRUE) = x
    <3>1. PICK p \in from : from = {p} /\ (CHOOSE y \in from : TRUE) = p
      BY <2>2
    <3>2. ins = [i \in 1..1 |-> Recv(p, "data")]
      BY <2>2, <3>1
    <3>3. Recv(p, "data") \in Ops
      BY <1>1, <1>6, OpsAre
    <3> HIDE DEF from, ins
    <3>4. ins \in Seq(Ops) /\ Len(ins) = 1 /\ ins[1] = Recv(p, "data")
      BY <3>2, <3>3
    <3> QED
      BY <3>1, <3>4
  <2>3. \/ from = {} /\ Cardinality(from) = 0
        \/ Cardinality(from) = 1 /\ \E x \in from : from = {x} /\ (CHOOSE y \in from : TRUE) = x
    <3> HIDE DEF from
    <3> QED
      BY <1>5, AtMostOne
  <2> HIDE DEF from, ins
  <2> QED
    BY <2>1, <2>2, <2>3
<1> HIDE DEF P, to, from, outs, ins
<1>9. /\ P \in Seq(Ops)
      /\ Len(P) = (IF to = {} THEN 0 ELSE 1) + (IF from = {} THEN 0 ELSE 1)
      /\ \A q \in to : P[1] = Send(q, "data")
      /\ \A q \in from : P[IF to = {} THEN 1 ELSE 2] = Recv(q, "data")
  <2>1. outs \in Seq(Ops) /\ ins \in Seq(Ops)
    BY <1>7, <1>8
  <2>2. P \in Seq(Ops)
    BY <1>1, <2>1, ConcatOps
  <2>3. Len(P) = Len(outs) + Len(ins)
    BY <1>1, <2>1, ConcatOps
  <2>4. \A i \in 1..Len(outs) : P[i] = outs[i]
    BY <1>1, <2>1, ConcatOps
  <2>5. \A i \in 1..Len(ins) : P[Len(outs) + i] = ins[i]
    BY <1>1, <2>1, ConcatOps
  <2>6. \A q \in to : P[1] = Send(q, "data")
    BY <1>7, <2>4
  <2>7. \A q \in from : P[IF to = {} THEN 1 ELSE 2] = Recv(q, "data")
    <3> TAKE q \in from
    <3>1. 1 \in 1..Len(ins) /\ Len(outs) + 1 = IF to = {} THEN 1 ELSE 2
      BY <1>7, <1>8
    <3>2. P[Len(outs) + 1] = ins[1] /\ ins[1] = Recv(q, "data")
      BY <1>8, <2>5, <3>1
    <3> QED
      BY <3>1, <3>2
  <2>8. Len(P) = (IF to = {} THEN 0 ELSE 1) + (IF from = {} THEN 0 ELSE 1)
    BY <1>7, <1>8, <2>3
  <2> QED
    BY <2>2, <2>6, <2>7, <2>8
<1>10. \A a \in 1..Len(P) : \E q \in Ranks, w \in Whats :
         \/ P[a] = Send(q, w) /\ Sends(r, q, w, c) /\ a = SendAt(r, q, w, c)
         \/ P[a] = Recv(q, w) /\ Sends(q, r, w, c) /\ a = RecvAt(r, q, w, c)
  <2> TAKE a \in 1..Len(P)
  <2>1. CASE to # {} /\ a = 1
    <3>1. PICK q \in to : TRUE
      BY <2>1
    <3> QED
      BY <1>1, <1>2, <1>6, <1>9, <2>1, <3>1
  <2>2. CASE from # {} /\ a = IF to = {} THEN 1 ELSE 2
    <3>1. PICK q \in from : TRUE
      BY <2>2
    <3>2. q \in Ranks /\ P[a] = Recv(q, "data") /\ Sends(q, r, "data", c)
      BY <1>1, <1>2, <1>6, <1>9, <2>2
    <3>3. a = RecvAt(r, q, "data", c)
      BY <1>1, <1>3, <2>2, <3>2
    <3> QED
      BY <1>1, <3>2, <3>3
  <2> QED
    BY <1>9, <2>1, <2>2
<1>11. \A q \in Ranks, w \in Whats : Sends(r, q, w, c) =>
         SendAt(r, q, w, c) \in 1..Len(P) /\ P[SendAt(r, q, w, c)] = Send(q, w)
  <2> SUFFICES ASSUME NEW q \in Ranks, NEW w \in Whats, Sends(r, q, w, c)
               PROVE  SendAt(r, q, w, c) \in 1..Len(P) /\ P[SendAt(r, q, w, c)] = Send(q, w)
    OBVIOUS
  <2>1. q \in to /\ w = "data"
    BY <1>2, <1>6
  <2>2. SendAt(r, q, w, c) = 1
    BY <1>2
  <2> QED
    BY <1>9, <2>1, <2>2
<1>12. \A q \in Ranks, w \in Whats : Sends(q, r, w, c) =>
         RecvAt(r, q, w, c) \in 1..Len(P) /\ P[RecvAt(r, q, w, c)] = Recv(q, w)
  <2> SUFFICES ASSUME NEW q \in Ranks, NEW w \in Whats, Sends(q, r, w, c)
               PROVE  RecvAt(r, q, w, c) \in 1..Len(P) /\ P[RecvAt(r, q, w, c)] = Recv(q, w)
    OBVIOUS
  <2>1. q \in from /\ w = "data"
    BY <1>2, <1>6
  <2>2. RecvAt(r, q, w, c) = IF to = {} THEN 1 ELSE 2
    BY <1>3
  <2> QED
    BY <1>9, <2>1, <2>2
<1>13. Shaped(P, r, c)
  BY <1>9, <1>10, <1>11, <1>12 DEF Shaped
<1> QED
  BY <1>13 DEF P

\* Every call is a program of its own sends and receives.
LEMMA ShapeOf ==
    ASSUME NEW r \in Ranks, NEW c \in Call, Functional(c.perm)
    PROVE  Shaped(Program(r, c), r, c)
<1>1. c.kind \in Kinds
  BY DEF Call
<1> QED
  BY <1>1, GatherShape, BroadcastShape, ReduceShape, AllToAllShape, AllToAllVShape, PpermuteShape
     DEF Kinds

\* One frame of each kind in each direction, taken in the order of the sends.
LEMMA InOrder ==
    ASSUME NEW p \in Ranks, NEW r \in Ranks, NEW c \in Call, NEW v \in Whats, NEW w \in Whats,
           Sends(p, r, v, c), Sends(p, r, w, c)
    PROVE  /\ SendAt(p, r, v, c) = SendAt(p, r, w, c) => v = w
           /\ RecvAt(r, p, v, c) = RecvAt(r, p, w, c) => v = w
           /\ v # w => (SendAt(p, r, v, c) < SendAt(p, r, w, c) <=>
                            RecvAt(r, p, v, c) < RecvAt(r, p, w, c))
<1>1. N \in Nat /\ N > 1 /\ Ranks = 0..(N - 1)
  BY WorldSize
<1>2. CASE v = w
  BY <1>2
<1>3. CASE v # w
  <2>1. c.kind = "all_to_all_v" /\ p # r /\ v \in {"count", "chunk"} /\ w \in {"count", "chunk"}
    BY <1>3 DEF Sends
  <2>2. /\ PairSend(p, r) \in 1..(2 * (N - 1)) /\ PairRecv(r, p) \in 1..(2 * (N - 1))
    BY <1>1, <2>1 DEF PairSend, PairRecv, Slot
  <2> QED
    BY <1>1, <1>3, <2>1, <2>2 DEF SendAt, RecvAt
<1> QED
  BY <1>2, <1>3

-----------------------------------------------------------------------------
(* What is under way, and what a rank has so far.                          *)

ProgramOf(r, j) == Programs[schedule[j]][r]

\* A rank in call kk at operation pp is past operation a of call j.
Past(kk, pp, j, a) == kk > j \/ (kk = j /\ pp > a)

\* p has handed over the frame of its operation a in call j; r has taken that of b.
Handed(p, j, a)  == Past(k[p], pc[p], j, a) \/ (blocked[p] /\ k[p] = j /\ pc[p] = a)
Taken(r, j, b) == Past(k[r], pc[r], j, b)

\* Frame `what' of call j, from p to r, is under way.
SentFor(p, r, what, j)  == Handed(p, j, SendAt(p, r, what, schedule[j]))
TakenFor(p, r, what, j) == Taken(r, j, RecvAt(r, p, what, schedule[j]))

\* What is in the frame, and how long it is.
ValueOf(p, r, what, j) ==
    CASE what = "local" -> Input(p, p, j)
      [] what = "whole" -> [q \in Ranks |-> Input(q, q, j)]
      [] what = "data"  -> Data(p, j)
      [] what = "part"  -> Data(p, j)
      [] what = "chunk" -> Input(p, r, j)
      [] what = "count" -> Counts[p][r]

LenOf(p, r, what, c) ==
    CASE what = "local" -> 1
      [] what = "chunk" -> IF c.kind = "all_to_all_v" THEN Counts[p][r] ELSE 1
      [] what = "count" -> 2
      [] OTHER -> N

FrameOf(p, r, what, j, c) ==
    [tag |-> c.kind, call |-> j, what |-> what, len |-> LenOf(p, r, what, c),
     val |-> ValueOf(p, r, what, j)]

Frames == {FrameOf(p, r, w, j, c) : p \in Ranks, r \in Ranks, w \in Whats, j \in Nat, c \in Call}

\* The source of what r receives in a permutation.
SourceOf(r, perm) == CHOOSE p \in Ranks : <<p, r>> \in perm

\* r's output in call j, which is c, before operation n.
OutBefore(r, c, j, n) ==
    CASE c.kind = "all_gather" ->
           IF r = 0 THEN [q \in Ranks |-> IF q < n THEN Input(q, q, j) ELSE Zero]
           ELSE IF 2 < n THEN [q \in Ranks |-> Input(q, q, j)] ELSE OwnOnly(r, j)
      [] c.kind = "broadcast" -> IF r = c.root \/ 1 < n THEN Data(c.root, j) ELSE Data(r, j)
      [] c.kind \in {"all_to_all", "all_to_all_v"} ->
           [q \in Ranks |-> IF q = r \/ RecvAt(r, q, "chunk", c) < n THEN Input(q, r, j) ELSE Zero]
      [] c.kind = "reduce" ->
           IF r # c.root THEN Data(r, j)
           ELSE [p \in Ranks |-> [final |-> 0,
                    fold |-> [x \in 1..n |-> IF x = 1 THEN <<r, p, j>>
                                             ELSE <<Others(r)[x - 1], p, j>>]]]
      [] c.kind = "ppermute" ->
           IF \E p \in Ranks : <<p, r>> \in c.perm /\ (p = r \/ RecvAt(r, p, "data", c) < n)
           THEN Data(SourceOf(r, c.perm), j) ELSE [p \in Ranks |-> Zero]

CountsBefore(r, c, n) ==
    [q \in Ranks |-> IF q = r \/ (c.kind = "all_to_all_v" /\ RecvAt(r, q, "count", c) < n)
                     THEN Counts[q][r] ELSE 0]

Results == {[out |-> Promised(r, c, j), counts |-> CountsBefore(r, c, n)] :
               r \in Ranks, c \in Call, j \in Nat, n \in Nat}

\* Where each rank is: no call has failed, and a blocked rank is at a send.
Places ==
    /\ schedule \in Schedules
    /\ k \in [Ranks -> Nat] /\ pc \in [Ranks -> Nat] /\ blocked \in [Ranks -> BOOLEAN]
    /\ failed = [r \in Ranks |-> FALSE]
    /\ \A r \in Ranks : k[r] \in 1..(Len(schedule) + 1)
    /\ \A r \in Ranks : pc[r] # 0 =>
           k[r] \in 1..Len(schedule) /\ pc[r] =< Len(ProgramOf(r, k[r])) + 1
    /\ \A r \in Ranks : blocked[r] =>
           pc[r] \in 1..Len(ProgramOf(r, k[r])) /\ ProgramOf(r, k[r])[pc[r]].op = "send"

\* The buffers of the current call.
Buffers ==
    /\ out = [r \in Ranks |-> out[r]] /\ counts = [r \in Ranks |-> counts[r]]
    /\ \A r \in Ranks : pc[r] # 0 =>
          /\ out[r] = OutBefore(r, schedule[k[r]], k[r], pc[r])
          /\ counts[r] = CountsBefore(r, schedule[k[r]], pc[r])

\* A queue holds frames sent and not yet taken.
OnlyPending(p, r) ==
    \A i \in 1..Len(net[p][r]) : \E j \in 1..Len(schedule), w \in Whats :
        /\ net[p][r][i] = FrameOf(p, r, w, j, schedule[j])
        /\ Sends(p, r, w, schedule[j])
        /\ SentFor(p, r, w, j) /\ ~TakenFor(p, r, w, j)

\* It holds all of them, ...
AllPending(p, r) ==
    \A j \in 1..Len(schedule), w \in Whats :
        Sends(p, r, w, schedule[j]) /\ SentFor(p, r, w, j) /\ ~TakenFor(p, r, w, j) =>
            \E i \in 1..Len(net[p][r]) : net[p][r][i].call = j /\ net[p][r][i].what = w

\* ... in the order of the sends, ...
InSendOrder(p, r) ==
    \A i, i2 \in 1..Len(net[p][r]) : i < i2 =>
        LET f == net[p][r][i]  g == net[p][r][i2] IN
        Past(g.call, SendAt(p, r, g.what, schedule[g.call]),
             f.call, SendAt(p, r, f.what, schedule[f.call]))

\* ... and nothing is taken before it is sent.
TakenAfterSent(p, r) ==
    \A j \in 1..Len(schedule), w \in Whats :
        Sends(p, r, w, schedule[j]) /\ TakenFor(p, r, w, j) => SentFor(p, r, w, j)

Queues ==
    /\ net \in [Ranks -> [Ranks -> Seq(Frames)]]
    /\ \A p, r \in Ranks : /\ OnlyPending(p, r) /\ AllPending(p, r)
                           /\ InSendOrder(p, r) /\ TakenAfterSent(p, r)

Returned ==
    /\ results \in [Ranks -> Seq(Results)]
    /\ \A r \in Ranks :
          /\ Len(results[r]) = k[r] - 1
          /\ \A i \in 1..Len(results[r]) :
                /\ results[r][i].out = Promised(r, schedule[i], i)
                /\ schedule[i].kind = "all_to_all_v" =>
                      results[r][i].counts = [p \in Ranks |-> Counts[p][r]]

CallsInv == Places /\ Buffers /\ Queues /\ Returned

-----------------------------------------------------------------------------
(* Programs and queues.                                                    *)

\* The calls of a schedule, and their programs.
LEMMA CallOf ==
    ASSUME NEW s \in Schedules, NEW j \in 1..Len(s), NEW r \in Ranks
    PROVE  /\ s[j] \in Call /\ j \in DOMAIN s /\ Functional(s[j].perm)
           /\ Programs[s[j]][r] = Program(r, s[j])
           /\ Shaped(Programs[s[j]][r], r, s[j])
<1>1. s \in Seq(Call)
  BY CollectivesAssumption
<1>2. DOMAIN s = 1..Len(s) /\ s[j] \in Call
  BY <1>1
<1>3. Functional(s[j].perm)
  BY <1>2, CollectivesAssumption DEF Functional
<1>4. s[j] \in UNION {Range(t) : t \in Schedules}
  BY <1>2 DEF Range
<1>5. Programs[s[j]] = [q \in Ranks |-> Program(q, s[j])]
  BY <1>4 DEF Programs
<1>6. Programs[s[j]][r] = Program(r, s[j])
  BY <1>5
<1> QED
  BY <1>2, <1>3, <1>6, ShapeOf

\* Taking an element out of a queue moves the later ones up.
LEMMA RemoveAtIs ==
    ASSUME NEW S, NEW s \in Seq(S), NEW i \in 1..Len(s)
    PROVE  /\ RemoveAt(s, i) \in Seq(S) /\ Len(RemoveAt(s, i)) = Len(s) - 1
           /\ \A x \in 1..(Len(s) - 1) : RemoveAt(s, i)[x] = IF x < i THEN s[x] ELSE s[x + 1]
<1> DEFINE a == SubSeq(s, 1, i - 1)
           b == SubSeq(s, i + 1, Len(s))
<1>1. Len(s) \in Nat /\ i \in Nat /\ i >= 1 /\ i =< Len(s) /\ DOMAIN s = 1..Len(s)
  BY LenProperties
<1>2. a \in Seq(S) /\ Len(a) = i - 1 /\ \A x \in 1..(i - 1) : a[x] = s[x]
  <2>1. \A x \in 1..(i - 1) : s[x] \in S /\ x + 1 - 1 = x /\ 1 + x - 1 = x
    BY <1>1
  <2>2. a = [x \in 1..(i - 1) |-> s[x]]
    BY <1>1, <2>1
  <2> HIDE DEF a
  <2> QED
    BY <1>1, <2>1, <2>2
<1>3. b \in Seq(S) /\ Len(b) = Len(s) - i /\ \A x \in 1..(Len(s) - i) : b[x] = s[i + x]
  <2>1. \A x \in 1..(Len(s) - i) : s[i + x] \in S /\ x + (i + 1) - 1 = i + x
    BY <1>1
  <2>2. b = [x \in 1..(Len(s) - i) |-> s[i + x]]
    <3>1. Len(s) - (i + 1) + 1 = Len(s) - i
      BY <1>1
    <3> QED
      BY <1>1, <2>1, <3>1
  <2>3. Len(s) - i \in Nat
    BY <1>1
  <2> HIDE DEF b
  <2> QED
    BY <2>1, <2>2, <2>3
<1>4. RemoveAt(s, i) = a \o b
  BY DEF RemoveAt
<1> HIDE DEF a, b
<1>5. a \o b \in Seq(S)
  BY <1>2, <1>3, ConcatOps
<1>6. Len(a \o b) = Len(a) + Len(b)
  BY <1>2, <1>3, ConcatOps
<1>7. \A x \in 1..Len(a) : (a \o b)[x] = a[x]
  BY <1>2, <1>3, ConcatOps
<1>8. \A x \in 1..Len(b) : (a \o b)[Len(a) + x] = b[x]
  BY <1>2, <1>3, ConcatOps
<1>9. \A x \in 1..(Len(s) - 1) : (a \o b)[x] = IF x < i THEN s[x] ELSE s[x + 1]
  <2> TAKE x \in 1..(Len(s) - 1)
  <2>1. CASE x < i
    <3>1. x \in 1..(i - 1)
      BY <1>1, <2>1
    <3> QED
      BY <1>2, <1>7, <2>1, <3>1
  <2>2. CASE ~(x < i)
    <3> DEFINE y == x - (i - 1)
    <3>1. y \in 1..(Len(s) - i) /\ (i - 1) + y = x /\ i + y = x + 1
      BY <1>1, <2>2
    <3> HIDE DEF y
    <3>2. (a \o b)[Len(a) + y] = b[y] /\ b[y] = s[i + y] /\ Len(a) + y = x
      BY <1>2, <1>3, <1>8, <3>1
    <3> QED
      BY <2>2, <3>1, <3>2
  <2> QED
    BY <2>1, <2>2
<1> QED
  BY <1>1, <1>2, <1>3, <1>4, <1>5, <1>6, <1>9

\* The frame a receive takes: the first of the call's tag.
LEMMA MatchingIs ==
    ASSUME NEW r \in Ranks, NEW p \in Ranks, NEW S, net[p][r] \in Seq(S), Op(r).peer = p
    PROVE  /\ Matching(r) = 0 \/ Matching(r) \in 1..Len(net[p][r])
           /\ Matching(r) # 0 => /\ net[p][r][Matching(r)].tag = Current(r).kind
                                 /\ \A i \in 1..Len(net[p][r]) :
                                       net[p][r][i].tag = Current(r).kind => Matching(r) =< i
<1> DEFINE I == {i \in 1..Len(net[p][r]) : net[p][r][i].tag = Current(r).kind}
<1>1. Matching(r) = IF I # {} THEN Min(I) ELSE 0
  BY DEF Matching, SelectInSeq
<1>2. I \subseteq Nat
  BY LenProperties
<1>3. I # {} => Min(I) \in I /\ \A x \in I : Min(I) =< x
  <2> HIDE DEF I
  <2> SUFFICES ASSUME I # {}
               PROVE  Min(I) \in I /\ \A x \in I : Min(I) =< x
    OBVIOUS
  <2>1. \E x \in I : \A y \in I : x =< y
    BY <1>2, LeastNat
  <2> QED
    BY <2>1 DEF Min
<1>4. CASE I = {}
  BY <1>1, <1>4
<1>5. CASE I # {}
  <2>1. Matching(r) \in I /\ \A x \in I : Matching(r) =< x
    BY <1>1, <1>3, <1>5
  <2> QED
    BY <2>1
<1> QED
  BY <1>4, <1>5

-----------------------------------------------------------------------------
(* What the operations of a call do to a rank's buffers.                   *)

\* Every frame has a place in both programs, and no two receives of a rank share one.
LEMMA Distinct ==
    ASSUME NEW r \in Ranks, NEW c \in Call, Functional(c.perm)
    PROVE  /\ \A q \in Ranks, w \in Whats : Sends(q, r, w, c) =>
                 RecvAt(r, q, w, c) \in Nat \ {0}
           /\ \A q \in Ranks, w \in Whats : Sends(r, q, w, c) =>
                 SendAt(r, q, w, c) \in Nat \ {0}
           /\ \A q, p \in Ranks, v, w \in Whats :
                 Sends(q, r, v, c) /\ Sends(p, r, w, c) /\ RecvAt(r, q, v, c) = RecvAt(r, p, w, c)
                    => q = p /\ v = w
           /\ \A q, p \in Ranks, v, w \in Whats :
                 Sends(r, q, v, c) /\ Sends(p, r, w, c) => SendAt(r, q, v, c) # RecvAt(r, p, w, c)
<1> DEFINE P == Program(r, c)
<1>1. Shaped(P, r, c)
  BY ShapeOf
<1> HIDE DEF P
<1>2. Len(P) \in Nat
  BY <1>1, LenProperties DEF Shaped
<1>3. \A q \in Ranks, w \in Whats : Sends(q, r, w, c) =>
         RecvAt(r, q, w, c) \in Nat \ {0} /\ P[RecvAt(r, q, w, c)] = Recv(q, w)
  BY <1>1, <1>2 DEF Shaped
<1>4. \A q \in Ranks, w \in Whats : Sends(r, q, w, c) =>
         SendAt(r, q, w, c) \in Nat \ {0} /\ P[SendAt(r, q, w, c)] = Send(q, w)
  BY <1>1, <1>2 DEF Shaped
<1>5. \A q, p \in Ranks, v, w \in Whats :
         (Recv(q, v) = Recv(p, w) => q = p /\ v = w) /\ Send(q, v) # Recv(p, w)
  BY OpsAre
<1> QED
  BY <1>3, <1>4, <1>5

\* The fold of a single input.
LEMMA OneElement ==
    ASSUME NEW e
    PROVE  [x \in 1..1 |-> e] = <<e>>
<1> DEFINE s == [x \in 1..1 |-> e]
<1>1. s \in Seq({e}) /\ Len(s) = 1 /\ s[1] = e
  OBVIOUS
<1>2. <<e>> \in Seq({e}) /\ Len(<<e>>) = 1 /\ <<e>>[1] = e
  OBVIOUS
<1>3. \A i \in 1..1 : i = 1
  OBVIOUS
<1> HIDE DEF s
<1>4. s = <<e>>
  BY <1>1, <1>2, <1>3, SeqEqual
<1> QED
  BY <1>4 DEF s

\* The same, one element longer.
LEMMA OneMore ==
    ASSUME NEW S, NEW n \in Nat, NEW f \in [1..n -> S], NEW g \in [1..(n + 1) -> S], NEW e \in S,
           \A x \in 1..n : g[x] = f[x], g[n + 1] = e
    PROVE  f \o <<e>> = g
<1>1. g \in Seq(S) /\ Len(g) = n + 1
  OBVIOUS
<1>4. f \in Seq(S) /\ Len(f) = n
  OBVIOUS
<1>5. <<e>> \in Seq(S) /\ Len(<<e>>) = 1 /\ <<e>>[1] = e
  OBVIOUS
<1>6. f \o <<e>> \in Seq(S)
  BY <1>4, <1>5, ConcatOps
<1>7. Len(f \o <<e>>) = n + 1
  BY <1>4, <1>5, ConcatOps
<1>8. \A x \in 1..n : (f \o <<e>>)[x] = f[x]
  BY <1>4, <1>5, ConcatOps
<1>9. (f \o <<e>>)[n + 1] = e
  BY <1>4, <1>5, ConcatOps
<1>10. \A x \in 1..(n + 1) : (f \o <<e>>)[x] = g[x]
  <2> TAKE x \in 1..(n + 1)
  <2>1. x \in 1..n \/ x = n + 1
    OBVIOUS
  <2> QED
    BY <1>8, <1>9, <2>1
<1> QED
  BY <1>1, <1>6, <1>7, <1>10, SeqEqual

\* The buffer with a frame's value received.
NewOut(buf, q, what, val) ==
    CASE what \in {"local", "chunk"} -> [buf EXCEPT ![q] = val]
      [] what \in {"whole", "data"}  -> val
      [] what = "part"  -> Fold(buf, val)
      [] what = "count" -> buf
NewCounts(cs, q, what, val) == IF what = "count" THEN [cs EXCEPT ![q] = val] ELSE cs

\* A gather fills the root's output chunk by chunk, then the others at once.
LEMMA GatherSteps ==
    ASSUME NEW r \in Ranks, NEW c \in Call, c.kind = "all_gather", NEW j \in Nat, NEW n \in Nat \ {0}
    PROVE  /\ OutBefore(r, c, j, 1) = Prepared(r, c, j)
           /\ \A q \in Ranks, w \in Whats : Sends(r, q, w, c) /\ n = SendAt(r, q, w, c) =>
                 /\ OutBefore(r, c, j, n + 1) = OutBefore(r, c, j, n)
                 /\ w = "whole" => OutBefore(r, c, j, n) = ValueOf(r, q, w, j)
           /\ \A q \in Ranks, w \in Whats : Sends(q, r, w, c) /\ n = RecvAt(r, q, w, c) =>
                 OutBefore(r, c, j, n + 1) = NewOut(OutBefore(r, c, j, n), q, w, ValueOf(q, r, w, j))
           /\ n = Len(Program(r, c)) + 1 => OutBefore(r, c, j, n) = Promised(r, c, j)
<1>1. N \in Nat /\ N > 1 /\ Ranks = 0..(N - 1)
  BY WorldSize
<1>2. \A m \in Nat : OutBefore(r, c, j, m) =
           IF r = 0 THEN [q \in Ranks |-> IF q < m THEN Input(q, q, j) ELSE Zero]
           ELSE IF 2 < m THEN [q \in Ranks |-> Input(q, q, j)] ELSE OwnOnly(r, j)
  BY DEF OutBefore
<1>3. Promised(r, c, j) = [q \in Ranks |-> Input(q, q, j)]
  BY DEF Promised
<1>4. Prepared(r, c, j) = OwnOnly(r, j)
  BY DEF Prepared
<1>5. CASE r = 0
  <2>1. \A m \in Nat : OutBefore(r, c, j, m) = [q \in Ranks |-> IF q < m THEN Input(q, q, j) ELSE Zero]
    BY <1>2, <1>5
  <2>2. OutBefore(r, c, j, 1) = Prepared(r, c, j)
    <3>1. \A q \in Ranks : q < 1 <=> q = r
      BY <1>1, <1>5
    <3>2. [q \in Ranks |-> IF q < 1 THEN Input(q, q, j) ELSE Zero] = OwnOnly(r, j)
      BY <3>1 DEF OwnOnly
    <3> QED
      BY <1>4, <2>1, <3>2
  <2>3. \A m \in Nat : m >= N => OutBefore(r, c, j, m) = [q \in Ranks |-> Input(q, q, j)]
    <3> SUFFICES ASSUME NEW m \in Nat, m >= N
                 PROVE  OutBefore(r, c, j, m) = [q \in Ranks |-> Input(q, q, j)]
      OBVIOUS
    <3>1. \A q \in Ranks : q < m
      BY <1>1
    <3> QED
      BY <2>1, <3>1
  <2>4. ASSUME NEW q \in Ranks, NEW w \in Whats, Sends(r, q, w, c), n = SendAt(r, q, w, c)
        PROVE  /\ OutBefore(r, c, j, n + 1) = OutBefore(r, c, j, n)
               /\ w = "whole" => OutBefore(r, c, j, n) = ValueOf(r, q, w, j)
    <3>1. w = "whole" /\ q # 0
      BY <1>5, <2>4 DEF Sends
    <3>2. n >= N /\ n + 1 >= N /\ n + 1 \in Nat
      BY <1>1, <2>4, <3>1 DEF SendAt
    <3>3. ValueOf(r, q, w, j) = [x \in Ranks |-> Input(x, x, j)]
      BY <3>1 DEF ValueOf
    <3> QED
      BY <2>3, <3>2, <3>3
  <2>5. ASSUME NEW q \in Ranks, NEW w \in Whats, Sends(q, r, w, c), n = RecvAt(r, q, w, c)
        PROVE  OutBefore(r, c, j, n + 1) = NewOut(OutBefore(r, c, j, n), q, w, ValueOf(q, r, w, j))
    <3>1. w = "local" /\ q # 0
      BY <1>5, <2>5 DEF Sends
    <3>2. n = q
      BY <2>5, <3>1 DEF RecvAt
    <3>3. NewOut(OutBefore(r, c, j, n), q, w, ValueOf(q, r, w, j))
            = [OutBefore(r, c, j, n) EXCEPT ![q] = Input(q, q, j)]
      BY <3>1 DEF NewOut, ValueOf
    <3>4. n \in Nat /\ n + 1 \in Nat /\ \A x \in Ranks : x < n + 1 <=> x < n \/ x = q
      BY <1>1, <3>2
    <3>5. /\ OutBefore(r, c, j, n) = [x \in Ranks |-> IF x < n THEN Input(x, x, j) ELSE Zero]
          /\ OutBefore(r, c, j, n + 1) = [x \in Ranks |-> IF x < n + 1 THEN Input(x, x, j) ELSE Zero]
      BY <2>1, <3>4
    <3> DEFINE A == OutBefore(r, c, j, n)
               B == OutBefore(r, c, j, n + 1)
    <3>6. /\ A = [x \in Ranks |-> A[x]] /\ B = [x \in Ranks |-> B[x]]
          /\ \A x \in Ranks : B[x] = IF x = q THEN Input(q, q, j) ELSE A[x]
      BY <3>4, <3>5
    <3> HIDE DEF A, B
    <3>7. B = [A EXCEPT ![q] = Input(q, q, j)]
      BY <3>6
    <3> QED
      BY <3>3, <3>7 DEF A, B
  <2>6. n = Len(Program(r, c)) + 1 => OutBefore(r, c, j, n) = Promised(r, c, j)
    <3> SUFFICES ASSUME n = Len(Program(r, c)) + 1
                 PROVE  OutBefore(r, c, j, n) = Promised(r, c, j)
      OBVIOUS
    <3>1. Shaped(Program(r, c), r, c) /\ 1 \in Ranks /\ "whole" \in Whats /\ N - 1 \in Ranks
      BY <1>1, GatherShape DEF Whats
    <3>2. Sends(r, N - 1, "whole", c) /\ SendAt(r, N - 1, "whole", c) = N - 1 + (N - 1)
      BY <1>1, <1>5 DEF Sends, SendAt
    <3>3. N - 1 + (N - 1) \in 1..Len(Program(r, c))
      BY <3>1, <3>2 DEF Shaped
    <3>4. n >= N
      BY <1>1, <3>3
    <3> QED
      BY <1>3, <2>3, <3>4
  <2> QED
    BY <2>2, <2>4, <2>5, <2>6
<1>6. CASE r # 0
  <2>1. \A m \in Nat : OutBefore(r, c, j, m) =
           IF 2 < m THEN [q \in Ranks |-> Input(q, q, j)] ELSE OwnOnly(r, j)
    BY <1>2, <1>6
  <2>2. OutBefore(r, c, j, 1) = Prepared(r, c, j)
    BY <1>4, <2>1
  <2>3. ASSUME NEW q \in Ranks, NEW w \in Whats, Sends(r, q, w, c), n = SendAt(r, q, w, c)
        PROVE  n = 1 /\ w # "whole"
    BY <1>6, <2>3 DEF Sends, SendAt
  <2>4. OutBefore(r, c, j, 2) = OutBefore(r, c, j, 1)
    BY <2>1
  <2>5. ASSUME NEW q \in Ranks, NEW w \in Whats, Sends(q, r, w, c), n = RecvAt(r, q, w, c)
        PROVE  OutBefore(r, c, j, n + 1) = NewOut(OutBefore(r, c, j, n), q, w, ValueOf(q, r, w, j))
    <3>1. w = "whole" /\ n = 2
      BY <1>6, <2>5 DEF Sends, RecvAt
    <3>2. NewOut(OutBefore(r, c, j, n), q, w, ValueOf(q, r, w, j)) = [x \in Ranks |-> Input(x, x, j)]
      BY <3>1 DEF NewOut, ValueOf
    <3> QED
      BY <2>1, <3>1, <3>2
  <2>6. n = Len(Program(r, c)) + 1 => OutBefore(r, c, j, n) = Promised(r, c, j)
    <3>1. Program(r, c) = <<Send(0, "local"), Recv(0, "whole")>>
      BY <1>6 DEF Program, AllGather
    <3>2. Len(Program(r, c)) = 2
      BY <3>1
    <3> QED
      BY <1>3, <2>1, <3>2
  <2> QED
    BY <2>2, <2>3, <2>4, <2>5, <2>6
<1> QED
  BY <1>5, <1>6

\* A broadcast replaces the buffer by the root's.
LEMMA BroadcastSteps ==
    ASSUME NEW r \in Ranks, NEW c \in Call, c.kind = "broadcast", NEW j \in Nat, NEW n \in Nat \ {0}
    PROVE  /\ OutBefore(r, c, j, 1) = Prepared(r, c, j)
           /\ \A q \in Ranks, w \in Whats : Sends(r, q, w, c) /\ n = SendAt(r, q, w, c) =>
                 w # "whole" /\ OutBefore(r, c, j, n + 1) = OutBefore(r, c, j, n)
           /\ \A q \in Ranks, w \in Whats : Sends(q, r, w, c) /\ n = RecvAt(r, q, w, c) =>
                 OutBefore(r, c, j, n + 1) = NewOut(OutBefore(r, c, j, n), q, w, ValueOf(q, r, w, j))
           /\ n = Len(Program(r, c)) + 1 => OutBefore(r, c, j, n) = Promised(r, c, j)
<1>1. \A m \in Nat : OutBefore(r, c, j, m) =
           IF r = c.root \/ 1 < m THEN Data(c.root, j) ELSE Data(r, j)
  BY DEF OutBefore
<1>2. Promised(r, c, j) = Data(c.root, j) /\ Prepared(r, c, j) = Data(r, j)
  BY DEF Promised, Prepared
<1>3. OutBefore(r, c, j, 1) = Prepared(r, c, j)
  BY <1>1, <1>2
<1>4. ASSUME NEW q \in Ranks, NEW w \in Whats, Sends(r, q, w, c), n = SendAt(r, q, w, c)
      PROVE  w # "whole" /\ OutBefore(r, c, j, n + 1) = OutBefore(r, c, j, n)
  <2>1. w = "data" /\ r = c.root
    BY <1>4 DEF Sends
  <2>2. n \in Nat /\ n + 1 \in Nat
    OBVIOUS
  <2> QED
    BY <1>1, <2>1, <2>2
<1>5. ASSUME NEW q \in Ranks, NEW w \in Whats, Sends(q, r, w, c), n = RecvAt(r, q, w, c)
      PROVE  OutBefore(r, c, j, n + 1) = NewOut(OutBefore(r, c, j, n), q, w, ValueOf(q, r, w, j))
  <2>1. w = "data" /\ q = c.root /\ n = 1
    BY <1>5 DEF Sends, RecvAt
  <2>2. NewOut(OutBefore(r, c, j, n), q, w, ValueOf(q, r, w, j)) = Data(q, j)
    BY <2>1 DEF NewOut, ValueOf
  <2> QED
    BY <1>1, <2>1, <2>2
<1>6. n = Len(Program(r, c)) + 1 => OutBefore(r, c, j, n) = Promised(r, c, j)
  <2>1. CASE r = c.root
    BY <1>1, <1>2, <2>1
  <2>2. CASE r # c.root
    <3>1. Len(Program(r, c)) = 1
      BY <2>2 DEF Program, Broadcast
    <3> QED
      BY <1>1, <1>2, <3>1
  <2> QED
    BY <2>1, <2>2
<1> QED
  BY <1>3, <1>4, <1>5, <1>6

\* A pairwise exchange fills one chunk after the other.
LEMMA PairwiseSteps ==
    ASSUME NEW r \in Ranks, NEW c \in Call, c.kind \in {"all_to_all", "all_to_all_v"},
           NEW j \in Nat, NEW n \in Nat \ {0}, Functional(c.perm)
    PROVE  /\ OutBefore(r, c, j, 1) = Prepared(r, c, j)
           /\ \A q \in Ranks, w \in Whats : Sends(r, q, w, c) /\ n = SendAt(r, q, w, c) =>
                 w # "whole" /\ OutBefore(r, c, j, n + 1) = OutBefore(r, c, j, n)
           /\ \A q \in Ranks, w \in Whats : Sends(q, r, w, c) /\ n = RecvAt(r, q, w, c) =>
                 OutBefore(r, c, j, n + 1) = NewOut(OutBefore(r, c, j, n), q, w, ValueOf(q, r, w, j))
           /\ n = Len(Program(r, c)) + 1 => OutBefore(r, c, j, n) = Promised(r, c, j)
<1> DEFINE At(q) == RecvAt(r, q, "chunk", c)
<1>1. \A m \in Nat : OutBefore(r, c, j, m) =
           [q \in Ranks |-> IF q = r \/ At(q) < m THEN Input(q, r, j) ELSE Zero]
  BY DEF OutBefore
<1>2. Promised(r, c, j) = [q \in Ranks |-> Input(q, r, j)] /\ Prepared(r, c, j) = OwnOnly(r, j)
  BY DEF Promised, Prepared
<1>3. "chunk" \in Whats /\ \A q \in Ranks : q # r => Sends(q, r, "chunk", c) /\ Sends(r, q, "chunk", c)
  BY DEF Whats, Sends
<1>4. \A q \in Ranks : q # r => At(q) \in Nat \ {0}
  BY <1>3, Distinct
<1>5. n \in Nat /\ n + 1 \in Nat
  OBVIOUS
<1> HIDE DEF At
<1>6. OutBefore(r, c, j, 1) = Prepared(r, c, j)
  <2>1. \A q \in Ranks : q = r \/ ~(At(q) < 1)
    BY <1>4
  <2>2. [q \in Ranks |-> IF q = r \/ At(q) < 1 THEN Input(q, r, j) ELSE Zero] = OwnOnly(r, j)
    BY <2>1 DEF OwnOnly
  <2> QED
    BY <1>1, <1>2, <2>2
<1>7. ASSUME NEW q \in Ranks, NEW w \in Whats, Sends(r, q, w, c), n = SendAt(r, q, w, c)
      PROVE  w # "whole" /\ OutBefore(r, c, j, n + 1) = OutBefore(r, c, j, n)
  <2>1. w # "whole"
    BY <1>7 DEF Sends
  <2>2. \A p \in Ranks : p # r => At(p) # n
    BY <1>3, <1>7, Distinct DEF At
  <2>3. \A p \in Ranks : p # r => (At(p) < n + 1 <=> At(p) < n)
    BY <1>4, <2>2
  <2> QED
    BY <1>1, <1>5, <2>1, <2>3
<1>8. ASSUME NEW q \in Ranks, NEW w \in Whats, Sends(q, r, w, c), n = RecvAt(r, q, w, c)
      PROVE  OutBefore(r, c, j, n + 1) = NewOut(OutBefore(r, c, j, n), q, w, ValueOf(q, r, w, j))
  <2>1. q # r /\ (w = "count" \/ w = "chunk")
    BY <1>8 DEF Sends
  <2>2. CASE w = "count"
    <3>1. \A p \in Ranks : p # r => At(p) # n
      <4> SUFFICES ASSUME NEW p \in Ranks, p # r, At(p) = n
                   PROVE  FALSE
        OBVIOUS
      <4>1. Sends(p, r, "chunk", c) /\ "chunk" \in Whats /\ RecvAt(r, p, "chunk", c) = RecvAt(r, q, w, c)
        BY <1>3, <1>8 DEF At
      <4>2. "chunk" = w
        BY <1>8, <4>1, Distinct
      <4> QED
        BY <2>2, <4>2
    <3>2. \A p \in Ranks : p # r => (At(p) < n + 1 <=> At(p) < n)
      BY <1>4, <3>1
    <3>3. OutBefore(r, c, j, n + 1) = OutBefore(r, c, j, n)
      BY <1>1, <1>5, <3>2
    <3> QED
      BY <2>2, <3>3 DEF NewOut
  <2>3. CASE w = "chunk"
    <3>1. \A p \in Ranks : p # r /\ p # q => At(p) # n
      BY <1>3, <1>8, Distinct DEF At
    <3>2. \A p \in Ranks : p # r => (At(p) < n + 1 <=> At(p) < n \/ p = q)
      <4>1. At(q) = n
        BY <1>8, <2>3 DEF At
      <4> QED
        BY <1>4, <3>1, <4>1
    <3>3. NewOut(OutBefore(r, c, j, n), q, w, ValueOf(q, r, w, j))
            = [OutBefore(r, c, j, n) EXCEPT ![q] = Input(q, r, j)]
      BY <2>3 DEF NewOut, ValueOf
    <3> DEFINE A == OutBefore(r, c, j, n)
               B == OutBefore(r, c, j, n + 1)
    <3>4. /\ A = [x \in Ranks |-> IF x = r \/ At(x) < n THEN Input(x, r, j) ELSE Zero]
          /\ B = [x \in Ranks |-> IF x = r \/ At(x) < n + 1 THEN Input(x, r, j) ELSE Zero]
      BY <1>1, <1>5
    <3>5. /\ A = [x \in Ranks |-> A[x]] /\ B = [x \in Ranks |-> B[x]]
          /\ \A x \in Ranks : B[x] = IF x = q THEN Input(q, r, j) ELSE A[x]
      BY <2>1, <3>2, <3>4
    <3> HIDE DEF A, B
    <3>6. B = [A EXCEPT ![q] = Input(q, r, j)]
      BY <3>5
    <3> QED
      BY <3>3, <3>6 DEF A, B
  <2> QED
    BY <2>1, <2>2, <2>3
<1>9. n = Len(Program(r, c)) + 1 => OutBefore(r, c, j, n) = Promised(r, c, j)
  <2> SUFFICES ASSUME n = Len(Program(r, c)) + 1
               PROVE  OutBefore(r, c, j, n) = Promised(r, c, j)
    OBVIOUS
  <2>1. Shaped(Program(r, c), r, c)
    BY ShapeOf
  <2>2. \A q \in Ranks : q # r => At(q) \in 1..Len(Program(r, c))
    BY <1>3, <2>1 DEF Shaped, At
  <2>3. Len(Program(r, c)) \in Nat
    BY <2>1, LenProperties DEF Shaped
  <2>4. \A q \in Ranks : q # r => At(q) < n
    BY <2>2, <2>3
  <2> QED
    BY <1>1, <1>2, <1>5, <2>4
<1> QED
  BY <1>6, <1>7, <1>8, <1>9

\* A reduce folds the others in rank order after the root's own input.
LEMMA ReduceSteps ==
    ASSUME NEW r \in Ranks, NEW c \in Call, c.kind = "reduce", NEW j \in Nat, NEW n \in Nat \ {0}
    PROVE  /\ OutBefore(r, c, j, 1) = Prepared(r, c, j)
           /\ \A q \in Ranks, w \in Whats : Sends(r, q, w, c) /\ n = SendAt(r, q, w, c) =>
                 w # "whole" /\ OutBefore(r, c, j, n + 1) = OutBefore(r, c, j, n)
           /\ \A q \in Ranks, w \in Whats : Sends(q, r, w, c) /\ n = RecvAt(r, q, w, c) =>
                 OutBefore(r, c, j, n + 1) = NewOut(OutBefore(r, c, j, n), q, w, ValueOf(q, r, w, j))
           /\ n = Len(Program(r, c)) + 1 =>
                 IF c.root = r THEN Finalize(OutBefore(r, c, j, n)) = Promised(r, c, j)
                               ELSE OutBefore(r, c, j, n) = Promised(r, c, j)
<1>1. N \in Nat /\ N > 1 /\ Ranks = 0..(N - 1)
  BY WorldSize
<1>2. n \in Nat /\ n + 1 \in Nat /\ 1 \in Nat
  OBVIOUS
<1>3. Prepared(r, c, j) = Data(r, j)
  BY DEF Prepared
<1>4. CASE r # c.root
  <2>1. /\ \A m \in Nat : OutBefore(r, c, j, m) = Data(r, j)
        /\ Promised(r, c, j) = Data(r, j)
    BY <1>4 DEF OutBefore, Promised
  <2>2. \A q \in Ranks, w \in Whats : ~Sends(q, r, w, c) /\ (Sends(r, q, w, c) => w # "whole")
    BY <1>4 DEF Sends
  <2> QED
    BY <1>2, <1>3, <1>4, <2>1, <2>2
<1>5. CASE r = c.root
  <2> DEFINE Fld(m, p) == [x \in 1..m |-> IF x = 1 THEN <<r, p, j>> ELSE <<Others(r)[x - 1], p, j>>]
  <2>1. \A m \in Nat : OutBefore(r, c, j, m) = [p \in Ranks |-> [final |-> 0, fold |-> Fld(m, p)]]
    BY <1>5 DEF OutBefore
  <2>2. Promised(r, c, j) = [p \in Ranks |-> [final |-> 1, fold |-> Fld(N, p)]]
    BY <1>5 DEF Promised
  <2>3. \A p \in Ranks : Fld(1, p) = << <<r, p, j>> >>
    <3> TAKE p \in Ranks
    <3>1. Fld(1, p) = [x \in 1..1 |-> <<r, p, j>>]
      OBVIOUS
    <3> HIDE DEF Fld
    <3> QED
      BY <3>1, OneElement
  <2>4. ASSUME NEW i \in 1..(N - 1), NEW p \in Ranks
        PROVE  Fld(i, p) \o << <<Others(r)[i], p, j>> >> = Fld(i + 1, p)
    <3> DEFINE S == Ranks \X Ranks \X Nat
               e == <<Others(r)[i], p, j>>
    <3>1. i \in Nat /\ i >= 1 /\ i =< N - 1
      BY <1>1
    <3>2. \A x \in 2..N : Others(r)[x - 1] \in Ranks
      <4> TAKE x \in 2..N
      <4>1. x - 1 \in 1..(N - 1)
        BY <1>1
      <4> QED
        BY <4>1, OthersAre
    <3>3. \A m \in 1..N : Fld(m, p) \in [1..m -> S]
      <4> TAKE m \in 1..N
      <4>1. \A x \in 1..m : x = 1 \/ x \in 2..N
        BY <1>1
      <4>2. \A x \in 1..m : (IF x = 1 THEN <<r, p, j>> ELSE <<Others(r)[x - 1], p, j>>) \in S
        BY <3>2, <4>1
      <4> QED
        BY <4>2
    <3>4. Fld(i, p) \in [1..i -> S] /\ Fld(i + 1, p) \in [1..(i + 1) -> S] /\ e \in S
      <4>1. i \in 1..N /\ i + 1 \in 1..N
        BY <1>1, <3>1
      <4>2. e \in S
        BY OthersAre
      <4> QED
        BY <3>3, <4>1, <4>2
    <3>5. \A x \in 1..i : x \in 1..(i + 1) /\ Fld(i + 1, p)[x] = Fld(i, p)[x]
      BY <3>1
    <3>6. Fld(i + 1, p)[i + 1] = e
      <4>1. i + 1 \in 1..(i + 1) /\ i + 1 # 1 /\ (i + 1) - 1 = i
        BY <3>1
      <4> QED
        BY <4>1
    <3> HIDE DEF Fld, S, e
    <3>7. Fld(i, p) \o <<e>> = Fld(i + 1, p)
      BY <3>1, <3>4, <3>5, <3>6, OneMore
    <3> QED
      BY <3>7 DEF e
  <2>5. Data(r, j) = [p \in Ranks |-> [fold |-> << <<r, p, j>> >>, final |-> 0]]
    BY DEF Data, Input
  <2> HIDE DEF Fld
  <2>6. OutBefore(r, c, j, 1) = Prepared(r, c, j)
    BY <1>3, <2>1, <2>3, <2>5
  <2>7. \A q \in Ranks, w \in Whats : ~Sends(r, q, w, c)
    BY <1>5 DEF Sends
  <2>8. ASSUME NEW q \in Ranks, NEW w \in Whats, Sends(q, r, w, c), n = RecvAt(r, q, w, c)
        PROVE  OutBefore(r, c, j, n + 1) = NewOut(OutBefore(r, c, j, n), q, w, ValueOf(q, r, w, j))
    <3>1. w = "part" /\ q # r /\ n = Slot(r, q)
      BY <2>8 DEF Sends, RecvAt
    <3>2. n \in 1..(N - 1) /\ Others(r)[n] = q
      BY <3>1, OthersAre
    <3>3. NewOut(OutBefore(r, c, j, n), q, w, ValueOf(q, r, w, j)) = Fold(OutBefore(r, c, j, n), Data(q, j))
      BY <3>1 DEF NewOut, ValueOf
    <3>4. \A p \in Ranks : Data(q, j)[p].fold = << <<q, p, j>> >>
      BY DEF Data, Input
    <3>5. \A p \in Ranks : Fld(n, p) \o Data(q, j)[p].fold = Fld(n + 1, p)
      BY <2>4, <3>2, <3>4
    <3> DEFINE A == OutBefore(r, c, j, n)
               D == Data(q, j)
    <3>6. A = [p \in Ranks |-> [final |-> 0, fold |-> Fld(n, p)]]
      BY <1>2, <2>1
    <3>7. Fold(A, D) = [p \in Ranks |-> [A[p] EXCEPT !.fold = @ \o D[p].fold]]
      BY DEF Fold
    <3> HIDE DEF A, D
    <3>8. \A p \in Ranks : [A[p] EXCEPT !.fold = @ \o D[p].fold] = [final |-> 0, fold |-> Fld(n + 1, p)]
      <4> TAKE p \in Ranks
      <4>1. A[p] = [final |-> 0, fold |-> Fld(n, p)]
        BY <3>6
      <4>2. Fld(n, p) \o D[p].fold = Fld(n + 1, p)
        BY <3>5 DEF D
      <4> DEFINE f == Fld(n, p)
                 g == Fld(n + 1, p)
                 d == D[p].fold
      <4> HIDE DEF f, g, d
      <4>3. A[p] = [final |-> 0, fold |-> f] /\ f \o d = g
        BY <4>1, <4>2 DEF f, g, d
      <4>4. A[p].fold = f
        BY <4>3
      <4>5. [A[p] EXCEPT !.fold = A[p].fold \o d] = [final |-> 0, fold |-> g]
        BY <4>3, <4>4
      <4> QED
        BY <4>5 DEF g, d
    <3>9. Fold(A, D) = [p \in Ranks |-> [final |-> 0, fold |-> Fld(n + 1, p)]]
      BY <3>7, <3>8
    <3> QED
      BY <1>2, <2>1, <3>3, <3>9 DEF A, D
  <2>9. n = Len(Program(r, c)) + 1 => Finalize(OutBefore(r, c, j, n)) = Promised(r, c, j)
    <3> SUFFICES ASSUME n = Len(Program(r, c)) + 1
                 PROVE  Finalize(OutBefore(r, c, j, n)) = Promised(r, c, j)
      OBVIOUS
    <3>1. Program(r, c) = [i \in 1..(N - 1) |-> Recv(Others(r)[i], "part")]
      BY <1>5 DEF Program, Reduce
    <3>2. Len(Program(r, c)) = N - 1
      BY <1>1, <3>1
    <3>3. n = N
      BY <1>1, <3>2
    <3> DEFINE A == OutBefore(r, c, j, n)
    <3>4. A = [p \in Ranks |-> [final |-> 0, fold |-> Fld(N, p)]]
      BY <1>2, <2>1, <3>3
    <3>5. Finalize(A) = [p \in Ranks |-> [A[p] EXCEPT !.final = @ + 1]]
      BY DEF Finalize
    <3> HIDE DEF A
    <3>6. \A p \in Ranks : [A[p] EXCEPT !.final = @ + 1] = [final |-> 1, fold |-> Fld(N, p)]
      <4> TAKE p \in Ranks
      <4>1. A[p] = [final |-> 0, fold |-> Fld(N, p)]
        BY <3>4
      <4> DEFINE f == Fld(N, p)
      <4> HIDE DEF f
      <4>2. A[p] = [final |-> 0, fold |-> f]
        BY <4>1 DEF f
      <4>3. [A[p] EXCEPT !.final = @ + 1] = [final |-> 0 + 1, fold |-> f]
        BY <4>2
      <4> QED
        BY <4>3 DEF f
    <3>7. Finalize(A) = Promised(r, c, j)
      BY <2>2, <3>5, <3>6
    <3> QED
      BY <3>7 DEF A
  <2> QED
    BY <1>5, <2>6, <2>7, <2>8, <2>9
<1> QED
  BY <1>4, <1>5

\* A permute replaces the buffer by its source's, if it has one.
LEMMA PpermuteSteps ==
    ASSUME NEW r \in Ranks, NEW c \in Call, c.kind = "ppermute", Functional(c.perm),
           NEW j \in Nat, NEW n \in Nat \ {0}
    PROVE  /\ OutBefore(r, c, j, 1) = Prepared(r, c, j)
           /\ \A q \in Ranks, w \in Whats : Sends(r, q, w, c) /\ n = SendAt(r, q, w, c) =>
                 w # "whole" /\ OutBefore(r, c, j, n + 1) = OutBefore(r, c, j, n)
           /\ \A q \in Ranks, w \in Whats : Sends(q, r, w, c) /\ n = RecvAt(r, q, w, c) =>
                 OutBefore(r, c, j, n + 1) = NewOut(OutBefore(r, c, j, n), q, w, ValueOf(q, r, w, j))
           /\ n = Len(Program(r, c)) + 1 => OutBefore(r, c, j, n) = Promised(r, c, j)
<1> DEFINE At(p) == RecvAt(r, p, "data", c)
           From == {p \in Ranks : <<p, r>> \in c.perm}
           None == [p \in Ranks |-> Zero]
<1>1. \A m \in Nat : OutBefore(r, c, j, m) =
           IF \E p \in From : p = r \/ At(p) < m THEN Data(SourceOf(r, c.perm), j) ELSE None
  BY DEF OutBefore
<1>2. Promised(r, c, j) = IF From # {} THEN Data(SourceOf(r, c.perm), j) ELSE None
  BY DEF Promised, SourceOf
<1>3. Prepared(r, c, j) = IF <<r, r>> \in c.perm THEN Data(r, j) ELSE None
  BY DEF Prepared
<1>4. \A p, q \in From : p = q
  BY DEF Functional
<1>5. \A p \in From : p \in Ranks /\ SourceOf(r, c.perm) = p
  BY <1>4 DEF SourceOf
<1>6. "data" \in Whats /\ \A p \in From : p # r => Sends(p, r, "data", c)
  BY DEF Whats, Sends
<1>7. \A p \in From : p # r => At(p) \in Nat \ {0}
  BY <1>5, <1>6, Distinct
<1>8. <<r, r>> \in c.perm <=> r \in From
  OBVIOUS
<1>9. n \in Nat /\ n + 1 \in Nat /\ 1 \in Nat
  OBVIOUS
<1>10. \A q \in Ranks, w \in Whats : Sends(q, r, w, c) => w = "data" /\ q # r /\ q \in From
  BY DEF Sends
<1> HIDE DEF At, From, None
<1>11. OutBefore(r, c, j, 1) = Prepared(r, c, j)
  <2>1. \A p \in From : p = r \/ ~(At(p) < 1)
    BY <1>7
  <2> QED
    BY <1>1, <1>3, <1>5, <1>8, <1>9, <2>1
<1>12. ASSUME NEW q \in Ranks, NEW w \in Whats, Sends(r, q, w, c), n = SendAt(r, q, w, c)
      PROVE  w # "whole" /\ OutBefore(r, c, j, n + 1) = OutBefore(r, c, j, n)
  <2>1. w # "whole"
    BY <1>12 DEF Sends
  <2>2. \A p \in From : p # r => At(p) # n
    BY <1>5, <1>6, <1>12, Distinct DEF At
  <2>3. \A p \in From : p # r => (At(p) < n + 1 <=> At(p) < n)
    BY <1>7, <2>2
  <2> QED
    BY <1>1, <1>9, <2>1, <2>3
<1>13. ASSUME NEW q \in Ranks, NEW w \in Whats, Sends(q, r, w, c), n = RecvAt(r, q, w, c)
      PROVE  OutBefore(r, c, j, n + 1) = NewOut(OutBefore(r, c, j, n), q, w, ValueOf(q, r, w, j))
  <2>1. w = "data" /\ q # r /\ q \in From
    BY <1>10, <1>13
  <2>2. At(q) = n
    BY <1>13, <2>1 DEF At
  <2>3. At(q) < n + 1
    BY <2>2
  <2>4. OutBefore(r, c, j, n + 1) = Data(q, j)
    BY <1>1, <1>5, <1>9, <2>1, <2>3
  <2> QED
    BY <2>1, <2>4 DEF NewOut, ValueOf
<1>14. n = Len(Program(r, c)) + 1 => OutBefore(r, c, j, n) = Promised(r, c, j)
  <2> SUFFICES ASSUME n = Len(Program(r, c)) + 1
               PROVE  OutBefore(r, c, j, n) = Promised(r, c, j)
    OBVIOUS
  <2>1. Shaped(Program(r, c), r, c)
    BY ShapeOf
  <2>2. \A p \in From : p # r => At(p) \in 1..Len(Program(r, c))
    BY <1>5, <1>6, <2>1 DEF Shaped, At
  <2>3. Len(Program(r, c)) \in Nat
    BY <2>1, LenProperties DEF Shaped
  <2>4. \A p \in From : p = r \/ At(p) < n
    BY <2>2, <2>3
  <2> QED
    BY <1>1, <1>2, <1>9, <2>4
<1> QED
  BY <1>11, <1>12, <1>13, <1>14

\* A send leaves the output, a receive puts the frame in, and at the end it is as promised.
LEMMA BufferSteps ==
    ASSUME NEW r \in Ranks, NEW c \in Call, Functional(c.perm), NEW j \in Nat, NEW n \in Nat \ {0}
    PROVE  /\ OutBefore(r, c, j, 1) = Prepared(r, c, j)
           /\ \A q \in Ranks, w \in Whats : Sends(r, q, w, c) /\ n = SendAt(r, q, w, c) =>
                 /\ OutBefore(r, c, j, n + 1) = OutBefore(r, c, j, n)
                 /\ w = "whole" => OutBefore(r, c, j, n) = ValueOf(r, q, w, j)
           /\ \A q \in Ranks, w \in Whats : Sends(q, r, w, c) /\ n = RecvAt(r, q, w, c) =>
                 OutBefore(r, c, j, n + 1) = NewOut(OutBefore(r, c, j, n), q, w, ValueOf(q, r, w, j))
           /\ n = Len(Program(r, c)) + 1 =>
                 Promised(r, c, j) = IF c.kind = "reduce" /\ c.root = r
                                     THEN Finalize(OutBefore(r, c, j, n)) ELSE OutBefore(r, c, j, n)
<1>1. CASE c.kind = "all_gather"
  BY <1>1, GatherSteps
<1>2. CASE c.kind = "broadcast"
  BY <1>2, BroadcastSteps
<1>3. CASE c.kind \in {"all_to_all", "all_to_all_v"}
  BY <1>3, PairwiseSteps
<1>4. CASE c.kind = "reduce"
  BY <1>4, ReduceSteps
<1>5. CASE c.kind = "ppermute"
  BY <1>5, PpermuteSteps
<1>6. c.kind \in Kinds
  BY DEF Call
<1> QED
  BY <1>1, <1>2, <1>3, <1>4, <1>5, <1>6 DEF Kinds

\* The same for the counts of all_to_all_v, which are there before the chunks.
LEMMA CountSteps ==
    ASSUME NEW r \in Ranks, NEW c \in Call, Functional(c.perm), NEW j \in Nat, NEW n \in Nat \ {0}
    PROVE  /\ CountsBefore(r, c, 1) = [p \in Ranks |-> IF p = r THEN Counts[r][r] ELSE 0]
           /\ \A q \in Ranks, w \in Whats : Sends(r, q, w, c) /\ n = SendAt(r, q, w, c) =>
                 CountsBefore(r, c, n + 1) = CountsBefore(r, c, n)
           /\ \A q \in Ranks, w \in Whats : Sends(q, r, w, c) /\ n = RecvAt(r, q, w, c) =>
                 CountsBefore(r, c, n + 1) = NewCounts(CountsBefore(r, c, n), q, w, ValueOf(q, r, w, j))
           /\ n = Len(Program(r, c)) + 1 /\ c.kind = "all_to_all_v" =>
                 CountsBefore(r, c, n) = [p \in Ranks |-> Counts[p][r]]
           /\ \A q \in Ranks : Sends(q, r, "chunk", c) /\ c.kind = "all_to_all_v"
                               /\ n = RecvAt(r, q, "chunk", c) =>
                 CountsBefore(r, c, n)[q] = Counts[q][r]
<1> DEFINE At(q) == RecvAt(r, q, "count", c)
           V == c.kind = "all_to_all_v"
<1>1. \A m \in Nat : CountsBefore(r, c, m) =
           [q \in Ranks |-> IF q = r \/ (V /\ At(q) < m) THEN Counts[q][r] ELSE 0]
  BY DEF CountsBefore
<1>2. /\ "count" \in Whats /\ "chunk" \in Whats
      /\ \A q \in Ranks : q # r /\ V => Sends(q, r, "count", c)
      /\ \A q \in Ranks : Sends(q, r, "count", c) => V /\ q # r
  BY DEF Whats, Sends
<1>3. \A q \in Ranks : q # r /\ V => At(q) \in Nat \ {0}
  BY <1>2, Distinct
<1>4. n \in Nat /\ n + 1 \in Nat /\ 1 \in Nat
  OBVIOUS
<1> HIDE DEF At
<1>5. CountsBefore(r, c, 1) = [p \in Ranks |-> IF p = r THEN Counts[r][r] ELSE 0]
  <2>1. \A q \in Ranks : q # r /\ V => ~(At(q) < 1)
    BY <1>3
  <2> HIDE DEF V
  <2> QED
    BY <1>1, <1>4, <2>1
<1>6. ASSUME NEW q \in Ranks, NEW w \in Whats, Sends(r, q, w, c), n = SendAt(r, q, w, c)
      PROVE  CountsBefore(r, c, n + 1) = CountsBefore(r, c, n)
  <2>1. \A p \in Ranks : p # r /\ V => At(p) # n
    BY <1>2, <1>6, Distinct DEF At
  <2>2. \A p \in Ranks : p # r /\ V => (At(p) < n + 1 <=> At(p) < n)
    BY <1>3, <2>1
  <2> HIDE DEF V
  <2> QED
    BY <1>1, <1>4, <2>2
<1>7. ASSUME NEW q \in Ranks, NEW w \in Whats, Sends(q, r, w, c), n = RecvAt(r, q, w, c)
      PROVE  CountsBefore(r, c, n + 1) = NewCounts(CountsBefore(r, c, n), q, w, ValueOf(q, r, w, j))
  <2>1. \A p \in Ranks : p # r /\ V /\ At(p) = n => p = q /\ w = "count"
    BY <1>2, <1>7, Distinct DEF At
  <2>2. CASE w = "count"
    <3>1. V /\ q # r /\ At(q) = n
      BY <1>2, <1>7, <2>2 DEF At
    <3>2. \A p \in Ranks : p # r => (At(p) < n + 1 <=> At(p) < n \/ p = q)
      BY <1>3, <2>1, <3>1
    <3>3. NewCounts(CountsBefore(r, c, n), q, w, ValueOf(q, r, w, j))
            = [CountsBefore(r, c, n) EXCEPT ![q] = Counts[q][r]]
      BY <2>2 DEF NewCounts, ValueOf
    <3> DEFINE A == CountsBefore(r, c, n)
               B == CountsBefore(r, c, n + 1)
    <3> HIDE DEF V
    <3>4. /\ A = [x \in Ranks |-> IF x = r \/ (V /\ At(x) < n) THEN Counts[x][r] ELSE 0]
          /\ B = [x \in Ranks |-> IF x = r \/ (V /\ At(x) < n + 1) THEN Counts[x][r] ELSE 0]
      BY <1>1, <1>4
    <3>5. /\ A = [x \in Ranks |-> A[x]] /\ B = [x \in Ranks |-> B[x]]
          /\ \A x \in Ranks : B[x] = IF x = q THEN Counts[q][r] ELSE A[x]
      BY <3>1, <3>2, <3>4
    <3> HIDE DEF A, B
    <3>6. B = [A EXCEPT ![q] = Counts[q][r]]
      BY <3>5
    <3> QED
      BY <3>3, <3>6 DEF A, B
  <2>3. CASE w # "count"
    <3>1. \A p \in Ranks : p # r /\ V => (At(p) < n + 1 <=> At(p) < n)
      BY <1>3, <2>1, <2>3
    <3>2. CountsBefore(r, c, n + 1) = CountsBefore(r, c, n)
      <4> HIDE DEF V
      <4> QED
        BY <1>1, <1>4, <3>1
    <3> QED
      BY <2>3, <3>2 DEF NewCounts
  <2> QED
    BY <2>2, <2>3
<1>8. ASSUME n = Len(Program(r, c)) + 1, V
      PROVE  CountsBefore(r, c, n) = [p \in Ranks |-> Counts[p][r]]
  <2>1. Shaped(Program(r, c), r, c)
    BY ShapeOf
  <2>2. \A q \in Ranks : q # r => At(q) \in 1..Len(Program(r, c))
    BY <1>2, <1>8, <2>1 DEF Shaped, At
  <2>3. Len(Program(r, c)) \in Nat
    BY <2>1, LenProperties DEF Shaped
  <2>4. \A q \in Ranks : q # r => At(q) < n
    BY <1>8, <2>2, <2>3
  <2> HIDE DEF V
  <2> QED
    BY <1>1, <1>4, <1>8, <2>4
<1>9. ASSUME NEW q \in Ranks, Sends(q, r, "chunk", c), V, n = RecvAt(r, q, "chunk", c)
      PROVE  CountsBefore(r, c, n)[q] = Counts[q][r]
  <2>1. q # r
    BY <1>9 DEF Sends
  <2>2. N \in Nat /\ N > 1 /\ Ranks = 0..(N - 1)
    BY WorldSize
  <2>3. PairRecv(r, q) \in 1..(2 * (N - 1))
    BY <2>1, <2>2 DEF PairRecv, Slot
  <2>4. At(q) < n
    BY <1>9, <2>2, <2>3 DEF At, RecvAt
  <2> HIDE DEF V
  <2> QED
    BY <1>1, <1>4, <1>9, <2>4
<1> QED
  BY <1>5, <1>6, <1>7, <1>8, <1>9

-----------------------------------------------------------------------------
(* Where the ranks are.                                                    *)

\* The places of call j's frames, in the job that runs.
LEMMA PlacesOf ==
    ASSUME schedule \in Schedules, NEW p \in Ranks, NEW r \in Ranks, NEW j \in 1..Len(schedule),
           NEW w \in Whats, Sends(p, r, w, schedule[j])
    PROVE  /\ SendAt(p, r, w, schedule[j]) \in 1..Len(ProgramOf(p, j))
           /\ ProgramOf(p, j)[SendAt(p, r, w, schedule[j])] = Send(r, w)
           /\ ProgramOf(p, j)[SendAt(p, r, w, schedule[j])].op = "send"
           /\ RecvAt(r, p, w, schedule[j]) \in 1..Len(ProgramOf(r, j))
           /\ ProgramOf(r, j)[RecvAt(r, p, w, schedule[j])] = Recv(p, w)
           /\ ProgramOf(r, j)[RecvAt(r, p, w, schedule[j])].op = "recv"
           /\ Len(ProgramOf(p, j)) \in Nat /\ Len(ProgramOf(r, j)) \in Nat
           /\ SendAt(p, r, w, schedule[j]) \in Nat \ {0}
           /\ RecvAt(r, p, w, schedule[j]) \in Nat \ {0}
<1>1. Shaped(ProgramOf(p, j), p, schedule[j]) /\ Shaped(ProgramOf(r, j), r, schedule[j])
  BY CallOf DEF ProgramOf
<1>2. ProgramOf(p, j) \in Seq(Ops) /\ ProgramOf(r, j) \in Seq(Ops)
  BY <1>1 DEF Shaped
<1>3. Len(ProgramOf(p, j)) \in Nat /\ Len(ProgramOf(r, j)) \in Nat
  BY <1>2, LenProperties
<1>4. /\ SendAt(p, r, w, schedule[j]) \in 1..Len(ProgramOf(p, j))
      /\ ProgramOf(p, j)[SendAt(p, r, w, schedule[j])] = Send(r, w)
  BY <1>1 DEF Shaped
<1>5. /\ RecvAt(r, p, w, schedule[j]) \in 1..Len(ProgramOf(r, j))
      /\ ProgramOf(r, j)[RecvAt(r, p, w, schedule[j])] = Recv(p, w)
  BY <1>1 DEF Shaped
<1> QED
  BY <1>3, <1>4, <1>5, OpsAre

\* The call a rank is in.
LEMMA CurrentIs ==
    ASSUME Places, NEW r \in Ranks
    PROVE  /\ k[r] \in DOMAIN schedule => k[r] \in 1..Len(schedule)
           /\ k[r] \in 1..Len(schedule) =>
                 /\ Current(r) \in Call /\ Functional(Current(r).perm)
                 /\ Programs[Current(r)][r] = Program(r, Current(r))
                 /\ Programs[Current(r)][r] = ProgramOf(r, k[r])
                 /\ Shaped(ProgramOf(r, k[r]), r, Current(r))
                 /\ DOMAIN ProgramOf(r, k[r]) = 1..Len(ProgramOf(r, k[r]))
                 /\ Len(ProgramOf(r, k[r])) \in Nat
<1>1. schedule \in Schedules /\ schedule \in Seq(Call)
  BY CollectivesAssumption DEF Places
<1>2. DOMAIN schedule = 1..Len(schedule)
  BY <1>1
<1>3. ASSUME k[r] \in 1..Len(schedule)
      PROVE  /\ Current(r) \in Call /\ Functional(Current(r).perm)
             /\ Programs[Current(r)][r] = Program(r, Current(r))
             /\ Programs[Current(r)][r] = ProgramOf(r, k[r])
             /\ Shaped(ProgramOf(r, k[r]), r, Current(r))
  BY <1>1, <1>3, CallOf DEF Current, ProgramOf
<1>4. ASSUME k[r] \in 1..Len(schedule)
      PROVE  /\ DOMAIN ProgramOf(r, k[r]) = 1..Len(ProgramOf(r, k[r]))
             /\ Len(ProgramOf(r, k[r])) \in Nat
  <2>1. ProgramOf(r, k[r]) \in Seq(Ops)
    BY <1>3, <1>4 DEF Shaped
  <2> QED
    BY <2>1, LenProperties
<1> QED
  BY <1>2, <1>3, <1>4

\* A rank at a send, and one at a receive.
LEMMA AtSend ==
    ASSUME Places, NEW r \in Ranks, Running(r) \/ blocked[r], Op(r).op = "send"
    PROVE  /\ k[r] \in 1..Len(schedule) /\ pc[r] \in 1..Len(ProgramOf(r, k[r]))
           /\ ProgramOf(r, k[r])[pc[r]].op = "send"
           /\ \E q \in Ranks, w \in Whats :
                 /\ Op(r) = Send(q, w) /\ Op(r).peer = q /\ Op(r).what = w
                 /\ Sends(r, q, w, Current(r)) /\ pc[r] = SendAt(r, q, w, Current(r))
<1>1. k[r] \in 1..Len(schedule) /\ pc[r] \in 1..Len(ProgramOf(r, k[r]))
  <2>1. CASE Running(r)
    BY <2>1, CurrentIs DEF Running
  <2>2. CASE blocked[r]
    <3>1. pc[r] \in 1..Len(ProgramOf(r, k[r]))
      BY <2>2 DEF Places
    <3>2. pc[r] # 0
      BY <3>1
    <3> QED
      BY <3>1, <3>2 DEF Places
  <2> QED
    BY <2>1, <2>2
<1>2. Op(r) = ProgramOf(r, k[r])[pc[r]] /\ Shaped(ProgramOf(r, k[r]), r, Current(r))
  BY <1>1, CurrentIs DEF Op
<1>3. PICK q \in Ranks, w \in Whats :
         \/ Op(r) = Send(q, w) /\ Sends(r, q, w, Current(r)) /\ pc[r] = SendAt(r, q, w, Current(r))
         \/ Op(r) = Recv(q, w) /\ Sends(q, r, w, Current(r)) /\ pc[r] = RecvAt(r, q, w, Current(r))
  BY <1>1, <1>2 DEF Shaped
<1>4. Op(r) = Send(q, w) /\ Sends(r, q, w, Current(r)) /\ pc[r] = SendAt(r, q, w, Current(r))
  BY <1>3, OpsAre
<1>5. Op(r).peer = q /\ Op(r).what = w
  BY <1>4, OpsAre
<1> QED
  BY <1>1, <1>2, <1>4, <1>5

\* A rank at a receive.
LEMMA AtRecv ==
    ASSUME Places, NEW r \in Ranks, Running(r), Op(r).op = "recv"
    PROVE  /\ k[r] \in 1..Len(schedule) /\ pc[r] \in 1..Len(ProgramOf(r, k[r]))
           /\ ProgramOf(r, k[r])[pc[r]].op = "recv" /\ ~blocked[r]
           /\ \E q \in Ranks, w \in Whats :
                 /\ Op(r) = Recv(q, w) /\ Op(r).peer = q /\ Op(r).what = w
                 /\ Sends(q, r, w, Current(r)) /\ pc[r] = RecvAt(r, q, w, Current(r))
<1>1. k[r] \in 1..Len(schedule) /\ pc[r] \in 1..Len(ProgramOf(r, k[r]))
  BY CurrentIs DEF Running
<1>2. Op(r) = ProgramOf(r, k[r])[pc[r]] /\ Shaped(ProgramOf(r, k[r]), r, Current(r))
  BY <1>1, CurrentIs DEF Op
<1>3. PICK q \in Ranks, w \in Whats :
         \/ Op(r) = Send(q, w) /\ Sends(r, q, w, Current(r)) /\ pc[r] = SendAt(r, q, w, Current(r))
         \/ Op(r) = Recv(q, w) /\ Sends(q, r, w, Current(r)) /\ pc[r] = RecvAt(r, q, w, Current(r))
  BY <1>1, <1>2 DEF Shaped
<1>4. Op(r) = Recv(q, w) /\ Sends(q, r, w, Current(r)) /\ pc[r] = RecvAt(r, q, w, Current(r))
  BY <1>3, OpsAre
<1>5. Op(r).peer = q /\ Op(r).what = w
  BY <1>4, OpsAre
<1>6. ~blocked[r]
  BY <1>2 DEF Places
<1> QED
  BY <1>1, <1>2, <1>4, <1>5, <1>6

-----------------------------------------------------------------------------
(* Receiving and sending.                                                  *)

\* The fields of a frame.
LEMMA FrameFields ==
    ASSUME NEW p, NEW r, NEW w, NEW j, NEW c
    PROVE  /\ FrameOf(p, r, w, j, c).tag = c.kind /\ FrameOf(p, r, w, j, c).call = j
           /\ FrameOf(p, r, w, j, c).what = w /\ FrameOf(p, r, w, j, c).len = LenOf(p, r, w, c)
           /\ FrameOf(p, r, w, j, c).val = ValueOf(p, r, w, j)
BY DEF FrameOf

\* The first frame of the tag is the one of this call and of this operation: those of
\* later calls, and of later operations, were sent after it.
LEMMA FirstIsNext ==
    ASSUME Places, Queues, NEW r \in Ranks, NEW q \in Ranks, NEW w \in Whats,
           k[r] \in 1..Len(schedule), Sends(q, r, w, Current(r)), pc[r] = RecvAt(r, q, w, Current(r)),
           Op(r).peer = q, Matching(r) # 0
    PROVE  /\ Matching(r) \in 1..Len(net[q][r])
           /\ net[q][r][Matching(r)] = FrameOf(q, r, w, k[r], Current(r))
<1> DEFINE i == Matching(r)
           s == net[q][r]
           c == Current(r)
<1>1. s \in Seq(Frames) /\ OnlyPending(q, r) /\ AllPending(q, r) /\ InSendOrder(q, r)
  BY DEF Queues
<1>2. /\ i \in 1..Len(s) /\ s[i].tag = c.kind
      /\ \A x \in 1..Len(s) : s[x].tag = c.kind => i =< x
  BY <1>1, MatchingIs
<1>3. PICK j \in 1..Len(schedule), v \in Whats :
         /\ s[i] = FrameOf(q, r, v, j, schedule[j]) /\ Sends(q, r, v, schedule[j])
         /\ SentFor(q, r, v, j) /\ ~TakenFor(q, r, v, j)
  BY <1>1, <1>2 DEF OnlyPending
<1>4. c = schedule[k[r]] /\ schedule \in Schedules /\ c \in Call
  BY CurrentIs DEF Current, Places
<1>5. /\ k[q] \in Nat /\ pc[q] \in Nat /\ k[r] \in Nat /\ pc[r] \in Nat /\ j \in Nat
      /\ blocked[q] \in BOOLEAN /\ Len(schedule) \in Nat
  <2>1. schedule \in Seq(Call)
    BY <1>4, CollectivesAssumption
  <2>2. Len(schedule) \in Nat
    BY <2>1, LenProperties
  <2> QED
    BY <2>2 DEF Places
<1>6. /\ SendAt(q, r, v, schedule[j]) \in Nat \ {0} /\ RecvAt(r, q, v, schedule[j]) \in Nat \ {0}
      /\ SendAt(q, r, w, c) \in Nat \ {0}
  BY <1>3, <1>4, PlacesOf
<1>7. ~TakenFor(q, r, w, k[r])
  BY <1>4, <1>5 DEF TakenFor, Taken, Past
<1>8. ASSUME SentFor(q, r, w, k[r])
      PROVE  \E x \in 1..Len(s) : s[x].call = k[r] /\ s[x].what = w /\ i =< x
  <2>1. PICK x \in 1..Len(s) : s[x].call = k[r] /\ s[x].what = w
    BY <1>1, <1>4, <1>7, <1>8 DEF AllPending
  <2>2. s[x].tag = schedule[s[x].call].kind
    BY <1>1, FrameFields DEF OnlyPending
  <2> QED
    BY <1>2, <1>4, <2>1, <2>2
<1>9. ASSUME NEW x \in 1..Len(s), s[x].call = k[r], s[x].what = w, i =< x, ~(j = k[r] /\ v = w)
      PROVE  Past(k[r], SendAt(q, r, w, c), j, SendAt(q, r, v, schedule[j]))
  <2>1. s[i].call = j /\ s[i].what = v
    BY <1>3, FrameFields
  <2>2. i # x
    BY <1>9, <2>1
  <2>3. i < x
    <3>1. i \in Int /\ x \in Int
      BY <1>2
    <3> HIDE DEF i
    <3> QED
      BY <1>9, <2>2, <3>1
  <2>4. Past(s[x].call, SendAt(q, r, s[x].what, schedule[s[x].call]),
             s[i].call, SendAt(q, r, s[i].what, schedule[s[i].call]))
    <3> HIDE DEF i, s
    <3> QED
      BY <1>1, <1>2, <2>3 DEF InSendOrder, s
  <2> QED
    BY <1>4, <1>9, <2>1, <2>4
<1>10. ~(j < k[r])
  BY <1>3, <1>5 DEF TakenFor, Taken, Past
<1> HIDE DEF i, s, c
<1>11. CASE j > k[r]
  <2>1. SentFor(q, r, w, k[r])
    BY <1>3, <1>5, <1>11 DEF SentFor, Handed, Past
  <2>2. PICK x \in 1..Len(s) : s[x].call = k[r] /\ s[x].what = w /\ i =< x
    BY <1>8, <2>1
  <2>3. Past(k[r], SendAt(q, r, w, c), j, SendAt(q, r, v, schedule[j]))
    BY <1>5, <1>9, <1>11, <2>2
  <2> QED
    BY <1>5, <1>11, <2>3 DEF Past
<1>12. CASE j = k[r]
  <2>1. CASE v = w
    BY <1>2, <1>3, <1>4, <1>12, <2>1 DEF i, s, c
  <2>2. CASE v # w
    <3>1. ~(pc[r] > RecvAt(r, q, v, c))
      BY <1>3, <1>4, <1>5, <1>12 DEF TakenFor, Taken, Past
    <3>2. Sends(q, r, v, c) /\ Sends(q, r, w, c) /\ RecvAt(r, q, v, c) \in Nat
      BY <1>3, <1>4, <1>6, <1>12 DEF c
    <3>3. RecvAt(r, q, v, c) # RecvAt(r, q, w, c)
      BY <1>4, <2>2, <3>2, InOrder
    <3>4. RecvAt(r, q, w, c) < RecvAt(r, q, v, c)
      BY <1>5, <3>1, <3>2, <3>3 DEF c
    <3>5. SendAt(q, r, w, c) < SendAt(q, r, v, c)
      BY <1>4, <2>2, <3>2, <3>4, InOrder
    <3>6. SendAt(q, r, v, c) \in Nat
      BY <1>4, <1>6, <1>12
    <3>7. SentFor(q, r, w, k[r])
      BY <1>3, <1>4, <1>5, <1>6, <1>12, <3>5, <3>6 DEF SentFor, Handed, Past
    <3>8. PICK x \in 1..Len(s) : s[x].call = k[r] /\ s[x].what = w /\ i =< x
      BY <1>8, <3>7
    <3>9. Past(k[r], SendAt(q, r, w, c), j, SendAt(q, r, v, schedule[j]))
      BY <1>9, <2>2, <3>8
    <3> QED
      BY <1>4, <1>5, <1>6, <1>12, <3>5, <3>6, <3>9 DEF Past
  <2> QED
    BY <2>1, <2>2
<1> QED
  BY <1>5, <1>10, <1>11, <1>12

\* Its length is the one the receiver asks for.
LEMMA LenExpected ==
    ASSUME Places, Buffers, NEW r \in Ranks, NEW q \in Ranks, NEW w \in Whats,
           k[r] \in 1..Len(schedule), Sends(q, r, w, Current(r)), pc[r] = RecvAt(r, q, w, Current(r)),
           pc[r] # 0
    PROVE  LenOf(q, r, w, Current(r)) \in Expected(r, Recv(q, w))
<1> DEFINE c == Current(r)
<1>1. c \in Call /\ Functional(c.perm) /\ c = schedule[k[r]]
  BY CurrentIs DEF Current
<1>2. counts[r] = CountsBefore(r, c, pc[r]) /\ pc[r] \in Nat \ {0} /\ k[r] \in Nat
  BY <1>1 DEF Buffers, Places
<1>3. Recv(q, w).what = w /\ Recv(q, w).peer = q
  BY OpsAre
<1>4. CASE w = "chunk"
  <2>1. c.kind = "all_to_all_v" => counts[r][q] = Counts[q][r]
    BY <1>1, <1>2, <1>4, CountSteps
  <2>2. LenOf(q, r, w, c) = IF c.kind = "all_to_all_v" THEN Counts[q][r] ELSE 1
    BY <1>4 DEF LenOf
  <2>3. Expected(r, Recv(q, w)) = {IF c.kind = "all_to_all_v" THEN counts[r][q] ELSE 1}
    BY <1>3, <1>4 DEF Expected
  <2> QED
    BY <2>1, <2>2, <2>3
<1>5. CASE w = "local"
  BY <1>3, <1>5 DEF LenOf, Expected
<1>6. CASE w = "count"
  BY <1>3, <1>6 DEF LenOf, Expected
<1>7. CASE w \in {"whole", "data", "part"}
  <2>1. LenOf(q, r, w, c) = N
    BY <1>7 DEF LenOf
  <2>2. N \in Nat
    BY WorldSize
  <2>3. Expected(r, Recv(q, w)) = Nat \/ Expected(r, Recv(q, w)) = {N}
    BY <1>3, <1>7 DEF Expected
  <2> QED
    BY <2>1, <2>2, <2>3
<1> QED
  BY <1>4, <1>5, <1>6, <1>7 DEF Whats

\* What a receive does.
LEMMA RecvIs ==
    ASSUME Places, Buffers, Queues, NEW r \in Ranks, RecvFrame(r)
    PROVE  \E q \in Ranks, w \in Whats, i \in Nat :
             /\ k[r] \in 1..Len(schedule) /\ pc[r] \in 1..Len(ProgramOf(r, k[r]))
             /\ ProgramOf(r, k[r])[pc[r]].op = "recv" /\ ~blocked[r]
             /\ Sends(q, r, w, Current(r)) /\ pc[r] = RecvAt(r, q, w, Current(r))
             /\ i \in 1..Len(net[q][r]) /\ net[q][r][i] = FrameOf(q, r, w, k[r], Current(r))
             /\ net' = [net EXCEPT ![q] = [net[q] EXCEPT ![r] = RemoveAt(net[q][r], i)]]
             /\ pc' = [pc EXCEPT ![r] = pc[r] + 1]
             /\ out' = [out EXCEPT ![r] = NewOut(out[r], q, w, ValueOf(q, r, w, k[r]))]
             /\ counts' = [counts EXCEPT ![r] = NewCounts(counts[r], q, w, ValueOf(q, r, w, k[r]))]
             /\ UNCHANGED <<k, blocked, failed, results>>
<1>1. Running(r) /\ Op(r).op = "recv" /\ Matching(r) # 0
  BY DEF RecvFrame
<1>2. /\ k[r] \in 1..Len(schedule) /\ pc[r] \in 1..Len(ProgramOf(r, k[r]))
      /\ ProgramOf(r, k[r])[pc[r]].op = "recv" /\ ~blocked[r]
  BY <1>1, AtRecv
<1>3. PICK q \in Ranks, w \in Whats :
         /\ Op(r) = Recv(q, w) /\ Op(r).peer = q /\ Op(r).what = w
         /\ Sends(q, r, w, Current(r)) /\ pc[r] = RecvAt(r, q, w, Current(r))
  BY <1>1, AtRecv
<1> DEFINE i == Matching(r)
           f == net[q][r][i]
           val == ValueOf(q, r, w, k[r])
<1>4. i \in 1..Len(net[q][r]) /\ f = FrameOf(q, r, w, k[r], Current(r))
  BY <1>1, <1>2, <1>3, FirstIsNext
<1>5. f.len = LenOf(q, r, w, Current(r)) /\ f.val = val
  BY <1>4, FrameFields
<1>6. pc[r] # 0
  BY <1>2
<1>7. f.len \in Expected(r, Op(r))
  BY <1>2, <1>3, <1>5, <1>6, LenExpected
<1>8. /\ net' = [net EXCEPT ![q][r] = RemoveAt(@, i)]
      /\ pc' = [pc EXCEPT ![r] = @ + 1]
      /\ out' = [out EXCEPT ![r] = Received(r, Op(r), f.val)]
      /\ counts' = IF w = "count" THEN [counts EXCEPT ![r][q] = f.val] ELSE counts
      /\ UNCHANGED <<k, blocked, failed, results>>
  BY <1>3, <1>7 DEF RecvFrame, Advance
<1>9. Received(r, Op(r), f.val) = NewOut(out[r], q, w, val)
  BY <1>3, <1>5 DEF Received, NewOut
<1>10. counts' = [counts EXCEPT ![r] = NewCounts(counts[r], q, w, val)]
  <2>1. CASE w = "count"
    BY <1>5, <1>8, <2>1 DEF NewCounts, Buffers
  <2>2. CASE w # "count"
    <3>1. counts' = counts /\ NewCounts(counts[r], q, w, val) = counts[r]
      BY <1>8, <2>2 DEF NewCounts
    <3>2. counts = [x \in Ranks |-> counts[x]]
      BY DEF Buffers
    <3>3. counts = [counts EXCEPT ![r] = counts[r]]
      BY <3>2
    <3> QED
      BY <3>1, <3>3
  <2> QED
    BY <2>1, <2>2
<1>11. i \in Nat
  BY <1>4
<1> HIDE DEF i, f, val
<1>12. net' = [net EXCEPT ![q] = [net[q] EXCEPT ![r] = RemoveAt(net[q][r], i)]]
  BY <1>8 DEF Queues
<1>13. out' = [out EXCEPT ![r] = NewOut(out[r], q, w, val)]
  BY <1>8, <1>9
<1>14. pc' = [pc EXCEPT ![r] = pc[r] + 1]
  BY <1>8 DEF Places
<1> QED
  BY <1>2, <1>3, <1>4, <1>8, <1>10, <1>11, <1>12, <1>13, <1>14 DEF f, val

\* What a send does.
LEMMA SendIs ==
    ASSUME Places, Buffers, Queues, NEW r \in Ranks, SendFrame(r)
    PROVE  \E q \in Ranks, w \in Whats :
             /\ k[r] \in 1..Len(schedule) /\ pc[r] \in 1..Len(ProgramOf(r, k[r]))
             /\ ProgramOf(r, k[r])[pc[r]].op = "send" /\ ~blocked[r]
             /\ Sends(r, q, w, Current(r)) /\ pc[r] = SendAt(r, q, w, Current(r))
             /\ net' = [net EXCEPT ![r] =
                          [net[r] EXCEPT ![q] = Append(net[r][q], FrameOf(r, q, w, k[r], Current(r)))]]
             /\ blocked' = [blocked EXCEPT ![r] = TRUE]
             /\ UNCHANGED <<k, pc, failed, out, counts, results>>
<1>1. Running(r) /\ Op(r).op = "send" /\ ~blocked[r]
  BY DEF SendFrame
<1>2. /\ k[r] \in 1..Len(schedule) /\ pc[r] \in 1..Len(ProgramOf(r, k[r]))
      /\ ProgramOf(r, k[r])[pc[r]].op = "send"
  BY <1>1, AtSend
<1>3. PICK q \in Ranks, w \in Whats :
         /\ Op(r) = Send(q, w) /\ Op(r).peer = q /\ Op(r).what = w
         /\ Sends(r, q, w, Current(r)) /\ pc[r] = SendAt(r, q, w, Current(r))
  BY <1>1, AtSend
<1> DEFINE f == [tag |-> Current(r).kind, call |-> k[r], what |-> w,
                 len |-> SentLen(r, q, w), val |-> Payload(r, q, w)]
<1>4. /\ net' = [net EXCEPT ![r][q] = Append(@, f)]
      /\ blocked' = [blocked EXCEPT ![r] = TRUE]
      /\ UNCHANGED <<k, pc, failed, out, counts, results>>
  BY <1>3 DEF SendFrame
<1>5. SentLen(r, q, w) = LenOf(r, q, w, Current(r))
  BY DEF SentLen, LenOf
<1>6. Payload(r, q, w) = ValueOf(r, q, w, k[r])
  <2>1. CASE w = "whole"
    <3>1. Payload(r, q, w) = out[r]
      BY <2>1 DEF Payload
    <3>2. pc[r] # 0 /\ pc[r] \in Nat \ {0} /\ k[r] \in Nat
      BY <1>2 DEF Places
    <3>3. out[r] = OutBefore(r, Current(r), k[r], pc[r])
      BY <3>2 DEF Buffers, Current
    <3>4. Current(r) \in Call /\ Functional(Current(r).perm)
      BY <1>2, CurrentIs
    <3> QED
      BY <1>3, <2>1, <3>1, <3>2, <3>3, <3>4, BufferSteps
  <2>2. CASE w # "whole"
    BY <2>2 DEF Payload, ValueOf, Whats
  <2> QED
    BY <2>1, <2>2
<1>7. f = FrameOf(r, q, w, k[r], Current(r))
  BY <1>5, <1>6 DEF FrameOf
<1> HIDE DEF f
<1>8. net' = [net EXCEPT ![r] = [net[r] EXCEPT ![q] = Append(net[r][q], f)]]
  BY <1>4 DEF Queues
<1> QED
  BY <1>1, <1>2, <1>3, <1>4, <1>7, <1>8

-----------------------------------------------------------------------------
(* The invariant.                                                          *)

\* Nothing is under way at first.
LEMMA CallsStart == CallsInit => CallsInv
<1> SUFFICES ASSUME CallsInit
             PROVE  CallsInv
  OBVIOUS
<1> USE DEF CallsInit
<1>1. schedule \in Schedules /\ schedule \in Seq(Call) /\ schedule # << >>
  BY CollectivesAssumption
<1>2. Len(schedule) \in Nat /\ Len(schedule) > 0
  BY <1>1, EmptySeq, LenProperties
<1>3. Places
  BY <1>1, <1>2 DEF Places
<1>4. Buffers
  BY DEF Buffers
<1>5. Queues
  <2>1. net \in [Ranks -> [Ranks -> Seq(Frames)]]
    OBVIOUS
  <2>2. \A p, r \in Ranks : Len(net[p][r]) = 0
    OBVIOUS
  <2>3. ASSUME NEW p \in Ranks, NEW r \in Ranks, NEW j \in 1..Len(schedule), NEW w \in Whats,
               Sends(p, r, w, schedule[j])
        PROVE  ~SentFor(p, r, w, j) /\ ~TakenFor(p, r, w, j)
    <3>1. /\ SendAt(p, r, w, schedule[j]) \in Nat \ {0} /\ RecvAt(r, p, w, schedule[j]) \in Nat \ {0}
      BY <1>1, <2>3, PlacesOf
    <3> QED
      BY <1>2, <3>1 DEF SentFor, Handed, TakenFor, Taken, Past
  <2>4. \A p, r \in Ranks : OnlyPending(p, r) /\ InSendOrder(p, r)
    BY <2>2 DEF OnlyPending, InSendOrder
  <2>5. \A p, r \in Ranks : AllPending(p, r) /\ TakenAfterSent(p, r)
    BY <2>3 DEF AllPending, TakenAfterSent
  <2> QED
    BY <2>1, <2>4, <2>5 DEF Queues
<1>6. Returned
  BY DEF Returned
<1> QED
  BY <1>3, <1>4, <1>5, <1>6 DEF CallsInv

\* A step that sends and takes nothing leaves what is under way as it is.
LEMMA QueuesKept ==
    ASSUME Queues, net' = net, schedule' = schedule,
           \A p, r \in Ranks, j \in 1..Len(schedule), w \in Whats : Sends(p, r, w, schedule[j]) =>
               /\ SentFor(p, r, w, j)' <=> SentFor(p, r, w, j)
               /\ TakenFor(p, r, w, j)' <=> TakenFor(p, r, w, j)
    PROVE  Queues'
<1>1. ASSUME NEW p \in Ranks, NEW r \in Ranks
      PROVE  (OnlyPending(p, r) /\ AllPending(p, r) /\ InSendOrder(p, r) /\ TakenAfterSent(p, r))'
  <2>1. OnlyPending(p, r) /\ AllPending(p, r) /\ InSendOrder(p, r) /\ TakenAfterSent(p, r)
    BY DEF Queues
  <2>2. \A j \in 1..Len(schedule), w \in Whats : Sends(p, r, w, schedule[j]) =>
               /\ SentFor(p, r, w, j)' <=> SentFor(p, r, w, j)
               /\ TakenFor(p, r, w, j)' <=> TakenFor(p, r, w, j)
    OBVIOUS
  <2>3. OnlyPending(p, r)'
    BY <2>1, <2>2 DEF OnlyPending
  <2>4. AllPending(p, r)'
    BY <2>1, <2>2 DEF AllPending
  <2>5. InSendOrder(p, r)'
    BY <2>1 DEF InSendOrder
  <2>6. TakenAfterSent(p, r)'
    BY <2>1, <2>2 DEF TakenAfterSent
  <2> QED
    BY <2>3, <2>4, <2>5, <2>6
<1>2. (net \in [Ranks -> [Ranks -> Seq(Frames)]])'
  BY DEF Queues
<1> QED
  BY <1>1, <1>2 DEF Queues

\* Entering a call prepares its buffers.
LEMMA CallNextKeeps ==
    ASSUME CallsInv, NEW r \in Ranks, CallNext(r), UNCHANGED <<schedule, capacity>>
    PROVE  CallsInv'
<1> USE DEF CallsInv
<1>1. /\ k[r] \in 1..Len(schedule) /\ pc[r] = 0
      /\ pc' = [pc EXCEPT ![r] = 1]
      /\ out' = [out EXCEPT ![r] = Prepared(r, Current(r), k[r])]
      /\ counts' = [counts EXCEPT ![r] = [p \in Ranks |-> IF p = r THEN Counts[r][r] ELSE 0]]
      /\ UNCHANGED <<k, blocked, failed, net, results, schedule>>
  BY CurrentIs DEF CallNext
<1>2. ~blocked[r]
  BY <1>1 DEF Places
<1>3. Len(ProgramOf(r, k[r])) \in Nat /\ Current(r) \in Call /\ Functional(Current(r).perm)
  BY <1>1, CurrentIs
<1>4. Places'
  <2>1. \A p \in Ranks : pc'[p] = IF p = r THEN 1 ELSE pc[p]
    BY <1>1 DEF Places
  <2>2. \A p \in Ranks : ProgramOf(p, k[p])' = ProgramOf(p, k[p])
    BY <1>1 DEF ProgramOf
  <2>3. (pc \in [Ranks -> Nat])'
    BY <1>1 DEF Places
  <2>4. ASSUME NEW p \in Ranks
        PROVE  /\ pc'[p] # 0 => k[p] \in 1..Len(schedule) /\ pc'[p] =< Len(ProgramOf(p, k[p])) + 1
               /\ blocked[p] => /\ pc'[p] \in 1..Len(ProgramOf(p, k[p]))
                                /\ ProgramOf(p, k[p])[pc'[p]].op = "send"
    <3>1. CASE p = r
      BY <1>1, <1>2, <1>3, <2>1, <3>1
    <3>2. CASE p # r
      BY <2>1, <3>2 DEF Places
    <3> QED
      BY <3>1, <3>2
  <2> QED
    BY <1>1, <2>2, <2>3, <2>4 DEF Places
<1>5. Queues'
  <2>1. ASSUME NEW p \in Ranks, NEW q \in Ranks, NEW j \in 1..Len(schedule), NEW w \in Whats,
               Sends(p, q, w, schedule[j])
        PROVE  /\ SentFor(p, q, w, j)' <=> SentFor(p, q, w, j)
               /\ TakenFor(p, q, w, j)' <=> TakenFor(p, q, w, j)
    <3>a. schedule \in Schedules
      BY DEF Places
    <3>0. PICK a \in Nat \ {0}, b \in Nat \ {0} :
             a = SendAt(p, q, w, schedule[j]) /\ b = RecvAt(q, p, w, schedule[j])
      BY <2>1, <3>a, PlacesOf
    <3>2. /\ SentFor(p, q, w, j) <=> Handed(p, j, a)
          /\ SentFor(p, q, w, j)' <=> Handed(p, j, a)'
          /\ TakenFor(p, q, w, j) <=> Taken(q, j, b)
          /\ TakenFor(p, q, w, j)' <=> Taken(q, j, b)'
      BY <1>1, <3>0 DEF SentFor, TakenFor
    <3>3. k'[p] = k[p] /\ k'[q] = k[q] /\ blocked'[p] = blocked[p] /\ pc'[r] = 1
      BY <1>1 DEF Places
    <3>4. \A x \in Ranks : pc[x] \in Nat /\ k[x] \in Nat /\ (x # r => pc'[x] = pc[x])
      BY <1>1 DEF Places
    <3>5. Handed(p, j, a)' <=> Handed(p, j, a)
      <4>1. CASE p = r
        BY <1>1, <1>2, <3>3, <4>1 DEF Handed, Past
      <4>2. CASE p # r
        BY <3>3, <3>4, <4>2 DEF Handed, Past
      <4> QED
        BY <4>1, <4>2
    <3>6. Taken(q, j, b)' <=> Taken(q, j, b)
      <4>1. CASE q = r
        BY <1>1, <3>3, <4>1 DEF Taken, Past
      <4>2. CASE q # r
        BY <3>3, <3>4, <4>2 DEF Taken, Past
      <4> QED
        BY <4>1, <4>2
    <3> QED
      BY <3>2, <3>5, <3>6
  <2> QED
    BY <1>1, <2>1, QueuesKept
<1>6. Buffers'
  <2>1. OutBefore(r, Current(r), k[r], 1) = Prepared(r, Current(r), k[r])
    BY <1>1, <1>3, BufferSteps
  <2>2. CountsBefore(r, Current(r), 1) = [p \in Ranks |-> IF p = r THEN Counts[r][r] ELSE 0]
    BY <1>1, <1>3, CountSteps
  <2>3. (out = [p \in Ranks |-> out[p]])' /\ (counts = [p \in Ranks |-> counts[p]])'
    BY <1>1 DEF Buffers
  <2>4. ASSUME NEW p \in Ranks, pc'[p] # 0
        PROVE  /\ out'[p] = OutBefore(p, schedule[k[p]], k[p], pc'[p])
               /\ counts'[p] = CountsBefore(p, schedule[k[p]], pc'[p])
    <3>1. CASE p = r
      <4>1. pc'[r] = 1
        BY <1>1 DEF Places
      <4>2. /\ out'[r] = Prepared(r, Current(r), k[r])
            /\ counts'[r] = [q \in Ranks |-> IF q = r THEN Counts[r][r] ELSE 0]
        BY <1>1 DEF Buffers
      <4> QED
        BY <2>1, <2>2, <3>1, <4>1, <4>2 DEF Current
    <3>2. CASE p # r
      <4>1. pc'[p] = pc[p] /\ out'[p] = out[p] /\ counts'[p] = counts[p]
        BY <1>1, <3>2 DEF Buffers, Places
      <4> QED
        BY <2>4, <4>1 DEF Buffers
    <3> QED
      BY <3>1, <3>2
  <2> QED
    BY <1>1, <2>3, <2>4 DEF Buffers
<1>7. Returned'
  BY <1>1 DEF Returned
<1> QED
  BY <1>4, <1>5, <1>6, <1>7

\* A send that returns has handed its frame over already.
LEMMA SendReturnsKeeps ==
    ASSUME CallsInv, NEW r \in Ranks, SendReturns(r), UNCHANGED <<schedule, capacity>>
    PROVE  CallsInv'
<1> USE DEF CallsInv
<1>1. /\ blocked[r] /\ blocked' = [blocked EXCEPT ![r] = FALSE]
      /\ pc' = [pc EXCEPT ![r] = pc[r] + 1]
      /\ UNCHANGED <<k, failed, out, counts, net, results, schedule>>
  BY DEF SendReturns, Advance, Places
<1>2. k[r] \in 1..Len(schedule) /\ pc[r] \in 1..Len(ProgramOf(r, k[r]))
  <2>1. pc[r] \in 1..Len(ProgramOf(r, k[r]))
    BY <1>1 DEF Places
  <2>2. pc[r] # 0
    BY <2>1
  <2> QED
    BY <2>1, <2>2 DEF Places
<1>3. /\ Len(ProgramOf(r, k[r])) \in Nat /\ Current(r) \in Call /\ Functional(Current(r).perm)
      /\ Programs[Current(r)][r] = ProgramOf(r, k[r])
  BY <1>2, CurrentIs
<1>4. Op(r).op = "send" /\ ProgramOf(r, k[r])[pc[r]].op = "send"
  BY <1>1, <1>3 DEF Places, Op
<1>5. PICK q \in Ranks, w \in Whats :
         Sends(r, q, w, Current(r)) /\ pc[r] = SendAt(r, q, w, Current(r))
  BY <1>1, <1>4, AtSend
<1>6. /\ pc'[r] = pc[r] + 1 /\ ~blocked'[r] /\ k' = k
      /\ \A p \in Ranks : /\ pc[p] \in Nat /\ k[p] \in Nat
                          /\ p # r => pc'[p] = pc[p] /\ blocked'[p] = blocked[p]
  BY <1>1 DEF Places
<1>7. Places'
  <2>1. \A p \in Ranks : ProgramOf(p, k[p])' = ProgramOf(p, k[p])
    BY <1>1 DEF ProgramOf
  <2>2. (pc \in [Ranks -> Nat])' /\ (blocked \in [Ranks -> BOOLEAN])'
    BY <1>1, <1>6 DEF Places
  <2>3. ASSUME NEW p \in Ranks
        PROVE  /\ pc'[p] # 0 => k[p] \in 1..Len(schedule) /\ pc'[p] =< Len(ProgramOf(p, k[p])) + 1
               /\ blocked'[p] => /\ pc'[p] \in 1..Len(ProgramOf(p, k[p]))
                                 /\ ProgramOf(p, k[p])[pc'[p]].op = "send"
    <3>1. CASE p = r
      BY <1>2, <1>3, <1>6, <3>1
    <3>2. CASE p # r
      BY <1>6, <3>2 DEF Places
    <3> QED
      BY <3>1, <3>2
  <2> QED
    BY <1>1, <2>1, <2>2, <2>3 DEF Places
<1>8. Queues'
  <2>1. ASSUME NEW p \in Ranks, NEW x \in Ranks, NEW j \in 1..Len(schedule), NEW v \in Whats,
               Sends(p, x, v, schedule[j])
        PROVE  /\ SentFor(p, x, v, j)' <=> SentFor(p, x, v, j)
               /\ TakenFor(p, x, v, j)' <=> TakenFor(p, x, v, j)
    <3>a. schedule \in Schedules
      BY DEF Places
    <3>0. PICK a \in Nat \ {0}, b \in Nat \ {0} :
             a = SendAt(p, x, v, schedule[j]) /\ b = RecvAt(x, p, v, schedule[j])
      BY <2>1, <3>a, PlacesOf
    <3>1. ProgramOf(x, j)[b].op = "recv"
      BY <2>1, <3>0, <3>a, PlacesOf
    <3>2. /\ SentFor(p, x, v, j) <=> Handed(p, j, a)
          /\ SentFor(p, x, v, j)' <=> Handed(p, j, a)'
          /\ TakenFor(p, x, v, j) <=> Taken(x, j, b)
          /\ TakenFor(p, x, v, j)' <=> Taken(x, j, b)'
      BY <1>1, <3>0 DEF SentFor, TakenFor
    <3>3. Handed(p, j, a)' <=> Handed(p, j, a)
      <4>1. CASE p = r
        <5>0. blocked[r]
          BY <1>1
        <5>1. /\ blocked[r] /\ ~blocked'[r] /\ pc[r] \in Nat /\ pc'[r] = pc[r] + 1
              /\ k[r] \in Nat /\ k'[r] = k[r] /\ j \in Int
          BY <1>6, <5>0
        <5>2. Handed(r, j, a) <=> k[r] > j \/ (k[r] = j /\ pc[r] >= a)
          BY <5>1 DEF Handed, Past
        <5>3. Handed(r, j, a)' <=> k[r] > j \/ (k[r] = j /\ pc[r] + 1 > a)
          BY <5>1 DEF Handed, Past
        <5> QED
          BY <4>1, <5>1, <5>2, <5>3
      <4>2. CASE p # r
        BY <1>6, <4>2 DEF Handed, Past
      <4> QED
        BY <4>1, <4>2
    <3>4. x = r /\ j = k[r] => b # pc[r]
      BY <1>4, <3>1
    <3>5. Taken(x, j, b)' <=> Taken(x, j, b)
      <4>1. CASE x = r
        BY <1>6, <3>1, <3>4, <4>1 DEF Taken, Past
      <4>2. CASE x # r
        BY <1>6, <4>2 DEF Taken, Past
      <4> QED
        BY <4>1, <4>2
    <3> QED
      BY <3>2, <3>3, <3>5
  <2> QED
    BY <1>1, <2>1, QueuesKept
<1>9. Buffers'
  <2>1. pc[r] \in Nat \ {0} /\ k[r] \in Nat
    BY <1>2, <1>6
  <2>2. OutBefore(r, Current(r), k[r], pc[r] + 1) = OutBefore(r, Current(r), k[r], pc[r])
    BY <1>3, <1>5, <2>1, BufferSteps
  <2>3. CountsBefore(r, Current(r), pc[r] + 1) = CountsBefore(r, Current(r), pc[r])
    BY <1>3, <1>5, <2>1, CountSteps
  <2>4. ASSUME NEW p \in Ranks, pc'[p] # 0
        PROVE  /\ out[p] = OutBefore(p, schedule[k[p]], k[p], pc'[p])
               /\ counts[p] = CountsBefore(p, schedule[k[p]], pc'[p])
    <3>1. CASE p = r
      BY <1>6, <2>1, <2>2, <2>3, <3>1 DEF Buffers, Current
    <3>2. CASE p # r
      BY <1>6, <2>4, <3>2 DEF Buffers
    <3> QED
      BY <3>1, <3>2
  <2> QED
    BY <1>1, <2>4 DEF Buffers
<1>10. Returned'
  BY <1>1 DEF Returned
<1> QED
  BY <1>7, <1>8, <1>9, <1>10

\* A call returns what its last operation left.
LEMMA ReturnKeeps ==
    ASSUME CallsInv, NEW r \in Ranks, Return(r), UNCHANGED <<schedule, capacity>>
    PROVE  CallsInv'
<1> USE DEF CallsInv
<1>1. k[r] \in 1..Len(schedule)
  BY CurrentIs DEF Return
<1>2. /\ Len(ProgramOf(r, k[r])) \in Nat /\ Current(r) \in Call /\ Functional(Current(r).perm)
      /\ Programs[Current(r)][r] = ProgramOf(r, k[r])
      /\ Programs[Current(r)][r] = Program(r, Current(r))
  BY <1>1, CurrentIs
<1>3. /\ pc[r] = Len(ProgramOf(r, k[r])) + 1
      /\ results' = [results EXCEPT ![r] = Append(results[r], [out |-> Outcome(r), counts |-> counts[r]])]
      /\ k' = [k EXCEPT ![r] = k[r] + 1] /\ pc' = [pc EXCEPT ![r] = 0]
      /\ UNCHANGED <<blocked, failed, out, counts, net, schedule>>
  BY <1>2 DEF Return, Places, Returned
<1>4. ~blocked[r]
  <2>1. ASSUME blocked[r]
        PROVE  pc[r] \in 1..Len(ProgramOf(r, k[r]))
    BY <2>1 DEF Places
  <2>2. PICK n \in Nat : n = Len(ProgramOf(r, k[r]))
    BY <1>2
  <2>3. pc[r] = n + 1
    BY <1>3, <2>2
  <2>4. ~(n + 1 \in 1..n)
    OBVIOUS
  <2> QED
    BY <2>1, <2>2, <2>3, <2>4
<1>5. /\ k'[r] = k[r] + 1 /\ pc'[r] = 0
      /\ \A p \in Ranks : /\ pc[p] \in Nat /\ k[p] \in Nat
                          /\ p # r => pc'[p] = pc[p] /\ k'[p] = k[p]
  BY <1>3 DEF Places
<1>6. Len(schedule) \in Nat /\ schedule \in Seq(Call)
  <2>1. schedule \in Seq(Call)
    BY CollectivesAssumption DEF Places
  <2> QED
    BY <2>1, LenProperties
<1>7. Places'
  <2>1. (pc \in [Ranks -> Nat])' /\ (k \in [Ranks -> Nat])'
    BY <1>3, <1>5 DEF Places
  <2>2. ASSUME NEW p \in Ranks
        PROVE  /\ k'[p] \in 1..(Len(schedule) + 1)
               /\ pc'[p] # 0 => k'[p] \in 1..Len(schedule) /\ pc'[p] =< Len(ProgramOf(p, k[p])') + 1
               /\ blocked[p] => /\ pc'[p] \in 1..Len(ProgramOf(p, k[p])')
                                /\ (ProgramOf(p, k[p])')[pc'[p]].op = "send"
    <3>1. CASE p = r
      BY <1>1, <1>4, <1>5, <1>6, <3>1
    <3>2. CASE p # r
      <4>1. ProgramOf(p, k[p])' = ProgramOf(p, k[p])
        BY <1>3, <1>5, <3>2 DEF ProgramOf
      <4> QED
        BY <1>5, <3>2, <4>1 DEF Places
    <3> QED
      BY <3>1, <3>2
  <2> QED
    BY <1>3, <2>1, <2>2 DEF Places
<1>8. Queues'
  <2>1. ASSUME NEW p \in Ranks, NEW x \in Ranks, NEW j \in 1..Len(schedule), NEW v \in Whats,
               Sends(p, x, v, schedule[j])
        PROVE  /\ SentFor(p, x, v, j)' <=> SentFor(p, x, v, j)
               /\ TakenFor(p, x, v, j)' <=> TakenFor(p, x, v, j)
    <3>0. schedule \in Schedules
      BY DEF Places
    <3>1. PICK a \in Nat \ {0}, b \in Nat \ {0} :
             a = SendAt(p, x, v, schedule[j]) /\ b = RecvAt(x, p, v, schedule[j])
      BY <2>1, <3>0, PlacesOf
    <3>2. a =< Len(ProgramOf(p, j)) /\ b =< Len(ProgramOf(x, j))
      BY <2>1, <3>0, <3>1, PlacesOf
    <3>3. /\ SentFor(p, x, v, j) <=> Handed(p, j, a)
          /\ SentFor(p, x, v, j)' <=> Handed(p, j, a)'
          /\ TakenFor(p, x, v, j) <=> Taken(x, j, b)
          /\ TakenFor(p, x, v, j)' <=> Taken(x, j, b)'
      BY <1>3, <3>1 DEF SentFor, TakenFor
    <3>4. j \in Int /\ blocked'[p] = blocked[p]
      BY <1>3, <1>6
    <3>5. Handed(p, j, a)' <=> Handed(p, j, a)
      <4>1. CASE p = r
        <5>1. j = k[r] => pc[r] > a
          BY <1>2, <1>3, <3>2, <4>1
        <5>2. Handed(r, j, a) <=> k[r] >= j
          BY <1>4, <1>5, <3>4, <5>1 DEF Handed, Past
        <5>3. Handed(r, j, a)' <=> k[r] + 1 > j
          BY <1>4, <1>5, <3>4, <4>1 DEF Handed, Past
        <5> QED
          BY <1>5, <3>4, <4>1, <5>2, <5>3
      <4>2. CASE p # r
        BY <1>5, <3>4, <4>2 DEF Handed, Past
      <4> QED
        BY <4>1, <4>2
    <3>6. Taken(x, j, b)' <=> Taken(x, j, b)
      <4>1. CASE x = r
        <5>1. j = k[r] => pc[r] > b
          BY <1>2, <1>3, <3>2, <4>1
        <5>2. Taken(r, j, b) <=> k[r] >= j
          BY <1>5, <3>4, <5>1 DEF Taken, Past
        <5>3. Taken(r, j, b)' <=> k[r] + 1 > j
          BY <1>5, <3>4 DEF Taken, Past
        <5> QED
          BY <1>5, <3>4, <4>1, <5>2, <5>3
      <4>2. CASE x # r
        BY <1>5, <4>2 DEF Taken, Past
      <4> QED
        BY <4>1, <4>2
    <3> QED
      BY <3>3, <3>5, <3>6
  <2> QED
    BY <1>3, <2>1, QueuesKept
<1>9. Buffers'
  <2>1. ASSUME NEW p \in Ranks, pc'[p] # 0
        PROVE  /\ out[p] = OutBefore(p, schedule[k'[p]], k'[p], pc'[p])
               /\ counts[p] = CountsBefore(p, schedule[k'[p]], pc'[p])
    <3>1. p # r
      BY <1>5, <2>1
    <3> QED
      BY <1>5, <2>1, <3>1 DEF Buffers
  <2> QED
    BY <1>3, <2>1 DEF Buffers
<1>10. Returned'
  <2> DEFINE e == [out |-> Outcome(r), counts |-> counts[r]]
             c == Current(r)
             n == pc[r]
  <2>1. n \in Nat \ {0} /\ k[r] \in Nat /\ n = Len(Program(r, c)) + 1
    <3>1. Program(r, c) = ProgramOf(r, k[r])
      BY <1>2
    <3>2. n = Len(ProgramOf(r, k[r])) + 1
      BY <1>3
    <3>3. n \in Nat \ {0} /\ k[r] \in Nat
      BY <1>2, <1>5, <3>2
    <3> HIDE DEF n, c
    <3> QED
      BY <3>1, <3>2, <3>3
  <2>2. out[r] = OutBefore(r, c, k[r], n) /\ counts[r] = CountsBefore(r, c, n) /\ c = schedule[k[r]]
    BY <2>1 DEF Buffers, Current
  <2>3. Outcome(r) = Promised(r, c, k[r])
    <3>1. Promised(r, c, k[r]) = IF c.kind = "reduce" /\ c.root = r
                                 THEN Finalize(OutBefore(r, c, k[r], n)) ELSE OutBefore(r, c, k[r], n)
      BY <1>2, <2>1, BufferSteps
    <3> QED
      BY <2>2, <3>1 DEF Outcome
  <2>4. c.kind = "all_to_all_v" => counts[r] = [p \in Ranks |-> Counts[p][r]]
    BY <1>2, <2>1, <2>2, CountSteps
  <2>5. e \in Results /\ e.out = Promised(r, c, k[r]) /\ e.counts = counts[r]
    <3>1. [out |-> Promised(r, c, k[r]), counts |-> CountsBefore(r, c, n)] \in Results
      BY <1>2, <2>1 DEF Results
    <3> QED
      BY <2>2, <2>3, <3>1
  <2> HIDE DEF e, c, n
  <2>6. results' = [results EXCEPT ![r] = Append(@, e)]
    BY <1>3 DEF e
  <2>7. results \in [Ranks -> Seq(Results)]
    BY DEF Returned
  <2>8. /\ results' \in [Ranks -> Seq(Results)]
        /\ Len(Append(results[r], e)) = Len(results[r]) + 1
        /\ \A i \in 1..Len(results[r]) : Append(results[r], e)[i] = results[r][i]
        /\ Append(results[r], e)[Len(results[r]) + 1] = e
    BY <2>5, <2>6, <2>7, QueueAppend
  <2>9. results'[r] = Append(results[r], e) /\ \A p \in Ranks : p # r => results'[p] = results[p]
    BY <2>6, <2>7
  <2>10. Len(results[r]) = k[r] - 1 /\ Len(results[r]) + 1 = k[r]
    BY <1>5 DEF Returned
  <2>11. ASSUME NEW p \in Ranks
         PROVE  /\ Len(results'[p]) = k'[p] - 1
                /\ \A i \in 1..Len(results'[p]) :
                      /\ results'[p][i].out = Promised(p, schedule[i], i)
                      /\ schedule[i].kind = "all_to_all_v" =>
                            results'[p][i].counts = [q \in Ranks |-> Counts[q][p]]
    <3>1. CASE p # r
      <4>1. results'[p] = results[p] /\ k'[p] = k[p]
        BY <1>5, <2>9, <3>1
      <4>2. /\ Len(results[p]) = k[p] - 1
            /\ \A i \in 1..Len(results[p]) :
                      /\ results[p][i].out = Promised(p, schedule[i], i)
                      /\ schedule[i].kind = "all_to_all_v" =>
                            results[p][i].counts = [q \in Ranks |-> Counts[q][p]]
        BY DEF Returned
      <4> QED
        BY <4>1, <4>2
    <3>2. CASE p = r
      <4>1. Len(results'[r]) = k[r] /\ k'[r] - 1 = k[r]
        BY <1>5, <2>8, <2>9, <2>10
      <4>2. ASSUME NEW i \in 1..k[r]
            PROVE  /\ results'[r][i].out = Promised(r, schedule[i], i)
                   /\ schedule[i].kind = "all_to_all_v" =>
                            results'[r][i].counts = [q \in Ranks |-> Counts[q][r]]
        <5>1. CASE i = k[r]
          <6>1. results'[r][i] = e
            BY <2>8, <2>9, <2>10, <5>1
          <6> QED
            BY <2>2, <2>4, <2>5, <5>1, <6>1
        <5>2. CASE i # k[r]
          <6>1. i \in 1..Len(results[r])
            BY <1>5, <2>10, <5>2
          <6>2. results'[r][i] = results[r][i]
            BY <2>8, <2>9, <6>1
          <6> QED
            BY <6>1, <6>2 DEF Returned
        <5> QED
          BY <5>1, <5>2
      <4> QED
        BY <3>2, <4>1, <4>2
    <3> QED
      BY <3>1, <3>2
  <2>12. (results \in [Ranks -> Seq(Results)])' /\ schedule' = schedule
    BY <1>3, <2>8
  <2> QED
    BY <2>11, <2>12 DEF Returned
<1> QED
  BY <1>7, <1>8, <1>9, <1>10

\* A send puts its frame behind all those sent before.
LEMMA SendKeeps ==
    ASSUME CallsInv, NEW r \in Ranks, SendFrame(r), UNCHANGED <<schedule, capacity>>
    PROVE  CallsInv'
<1> USE DEF CallsInv
<1>1. PICK q \in Ranks, w \in Whats :
             /\ k[r] \in 1..Len(schedule) /\ pc[r] \in 1..Len(ProgramOf(r, k[r]))
             /\ ProgramOf(r, k[r])[pc[r]].op = "send" /\ ~blocked[r]
             /\ Sends(r, q, w, Current(r)) /\ pc[r] = SendAt(r, q, w, Current(r))
             /\ net' = [net EXCEPT ![r] =
                          [net[r] EXCEPT ![q] = Append(net[r][q], FrameOf(r, q, w, k[r], Current(r)))]]
             /\ blocked' = [blocked EXCEPT ![r] = TRUE]
             /\ UNCHANGED <<k, pc, failed, out, counts, results>>
  BY SendIs
<1>2. schedule' = schedule /\ schedule \in Schedules /\ Len(schedule) \in Nat
  <2>1. schedule \in Schedules /\ schedule \in Seq(Call)
    BY CollectivesAssumption DEF Places
  <2> QED
    BY <2>1, LenProperties
<1>3. Places'
  <2>1. \A p \in Ranks : ProgramOf(p, k[p])' = ProgramOf(p, k[p])
    BY <1>1, <1>2 DEF ProgramOf
  <2>2. (blocked \in [Ranks -> BOOLEAN])'
    BY <1>1 DEF Places
  <2>3. \A p \in Ranks : p # r => blocked'[p] = blocked[p]
    BY <1>1 DEF Places
  <2>4. ASSUME NEW p \in Ranks, blocked'[p]
        PROVE  pc[p] \in 1..Len(ProgramOf(p, k[p])) /\ ProgramOf(p, k[p])[pc[p]].op = "send"
    <3>1. CASE p = r
      BY <1>1, <3>1
    <3>2. CASE p # r
      BY <2>3, <2>4, <3>2 DEF Places
    <3> QED
      BY <3>1, <3>2
  <2> QED
    BY <1>1, <1>2, <2>1, <2>2, <2>4 DEF Places
<1>4. Buffers'
  BY <1>1, <1>2 DEF Buffers
<1>5. Returned'
  BY <1>1, <1>2 DEF Returned
<1> DEFINE f == FrameOf(r, q, w, k[r], Current(r))
           s == net[r][q]
<1>6. f \in Frames /\ f.call = k[r] /\ f.what = w /\ f = FrameOf(r, q, w, k[r], schedule[k[r]])
  <2>1. Current(r) \in Call /\ k[r] \in Nat
    BY <1>1, CurrentIs DEF Places
  <2>2. f \in Frames
    BY <2>1 DEF Frames
  <2> QED
    BY <2>2, FrameFields DEF Current
<1>7. net \in [Ranks -> [Ranks -> Seq(Frames)]] /\ s \in Seq(Frames)
  BY DEF Queues
<1> HIDE DEF f
<1>8. /\ Append(s, f) \in Seq(Frames) /\ Len(Append(s, f)) = Len(s) + 1
      /\ \A i \in 1..Len(s) : Append(s, f)[i] = s[i]
      /\ Append(s, f)[Len(s) + 1] = f /\ Len(s) \in Nat
  BY <1>6, <1>7, AppendProperties, LenProperties
<1>9. /\ net' \in [Ranks -> [Ranks -> Seq(Frames)]] /\ net'[r][q] = Append(s, f)
      /\ \A p, x \in Ranks : ~(p = r /\ x = q) => net'[p][x] = net[p][x]
  <2>1. net' = [net EXCEPT ![r] = [net[r] EXCEPT ![q] = Append(s, f)]]
    BY <1>1 DEF f
  <2>2. [net[r] EXCEPT ![q] = Append(s, f)] \in [Ranks -> Seq(Frames)]
    BY <1>7, <1>8
  <2> HIDE DEF s
  <2> QED
    BY <1>7, <2>1, <2>2
<1>10. ASSUME NEW p \in Ranks, NEW x \in Ranks, NEW j \in 1..Len(schedule), NEW v \in Whats,
               Sends(p, x, v, schedule[j])
       PROVE  /\ SentFor(p, x, v, j)' <=>
                    SentFor(p, x, v, j) \/ (p = r /\ x = q /\ v = w /\ j = k[r])
              /\ TakenFor(p, x, v, j)' <=> TakenFor(p, x, v, j)
  <2>1. PICK a \in Nat \ {0} :
           /\ a = SendAt(p, x, v, schedule[j]) /\ ProgramOf(p, j)[a] = Send(x, v)
    BY <1>2, <1>10, PlacesOf
  <2>2. /\ SentFor(p, x, v, j) <=> Handed(p, j, a)
        /\ SentFor(p, x, v, j)' <=> Handed(p, j, a)'
    BY <1>2, <2>1 DEF SentFor
  <2>3. TakenFor(p, x, v, j)' <=> TakenFor(p, x, v, j)
    BY <1>1, <1>2 DEF TakenFor, Taken
  <2>4. ProgramOf(r, k[r])[pc[r]] = Send(q, w)
    BY <1>1, <1>2, PlacesOf DEF Current
  <2>5. p = r /\ j = k[r] => (a = pc[r] <=> x = q /\ v = w)
    <3>1. ASSUME p = r, j = k[r], a = pc[r]
          PROVE  x = q /\ v = w
      <4>1. Send(x, v) = Send(q, w)
        BY <2>1, <2>4, <3>1
      <4> QED
        BY <4>1, OpsAre
    <3>2. ASSUME p = r, j = k[r], x = q, v = w
          PROVE  a = pc[r]
      BY <1>1, <2>1, <3>2 DEF Current
    <3> QED
      BY <3>1, <3>2
  <2>6. Handed(p, j, a)' <=> Handed(p, j, a) \/ (p = r /\ j = k[r] /\ a = pc[r])
    <3>1. k' = k /\ pc' = pc /\ blocked'[r] /\ (p # r => blocked'[p] = blocked[p])
      BY <1>1 DEF Places
    <3>2. CASE p = r
      BY <3>1, <3>2 DEF Handed
    <3>3. CASE p # r
      BY <3>1, <3>3 DEF Handed
    <3> QED
      BY <3>2, <3>3
  <2> QED
    BY <2>2, <2>3, <2>5, <2>6
<1>11. ASSUME NEW p \in Ranks, NEW x \in Ranks, ~(p = r /\ x = q)
       PROVE  (OnlyPending(p, x) /\ AllPending(p, x) /\ InSendOrder(p, x) /\ TakenAfterSent(p, x))'
  <2>1. OnlyPending(p, x) /\ AllPending(p, x) /\ InSendOrder(p, x) /\ TakenAfterSent(p, x)
    BY DEF Queues
  <2>2. \A j \in 1..Len(schedule), v \in Whats : Sends(p, x, v, schedule[j]) =>
               /\ SentFor(p, x, v, j)' <=> SentFor(p, x, v, j)
               /\ TakenFor(p, x, v, j)' <=> TakenFor(p, x, v, j)
    BY <1>10, <1>11
  <2>3. net'[p][x] = net[p][x]
    BY <1>9, <1>11
  <2>4. OnlyPending(p, x)'
    BY <1>2, <2>1, <2>2, <2>3 DEF OnlyPending
  <2>5. AllPending(p, x)'
    BY <1>2, <2>1, <2>2, <2>3 DEF AllPending
  <2>6. InSendOrder(p, x)'
    BY <1>2, <2>1, <2>3 DEF InSendOrder
  <2>7. TakenAfterSent(p, x)'
    BY <1>2, <2>1, <2>2 DEF TakenAfterSent
  <2> QED
    BY <2>4, <2>5, <2>6, <2>7
<1>12. OnlyPending(r, q) /\ AllPending(r, q) /\ InSendOrder(r, q) /\ TakenAfterSent(r, q)
  BY DEF Queues
<1>13. Sends(r, q, w, schedule[k[r]]) /\ pc[r] = SendAt(r, q, w, schedule[k[r]])
  BY <1>1 DEF Current
<1>14. ~TakenFor(r, q, w, k[r])
  <2>1. k[r] \in Nat /\ pc[r] \in Nat
    BY DEF Places
  <2>2. ~SentFor(r, q, w, k[r])
    BY <1>1, <1>13, <2>1 DEF SentFor, Handed, Past
  <2> QED
    BY <1>1, <1>12, <1>13, <2>2 DEF TakenAfterSent
<1> DEFINE t == Append(s, f)
<1>15. net'[r][q] = t /\ Len(t) = Len(s) + 1
  BY <1>8, <1>9
<1>16. \A i \in 1..Len(t) : (i \in 1..Len(s) /\ t[i] = s[i]) \/ (i = Len(s) + 1 /\ t[i] = f)
  BY <1>8
<1> HIDE DEF t
<1>17. OnlyPending(r, q)'
  <2> SUFFICES ASSUME NEW i \in 1..Len(t)
               PROVE  \E j \in 1..Len(schedule), v \in Whats :
                         /\ t[i] = FrameOf(r, q, v, j, schedule[j])
                         /\ Sends(r, q, v, schedule[j])
                         /\ SentFor(r, q, v, j)' /\ ~(TakenFor(r, q, v, j)')
    BY <1>2, <1>15 DEF OnlyPending
  <2>1. CASE i \in 1..Len(s) /\ t[i] = s[i]
    <3>1. PICK j \in 1..Len(schedule), v \in Whats :
             /\ s[i] = FrameOf(r, q, v, j, schedule[j]) /\ Sends(r, q, v, schedule[j])
             /\ SentFor(r, q, v, j) /\ ~TakenFor(r, q, v, j)
      BY <1>12, <2>1 DEF OnlyPending
    <3>2. SentFor(r, q, v, j)' /\ ~(TakenFor(r, q, v, j)')
      BY <1>10, <3>1
    <3> QED
      BY <2>1, <3>1, <3>2
  <2>2. CASE t[i] = f
    <3>1. SentFor(r, q, w, k[r])' /\ ~(TakenFor(r, q, w, k[r])')
      <4>1. PICK j \in 1..Len(schedule) : j = k[r]
        BY <1>1
      <4>2. SentFor(r, q, w, j)' /\ ~(TakenFor(r, q, w, j)')
        BY <1>10, <1>13, <1>14, <4>1
      <4> QED
        BY <1>1, <4>1, <4>2
    <3>2. PICK j \in 1..Len(schedule) : j = k[r]
      BY <1>1
    <3>3. SentFor(r, q, w, j)' /\ ~(TakenFor(r, q, w, j)')
      BY <1>10, <1>13, <1>14, <3>2
    <3> QED
      BY <1>6, <1>13, <2>2, <3>2, <3>3
  <2> QED
    BY <1>16, <2>1, <2>2
<1>18. AllPending(r, q)'
  <2> SUFFICES ASSUME NEW j \in 1..Len(schedule), NEW v \in Whats, Sends(r, q, v, schedule[j]),
                      SentFor(r, q, v, j)', ~(TakenFor(r, q, v, j)')
               PROVE  \E i \in 1..Len(t) : t[i].call = j /\ t[i].what = v
    BY <1>2, <1>15 DEF AllPending
  <2>1. ~TakenFor(r, q, v, j) /\ (SentFor(r, q, v, j) \/ (v = w /\ j = k[r]))
    BY <1>10
  <2>2. CASE SentFor(r, q, v, j)
    <3>1. PICK i \in 1..Len(s) : s[i].call = j /\ s[i].what = v
      BY <1>12, <2>1, <2>2 DEF AllPending
    <3>2. i \in 1..Len(t) /\ t[i] = s[i]
      BY <1>8 DEF t
    <3> QED
      BY <3>1, <3>2
  <2>3. CASE v = w /\ j = k[r]
    <3>1. Len(s) + 1 \in 1..Len(t) /\ t[Len(s) + 1] = f
      BY <1>8 DEF t
    <3> QED
      BY <1>6, <2>3, <3>1
  <2> QED
    BY <2>1, <2>2, <2>3
<1>19. InSendOrder(r, q)'
  <2> SUFFICES ASSUME NEW i \in 1..Len(t), NEW i2 \in 1..Len(t), i < i2
               PROVE  Past(t[i2].call, SendAt(r, q, t[i2].what, schedule[t[i2].call]),
                           t[i].call, SendAt(r, q, t[i].what, schedule[t[i].call]))
    BY <1>2, <1>15 DEF InSendOrder
  <2>1. i \in 1..Len(s) /\ t[i] = s[i]
    BY <1>8, <1>15, <1>16
  <2>2. CASE i2 \in 1..Len(s) /\ t[i2] = s[i2]
    BY <1>12, <2>1, <2>2 DEF InSendOrder
  <2>3. CASE t[i2] = f
    <3>1. PICK j \in 1..Len(schedule), v \in Whats :
             /\ s[i] = FrameOf(r, q, v, j, schedule[j])
             /\ SentFor(r, q, v, j)
      BY <1>12, <2>1 DEF OnlyPending
    <3>2. Past(k[r], pc[r], j, SendAt(r, q, v, schedule[j]))
      BY <1>1, <3>1 DEF SentFor, Handed
    <3>3. t[i].call = j /\ t[i].what = v
      BY <2>1, <3>1, FrameFields
    <3> QED
      BY <1>6, <1>13, <2>3, <3>2, <3>3
  <2> QED
    BY <1>16, <2>2, <2>3
<1>20. TakenAfterSent(r, q)'
  BY <1>2, <1>10, <1>12 DEF TakenAfterSent
<1>21. Queues'
  BY <1>9, <1>11, <1>17, <1>18, <1>19, <1>20 DEF Queues
<1> QED
  BY <1>3, <1>4, <1>5, <1>21

\* A receive takes the only frame of its call and operation; those around it stay in order.
LEMMA RecvKeeps ==
    ASSUME CallsInv, NEW r \in Ranks, RecvFrame(r), UNCHANGED <<schedule, capacity>>
    PROVE  CallsInv'
<1> USE DEF CallsInv
<1>1. PICK q \in Ranks, w \in Whats, i \in Nat :
             /\ k[r] \in 1..Len(schedule) /\ pc[r] \in 1..Len(ProgramOf(r, k[r]))
             /\ ProgramOf(r, k[r])[pc[r]].op = "recv" /\ ~blocked[r]
             /\ Sends(q, r, w, Current(r)) /\ pc[r] = RecvAt(r, q, w, Current(r))
             /\ i \in 1..Len(net[q][r]) /\ net[q][r][i] = FrameOf(q, r, w, k[r], Current(r))
             /\ net' = [net EXCEPT ![q] = [net[q] EXCEPT ![r] = RemoveAt(net[q][r], i)]]
             /\ pc' = [pc EXCEPT ![r] = pc[r] + 1]
             /\ out' = [out EXCEPT ![r] = NewOut(out[r], q, w, ValueOf(q, r, w, k[r]))]
             /\ counts' = [counts EXCEPT ![r] = NewCounts(counts[r], q, w, ValueOf(q, r, w, k[r]))]
             /\ UNCHANGED <<k, blocked, failed, results>>
  BY RecvIs
<1>2. schedule' = schedule /\ schedule \in Schedules /\ Len(schedule) \in Nat
  <2>1. schedule \in Schedules /\ schedule \in Seq(Call)
    BY CollectivesAssumption DEF Places
  <2> QED
    BY <2>1, LenProperties
<1>3. Len(ProgramOf(r, k[r])) \in Nat /\ Current(r) \in Call /\ Functional(Current(r).perm)
  BY <1>1, CurrentIs
<1>4. /\ pc'[r] = pc[r] + 1 /\ k' = k /\ pc[r] # 0
      /\ \A p \in Ranks : /\ pc[p] \in Nat /\ k[p] \in Nat /\ blocked'[p] = blocked[p]
                          /\ p # r => pc'[p] = pc[p]
  BY <1>1 DEF Places
<1>5. Places'
  <2>1. \A p \in Ranks : ProgramOf(p, k[p])' = ProgramOf(p, k[p])
    BY <1>1, <1>2 DEF ProgramOf
  <2>2. (pc \in [Ranks -> Nat])'
    BY <1>1, <1>4 DEF Places
  <2>3. ASSUME NEW p \in Ranks
        PROVE  pc'[p] # 0 => k[p] \in 1..Len(schedule) /\ pc'[p] =< Len(ProgramOf(p, k[p])) + 1
    <3>1. CASE p = r
      BY <1>1, <1>3, <1>4, <3>1
    <3>2. CASE p # r
      BY <1>4, <3>2 DEF Places
    <3> QED
      BY <3>1, <3>2
  <2>4. ASSUME NEW p \in Ranks, blocked[p]
        PROVE  pc'[p] \in 1..Len(ProgramOf(p, k[p])) /\ ProgramOf(p, k[p])[pc'[p]].op = "send"
    <3>1. p # r
      BY <1>1, <2>4
    <3> QED
      BY <1>4, <2>4, <3>1 DEF Places
  <2> QED
    BY <1>1, <1>2, <2>1, <2>2, <2>3, <2>4 DEF Places
<1>6. Buffers'
  <2> DEFINE c == Current(r)
             val == ValueOf(q, r, w, k[r])
  <2>1. pc[r] \in Nat \ {0} /\ k[r] \in Nat /\ c = schedule[k[r]]
    BY <1>4 DEF Current
  <2>2. OutBefore(r, c, k[r], pc[r] + 1) = NewOut(OutBefore(r, c, k[r], pc[r]), q, w, val)
    BY <1>1, <1>3, <2>1, BufferSteps
  <2>3. CountsBefore(r, c, pc[r] + 1) = NewCounts(CountsBefore(r, c, pc[r]), q, w, val)
    BY <1>1, <1>3, <2>1, CountSteps
  <2>4. out[r] = OutBefore(r, c, k[r], pc[r]) /\ counts[r] = CountsBefore(r, c, pc[r])
    BY <1>4 DEF Buffers, Current
  <2>5. /\ out' = [out EXCEPT ![r] = NewOut(out[r], q, w, val)]
        /\ counts' = [counts EXCEPT ![r] = NewCounts(counts[r], q, w, val)]
    BY <1>1
  <2> HIDE DEF c, val
  <2>6. (out = [p \in Ranks |-> out[p]])' /\ (counts = [p \in Ranks |-> counts[p]])'
    BY <2>5 DEF Buffers
  <2>7. out'[r] = NewOut(out[r], q, w, val) /\ counts'[r] = NewCounts(counts[r], q, w, val)
    BY <2>5 DEF Buffers
  <2>8. \A p \in Ranks : p # r => out'[p] = out[p] /\ counts'[p] = counts[p]
    BY <2>5 DEF Buffers
  <2>9. ASSUME NEW p \in Ranks, pc'[p] # 0
        PROVE  /\ out'[p] = OutBefore(p, schedule[k[p]], k[p], pc'[p])
               /\ counts'[p] = CountsBefore(p, schedule[k[p]], pc'[p])
    <3>1. CASE p = r
      BY <1>4, <2>1, <2>2, <2>3, <2>4, <2>7, <3>1
    <3>2. CASE p # r
      BY <1>4, <2>8, <2>9, <3>2 DEF Buffers
    <3> QED
      BY <3>1, <3>2
  <2> QED
    BY <1>2, <1>4, <2>6, <2>9 DEF Buffers
<1>7. Returned'
  BY <1>1, <1>2 DEF Returned
<1> DEFINE s == net[q][r]
           t == RemoveAt(s, i)
           Old(y) == IF y < i THEN y ELSE y + 1
<1>8. net \in [Ranks -> [Ranks -> Seq(Frames)]] /\ s \in Seq(Frames) /\ Len(s) \in Nat
  BY LenProperties DEF Queues
<1>9. t \in Seq(Frames) /\ Len(t) = Len(s) - 1
  BY <1>1, <1>8, RemoveAtIs
<1>10. \A y \in 1..Len(t) : Old(y) \in 1..Len(s) /\ Old(y) # i /\ t[y] = s[Old(y)]
  <2>1. \A y \in 1..(Len(s) - 1) : t[y] = IF y < i THEN s[y] ELSE s[y + 1]
    BY <1>1, <1>8, RemoveAtIs
  <2>2. i \in 1..Len(s)
    BY <1>1
  <2> HIDE DEF s, t
  <2> TAKE y \in 1..Len(t)
  <2>3. y \in Nat /\ y >= 1 /\ y =< Len(s) - 1 /\ i =< Len(s) /\ y \in 1..(Len(s) - 1)
    BY <1>8, <1>9, <2>2
  <2>4. CASE y < i
    BY <1>8, <2>1, <2>3, <2>4
  <2>5. CASE ~(y < i)
    BY <1>8, <2>1, <2>3, <2>5
  <2> QED
    BY <2>4, <2>5
<1>11. \A y, z \in 1..Len(t) : y < z => Old(y) < Old(z)
  <2> HIDE DEF s, t
  <2> QED
    BY <1>8, <1>9
<1>12. \A x \in 1..Len(s) : x # i => \E y \in 1..Len(t) : Old(y) = x
  <2> SUFFICES ASSUME NEW x \in 1..Len(s), x # i
               PROVE  \E y \in 1..Len(t) : Old(y) = x
    OBVIOUS
  <2>1. i \in 1..Len(s)
    BY <1>1
  <2> HIDE DEF s, t
  <2>2. CASE x < i
    <3>1. x \in 1..Len(t)
      BY <1>8, <1>9, <2>1, <2>2
    <3> QED
      BY <2>2, <3>1
  <2>3. CASE x > i
    <3>1. x - 1 \in 1..Len(t) /\ ~(x - 1 < i) /\ x - 1 + 1 = x
      BY <1>8, <1>9, <2>1, <2>3
    <3> QED
      BY <3>1
  <2> QED
    BY <1>8, <2>2, <2>3
<1> HIDE DEF Old
<1>13. /\ net' \in [Ranks -> [Ranks -> Seq(Frames)]] /\ net'[q][r] = t
       /\ \A p, x \in Ranks : ~(p = q /\ x = r) => net'[p][x] = net[p][x]
  <2>1. net' = [net EXCEPT ![q] = [net[q] EXCEPT ![r] = t]]
    BY <1>1
  <2> HIDE DEF t
  <2>2. [net[q] EXCEPT ![r] = t] \in [Ranks -> Seq(Frames)]
    BY <1>8, <1>9
  <2> HIDE DEF s
  <2> QED
    BY <1>8, <2>1, <2>2
<1> HIDE DEF t
<1>14. ASSUME NEW p \in Ranks, NEW x \in Ranks, NEW j \in 1..Len(schedule), NEW v \in Whats,
               Sends(p, x, v, schedule[j])
       PROVE  /\ SentFor(p, x, v, j)' <=> SentFor(p, x, v, j)
              /\ TakenFor(p, x, v, j)' <=>
                    TakenFor(p, x, v, j) \/ (p = q /\ x = r /\ v = w /\ j = k[r])
  <2>1. PICK a \in Nat \ {0}, b \in Nat \ {0} :
           /\ a = SendAt(p, x, v, schedule[j]) /\ ProgramOf(p, j)[a].op = "send"
           /\ b = RecvAt(x, p, v, schedule[j]) /\ ProgramOf(x, j)[b] = Recv(p, v)
    BY <1>2, <1>14, PlacesOf
  <2>2. /\ SentFor(p, x, v, j) <=> Handed(p, j, a)
        /\ SentFor(p, x, v, j)' <=> Handed(p, j, a)'
        /\ TakenFor(p, x, v, j) <=> Taken(x, j, b)
        /\ TakenFor(p, x, v, j)' <=> Taken(x, j, b)'
    BY <1>2, <2>1 DEF SentFor, TakenFor
  <2>3. j \in Int /\ pc[p] \in Nat /\ pc[x] \in Nat /\ k[p] \in Nat /\ k[x] \in Nat
    BY <1>2, <1>4
  <2>4. Handed(p, j, a)' <=> Handed(p, j, a)
    <3>1. CASE p = r
      <4>1. j = k[r] => a # pc[r]
        BY <1>1, <2>1, <3>1
      <4>2. ~blocked[r] /\ ~blocked'[r]
        BY <1>1, <1>4
      <4>3. Handed(r, j, a) <=> k[r] > j \/ (k[r] = j /\ pc[r] > a)
        BY <4>2 DEF Handed, Past
      <4>4. Handed(r, j, a)' <=> k[r] > j \/ (k[r] = j /\ pc[r] + 1 > a)
        BY <1>4, <4>2 DEF Handed, Past
      <4> QED
        BY <2>1, <2>3, <3>1, <4>1, <4>3, <4>4
    <3>2. CASE p # r
      BY <1>4, <3>2 DEF Handed, Past
    <3> QED
      BY <3>1, <3>2
  <2>5. ProgramOf(r, k[r])[pc[r]] = Recv(q, w)
    <3>1. Sends(q, r, w, schedule[k[r]]) /\ pc[r] = RecvAt(r, q, w, schedule[k[r]])
      BY <1>1 DEF Current
    <3>2. PICK j2 \in 1..Len(schedule) : j2 = k[r]
      BY <1>1
    <3>3. Sends(q, r, w, schedule[j2])
      BY <3>1, <3>2
    <3>4. ProgramOf(r, j2)[RecvAt(r, q, w, schedule[j2])] = Recv(q, w)
      BY <1>2, <3>3, PlacesOf
    <3> QED
      BY <3>1, <3>2, <3>4
  <2>6. x = r /\ j = k[r] => (b = pc[r] <=> p = q /\ v = w)
    <3>1. ASSUME x = r, j = k[r], b = pc[r]
          PROVE  p = q /\ v = w
      <4>1. Recv(p, v) = Recv(q, w)
        BY <2>1, <2>5, <3>1
      <4> QED
        BY <4>1, OpsAre
    <3>2. ASSUME x = r, j = k[r], p = q, v = w
          PROVE  b = pc[r]
      BY <1>1, <2>1, <3>2 DEF Current
    <3> QED
      BY <3>1, <3>2
  <2>7. Taken(x, j, b)' <=> Taken(x, j, b) \/ (x = r /\ j = k[r] /\ b = pc[r])
    <3>1. CASE x = r
      <4>1. Taken(r, j, b) <=> k[r] > j \/ (k[r] = j /\ pc[r] > b)
        BY DEF Taken, Past
      <4>2. Taken(r, j, b)' <=> k[r] > j \/ (k[r] = j /\ pc[r] + 1 > b)
        BY <1>4 DEF Taken, Past
      <4> QED
        BY <2>1, <2>3, <3>1, <4>1, <4>2
    <3>2. CASE x # r
      BY <1>4, <3>2 DEF Taken, Past
    <3> QED
      BY <3>1, <3>2
  <2> QED
    BY <2>2, <2>4, <2>6, <2>7
<1>15. ASSUME NEW p \in Ranks, NEW x \in Ranks, ~(p = q /\ x = r)
       PROVE  (OnlyPending(p, x) /\ AllPending(p, x) /\ InSendOrder(p, x) /\ TakenAfterSent(p, x))'
  <2>1. OnlyPending(p, x) /\ AllPending(p, x) /\ InSendOrder(p, x) /\ TakenAfterSent(p, x)
    BY DEF Queues
  <2>2. \A j \in 1..Len(schedule), v \in Whats : Sends(p, x, v, schedule[j]) =>
               /\ SentFor(p, x, v, j)' <=> SentFor(p, x, v, j)
               /\ TakenFor(p, x, v, j)' <=> TakenFor(p, x, v, j)
    BY <1>14, <1>15
  <2>3. net'[p][x] = net[p][x]
    BY <1>13, <1>15
  <2>4. OnlyPending(p, x)'
    BY <1>2, <2>1, <2>2, <2>3 DEF OnlyPending
  <2>5. AllPending(p, x)'
    BY <1>2, <2>1, <2>2, <2>3 DEF AllPending
  <2>6. InSendOrder(p, x)'
    BY <1>2, <2>1, <2>3 DEF InSendOrder
  <2>7. TakenAfterSent(p, x)'
    BY <1>2, <2>1, <2>2 DEF TakenAfterSent
  <2> QED
    BY <2>4, <2>5, <2>6, <2>7
<1>16. OnlyPending(q, r) /\ AllPending(q, r) /\ InSendOrder(q, r) /\ TakenAfterSent(q, r)
  BY DEF Queues
<1>17. i \in 1..Len(s) /\ s[i].call = k[r] /\ s[i].what = w
  <2>1. s[i] = FrameOf(q, r, w, k[r], Current(r)) /\ i \in 1..Len(s)
    BY <1>1
  <2> QED
    BY <2>1, FrameFields
\* No other frame in the queue is of this call and operation.
<1>18. \A y \in 1..Len(t) : ~(t[y].call = k[r] /\ t[y].what = w)
  <2> SUFFICES ASSUME NEW y \in 1..Len(t), t[y].call = k[r], t[y].what = w
               PROVE  FALSE
    OBVIOUS
  <2>1. PICK o \in 1..Len(s) : o # i /\ t[y] = s[o]
    BY <1>10
  <2>2. s[o].call = k[r] /\ s[o].what = w
    BY <2>1
  <2>3. PICK a \in Nat : a = SendAt(q, r, w, schedule[k[r]])
    BY <1>1, <1>2, PlacesOf DEF Current
  <2>4. Past(k[r], a, k[r], a)
    <3>1. o < i \/ i < o
      BY <1>8, <1>17, <2>1
    <3>2. CASE o < i
      BY <1>16, <1>17, <2>2, <2>3, <3>2 DEF InSendOrder
    <3>3. CASE i < o
      BY <1>16, <1>17, <2>2, <2>3, <3>3 DEF InSendOrder
    <3> QED
      BY <3>1, <3>2, <3>3
  <2> QED
    BY <1>4, <2>3, <2>4 DEF Past
<1>19. OnlyPending(q, r)'
  <2> SUFFICES ASSUME NEW y \in 1..Len(t)
               PROVE  \E j \in 1..Len(schedule), v \in Whats :
                         /\ t[y] = FrameOf(q, r, v, j, schedule[j])
                         /\ Sends(q, r, v, schedule[j])
                         /\ SentFor(q, r, v, j)' /\ ~(TakenFor(q, r, v, j)')
    BY <1>2, <1>13 DEF OnlyPending
  <2>1. PICK o \in 1..Len(s) : t[y] = s[o]
    BY <1>10
  <2>2. PICK j \in 1..Len(schedule), v \in Whats :
             /\ s[o] = FrameOf(q, r, v, j, schedule[j]) /\ Sends(q, r, v, schedule[j])
             /\ SentFor(q, r, v, j) /\ ~TakenFor(q, r, v, j)
    BY <1>16 DEF OnlyPending
  <2>3. t[y].call = j /\ t[y].what = v
    BY <2>1, <2>2, FrameFields
  <2>4. ~(j = k[r] /\ v = w)
    BY <1>18, <2>3
  <2>5. SentFor(q, r, v, j)' /\ ~(TakenFor(q, r, v, j)')
    BY <1>14, <2>2, <2>4
  <2> QED
    BY <2>1, <2>2, <2>5
<1>20. AllPending(q, r)'
  <2> SUFFICES ASSUME NEW j \in 1..Len(schedule), NEW v \in Whats, Sends(q, r, v, schedule[j]),
                      SentFor(q, r, v, j)', ~(TakenFor(q, r, v, j)')
               PROVE  \E y \in 1..Len(t) : t[y].call = j /\ t[y].what = v
    BY <1>2, <1>13 DEF AllPending
  <2>1. SentFor(q, r, v, j) /\ ~TakenFor(q, r, v, j) /\ ~(v = w /\ j = k[r])
    BY <1>14
  <2>2. PICK x \in 1..Len(s) : s[x].call = j /\ s[x].what = v
    BY <1>16, <2>1 DEF AllPending
  <2>3. x # i
    BY <1>17, <2>1, <2>2
  <2>4. PICK y \in 1..Len(t) : Old(y) = x
    BY <1>12, <2>3
  <2> QED
    BY <1>10, <2>2, <2>4
<1>21. InSendOrder(q, r)'
  <2> SUFFICES ASSUME NEW y \in 1..Len(t), NEW z \in 1..Len(t), y < z
               PROVE  Past(t[z].call, SendAt(q, r, t[z].what, schedule[t[z].call]),
                           t[y].call, SendAt(q, r, t[y].what, schedule[t[y].call]))
    BY <1>2, <1>13 DEF InSendOrder
  <2>1. PICK o \in 1..Len(s), o2 \in 1..Len(s) : o < o2 /\ t[y] = s[o] /\ t[z] = s[o2]
    BY <1>10, <1>11
  <2> QED
    BY <1>16, <2>1 DEF InSendOrder
<1>22. TakenAfterSent(q, r)'
  <2> SUFFICES ASSUME NEW j \in 1..Len(schedule), NEW v \in Whats, Sends(q, r, v, schedule[j]),
                      TakenFor(q, r, v, j)'
               PROVE  SentFor(q, r, v, j)'
    BY <1>2 DEF TakenAfterSent
  <2>1. TakenFor(q, r, v, j) \/ (v = w /\ j = k[r])
    BY <1>14
  <2>2. CASE TakenFor(q, r, v, j)
    BY <1>14, <1>16, <2>2 DEF TakenAfterSent
  <2>3. CASE v = w /\ j = k[r]
    <3>1. PICK j2 \in 1..Len(schedule), v2 \in Whats :
             s[i] = FrameOf(q, r, v2, j2, schedule[j2]) /\ SentFor(q, r, v2, j2)
      BY <1>16, <1>17 DEF OnlyPending
    <3>2. j2 = j /\ v2 = v
      BY <1>17, <2>3, <3>1, FrameFields
    <3>3. SentFor(q, r, v, j)
      BY <3>1, <3>2
    <3> QED
      BY <1>14, <3>3
  <2> QED
    BY <2>1, <2>2, <2>3
<1>23. Queues'
  BY <1>13, <1>15, <1>19, <1>20, <1>21, <1>22 DEF Queues
<1> QED
  BY <1>5, <1>6, <1>7, <1>23

\* Every step keeps the invariant.
LEMMA CallsStep == CallsInv /\ [CallsNext]_callVars => CallsInv'
<1> SUFFICES ASSUME CallsInv, [CallsNext]_callVars
             PROVE  CallsInv'
  OBVIOUS
<1>1. CASE UNCHANGED callVars
  <2>1. UNCHANGED <<schedule, k, pc, blocked, failed, out, counts, net, results>>
    BY <1>1 DEF callVars
  <2>2. Places'
    BY <2>1 DEF CallsInv, Places, ProgramOf
  <2>3. Buffers'
    BY <2>1 DEF CallsInv, Buffers
  <2>4. Queues'
    <3>1. ASSUME NEW p \in Ranks, NEW r \in Ranks, NEW j \in 1..Len(schedule), NEW w \in Whats
          PROVE  /\ SentFor(p, r, w, j)' <=> SentFor(p, r, w, j)
                 /\ TakenFor(p, r, w, j)' <=> TakenFor(p, r, w, j)
      BY <2>1 DEF SentFor, TakenFor, Handed, Taken
    <3> QED
      BY <2>1, <3>1, QueuesKept DEF CallsInv
  <2>5. Returned'
    BY <2>1 DEF CallsInv, Returned
  <2> QED
    BY <2>2, <2>3, <2>4, <2>5 DEF CallsInv
<1>2. ASSUME NEW r \in Ranks, Step(r)
      PROVE  CallsInv'
  <2>1. UNCHANGED <<schedule, capacity>>
    BY <1>2 DEF Step
  <2>2. CASE CallNext(r)
    BY <2>1, <2>2, CallNextKeeps
  <2>3. CASE SendFrame(r)
    BY <2>1, <2>3, SendKeeps
  <2>4. CASE SendReturns(r)
    BY <2>1, <2>4, SendReturnsKeeps
  <2>5. CASE RecvFrame(r)
    BY <2>1, <2>5, RecvKeeps
  <2>6. CASE Return(r)
    BY <2>1, <2>6, ReturnKeeps
  <2> QED
    BY <1>2, <2>2, <2>3, <2>4, <2>5, <2>6 DEF Step
<1> QED
  BY <1>1, <1>2 DEF CallsNext

\* The invariant, in every reachable state.
LEMMA CallsHold == CallsSpec => []CallsInv
<1>1. CallsInit => CallsInv
  BY CallsStart
<1>2. CallsInv /\ [CallsNext]_callVars => CallsInv'
  BY CallsStep
<1> QED
  BY <1>1, <1>2, PTL DEF CallsSpec

\* For any number of ranks, any schedule of the six collectives and any transport, the
\* frame that recv_bytes hands a rank is the one sent for the call and the operation it
\* is at, although every call of a collective uses the same tag, and no length check of
\* ProcessGroup fails.
THEOREM CallsTakeTheirOwnFrames == CallsSpec => []StreamsNeverCross
<1>1. ASSUME CallsInv
      PROVE  StreamsNeverCross
  <2> USE <1>1 DEF CallsInv
  <2> SUFFICES ASSUME NEW r \in Ranks
               PROVE  /\ ~failed[r]
                      /\ (Running(r) /\ Op(r).op = "recv" /\ Matching(r) # 0) =>
                            /\ net[Op(r).peer][r][Matching(r)].call = k[r]
                            /\ net[Op(r).peer][r][Matching(r)].what = Op(r).what
    BY DEF StreamsNeverCross
  <2>1. ~failed[r]
    BY DEF Places
  <2>2. ASSUME Running(r), Op(r).op = "recv", Matching(r) # 0
        PROVE  /\ net[Op(r).peer][r][Matching(r)].call = k[r]
               /\ net[Op(r).peer][r][Matching(r)].what = Op(r).what
    <3>1. k[r] \in 1..Len(schedule)
      BY <2>2, AtRecv
    <3>2. PICK q \in Ranks, w \in Whats :
             /\ Op(r).peer = q /\ Op(r).what = w
             /\ Sends(q, r, w, Current(r)) /\ pc[r] = RecvAt(r, q, w, Current(r))
      BY <2>2, AtRecv
    <3>3. net[q][r][Matching(r)] = FrameOf(q, r, w, k[r], Current(r))
      BY <2>2, <3>1, <3>2, FirstIsNext
    <3> QED
      BY <3>2, <3>3, FrameFields
  <2> QED
    BY <2>1, <2>2
<1> QED
  BY <1>1, CallsHold, PTL

\* No call leaves a frame behind: what is under way to a rank was sent for the call the
\* rank is in or for a later one, so that a later call with the same tag never finds it.
THEOREM CallsLeaveNothing == CallsSpec => []NoLeftovers
<1>1. ASSUME CallsInv
      PROVE  NoLeftovers
  <2> USE <1>1 DEF CallsInv
  <2> SUFFICES ASSUME NEW p \in Ranks, NEW r \in Ranks, NEW i \in DOMAIN net[p][r]
               PROVE  net[p][r][i].call >= k[r]
    BY DEF NoLeftovers
  <2>1. net[p][r] \in Seq(Frames) /\ OnlyPending(p, r)
    BY DEF Queues
  <2>2. i \in 1..Len(net[p][r])
    BY <2>1
  <2>3. PICK j \in 1..Len(schedule), w \in Whats :
           net[p][r][i] = FrameOf(p, r, w, j, schedule[j]) /\ ~TakenFor(p, r, w, j)
    BY <2>1, <2>2 DEF OnlyPending
  <2>4. net[p][r][i].call = j
    BY <2>3, FrameFields
  <2>5. ~(k[r] > j)
    BY <2>3 DEF TakenFor, Taken, Past
  <2>6. k[r] \in Nat /\ j \in Int
    <3>1. schedule \in Seq(Call)
      BY CollectivesAssumption DEF Places
    <3> QED
      BY <3>1, LenProperties DEF Places
  <2> QED
    BY <2>4, <2>5, <2>6
<1> QED
  BY <1>1, CallsHold, PTL

\* A collective that has returned gave its rank what its comment promises, whatever the
\* other ranks were doing meanwhile: gathered, broadcast, exchanged or permuted chunks
\* each in its place, a reduction that folds every input once, in rank order after the
\* root's own, and is finalized once, and the true counts of all_to_all_v.
THEOREM CollectivesDeliver == CallsSpec => []ResultsRight
<1>1. ASSUME CallsInv
      PROVE  ResultsRight
  <2> USE <1>1 DEF CallsInv
  <2> SUFFICES ASSUME NEW r \in Ranks, NEW i \in DOMAIN results[r]
               PROVE  /\ results[r][i].out = Promised(r, schedule[i], i)
                      /\ schedule[i].kind = "all_to_all_v" =>
                            results[r][i].counts = [p \in Ranks |-> Counts[p][r]]
    BY DEF ResultsRight
  <2>1. results[r] \in Seq(Results)
    BY DEF Returned
  <2>2. i \in 1..Len(results[r])
    BY <2>1
  <2> QED
    BY <2>2 DEF Returned
<1> QED
  BY <1>1, CallsHold, PTL

=============================================================================
