---------------------------- MODULE PagedKv_proofs ----------------------------
(***************************************************************************)
(* The paged KV cache, for any pool, any page size and any number of       *)
(* sequences: the reference counts are exact, what a sequence reads is     *)
(* what it computed or would have computed, and a page is refused only     *)
(* when every page is in use.                                              *)
(***************************************************************************)
EXTENDS PagedKv, DataLemmas

-----------------------------------------------------------------------------
(* Rows and pages.                                                         *)

\* The token whose row is row j of page i.
RowAt(i, j) == Tpp * (i - 1) + j

LEMMA TppIs == Tpp \in Nat /\ Tpp > 0 /\ Tpp >= 1
BY PoolAssumption

LEMMA TppTimes ==
    ASSUME NEW a \in Nat, NEW b \in Nat
    PROVE  /\ Tpp * a \in Nat /\ Tpp * a = a * Tpp
           /\ Tpp * (a + 1) = Tpp * a + Tpp
           /\ a < b => Tpp * a + Tpp =< Tpp * b
           /\ a =< b => Tpp * a =< Tpp * b
           /\ Tpp * a < Tpp * b + Tpp => a =< b
<1>1. Tpp \in Nat /\ Tpp > 0
  BY TppIs
<1>2. Tpp * a \in Nat /\ Tpp * a = a * Tpp /\ Tpp * (a + 1) = Tpp * a + Tpp
  BY <1>1
<1>3. ASSUME NEW x \in Nat, NEW y \in Nat, x < y
      PROVE  Tpp * x + Tpp =< Tpp * y
  <2>1. x + 1 =< y
    BY <1>3
  <2>2. Tpp * (x + 1) =< Tpp * y
    BY <1>1, <2>1
  <2> QED
    BY <1>1, <2>2
<1>4. a =< b => Tpp * a =< Tpp * b
  BY <1>1
<1>5. ASSUME Tpp * a < Tpp * b + Tpp, ~(a =< b)
      PROVE  FALSE
  <2>1. b < a
    BY <1>5
  <2>2. Tpp * b + Tpp =< Tpp * a
    BY <1>3, <2>1
  <2>3. Tpp * a \in Nat /\ Tpp * b \in Nat
    BY <1>1
  <2> QED
    BY <1>1, <1>5, <2>2, <2>3
<1> QED
  BY <1>2, <1>3, <1>4, <1>5

\* Every token has its row in one page.
LEMMA RowOf ==
    ASSUME NEW t \in Nat \ {0}
    PROVE  LET i == ((t - 1) \div Tpp) + 1
               j == ((t - 1) % Tpp) + 1
           IN  i \in Nat \ {0} /\ j \in 1..Tpp /\ RowAt(i, j) = t
<1>1. Tpp \in Nat /\ Tpp > 0 /\ t - 1 \in Nat
  BY TppIs
<1>2. /\ (t - 1) \div Tpp \in Nat /\ (t - 1) % Tpp \in 0..(Tpp - 1)
      /\ t - 1 = Tpp * ((t - 1) \div Tpp) + ((t - 1) % Tpp)
  BY <1>1
<1> DEFINE x == (t - 1) \div Tpp
           y == (t - 1) % Tpp
<1> HIDE DEF x, y
<1>3. x \in Nat /\ y \in 0..(Tpp - 1) /\ t - 1 = Tpp * x + y
  BY <1>2 DEF x, y
<1>4. (x + 1) - 1 = x /\ x + 1 \in Nat \ {0} /\ y + 1 \in 1..Tpp /\ Tpp * x \in Nat
  BY <1>1, <1>3
<1>5. Tpp * x + (y + 1) = t
  BY <1>1, <1>3, <1>4
<1> QED
  BY <1>4, <1>5 DEF x, y, RowAt

LEMMA RowIs ==
    ASSUME NEW i \in Nat \ {0}, NEW j \in 1..Tpp
    PROVE  /\ RowAt(i, j) \in Nat \ {0} /\ RowAt(i, j) = Tpp * (i - 1) + j
           /\ RowAt(i, j) = Tpp * i - Tpp + j
           /\ RowAt(i, j) =< Tpp * i /\ Tpp * (i - 1) < RowAt(i, j)
           /\ Tpp * i \in Nat /\ Tpp * (i - 1) \in Nat
<1>1. Tpp \in Nat /\ i - 1 \in Nat /\ (i - 1) + 1 = i
  BY TppIs
<1>2. Tpp * (i - 1) \in Nat /\ Tpp * i = Tpp * (i - 1) + Tpp /\ Tpp * i \in Nat
  BY <1>1, TppTimes
<1> QED
  BY <1>1, <1>2 DEF RowAt

LEMMA RowUnique ==
    ASSUME NEW i \in Nat \ {0}, NEW j \in 1..Tpp, NEW k \in Nat \ {0}, NEW l \in 1..Tpp,
           RowAt(i, j) = RowAt(k, l)
    PROVE  i = k /\ j = l
<1>1. Tpp \in Nat /\ i - 1 \in Nat /\ k - 1 \in Nat
  BY TppIs
<1>2. /\ Tpp * (i - 1) \in Nat /\ Tpp * (k - 1) \in Nat
      /\ i - 1 < k - 1 => Tpp * (i - 1) + Tpp =< Tpp * (k - 1)
      /\ k - 1 < i - 1 => Tpp * (k - 1) + Tpp =< Tpp * (i - 1)
  BY <1>1, TppTimes
<1>3. Tpp * (i - 1) + j = Tpp * (k - 1) + l
  BY DEF RowAt
<1>4. ~(i - 1 < k - 1) /\ ~(k - 1 < i - 1)
  BY <1>1, <1>2, <1>3
<1>5. i = k
  BY <1>1, <1>4
<1> QED
  BY <1>1, <1>2, <1>3, <1>5

\* The pages a number of rows fills.
LEMMA FullPage ==
    ASSUME NEW h \in Nat
    PROVE  /\ h \div Tpp \in Nat /\ Tpp * (h \div Tpp) =< h /\ h < Tpp * (h \div Tpp) + Tpp
           /\ \A i \in Nat : i > h \div Tpp <=> Tpp * i > h
           /\ \A i \in Nat : i =< h \div Tpp <=> Tpp * i =< h
<1>1. Tpp \in Nat /\ Tpp > 0
  BY TppIs
<1>2. /\ h \div Tpp \in Nat /\ h % Tpp \in 0..(Tpp - 1)
      /\ h = Tpp * (h \div Tpp) + (h % Tpp)
  BY <1>1
<1> DEFINE x == h \div Tpp
<1> HIDE DEF x
<1>3. x \in Nat /\ Tpp * x \in Nat /\ Tpp * x =< h /\ h < Tpp * x + Tpp
  <2>1. PICK y \in 0..(Tpp - 1) : h = Tpp * x + y
    BY <1>2 DEF x
  <2>2. x \in Nat
    BY <1>2 DEF x
  <2>3. Tpp * x \in Nat
    BY <1>1, <2>2
  <2> QED
    BY <1>1, <2>1, <2>2, <2>3
<1>4. ASSUME NEW i \in Nat
      PROVE  (i > x <=> Tpp * i > h) /\ (i =< x <=> Tpp * i =< h)
  <2>1. /\ Tpp * i \in Nat /\ (x < i => Tpp * x + Tpp =< Tpp * i)
        /\ (i =< x => Tpp * i =< Tpp * x)
    BY <1>3, TppTimes
  <2>2. CASE i =< x
    BY <1>1, <1>3, <2>1, <2>2
  <2>3. CASE x < i
    BY <1>1, <1>3, <2>1, <2>3
  <2> QED
    BY <1>3, <2>2, <2>3
<1> QED
  BY <1>3, <1>4 DEF x

LEMMA Multiple ==
    ASSUME NEW k \in Nat
    PROVE  (Tpp * k) \div Tpp = k /\ (k * Tpp) \div Tpp = k
<1>1. Tpp * k \in Nat /\ Tpp * k = k * Tpp
  BY TppTimes
<1> DEFINE h == Tpp * k
<1>2. h \in Nat /\ h = Tpp * k
  BY <1>1
<1>3. h \div Tpp \in Nat /\ (k =< h \div Tpp <=> Tpp * k =< h)
      /\ ((h \div Tpp) =< h \div Tpp <=> Tpp * (h \div Tpp) =< h)
  BY <1>2, FullPage
<1>4. k =< h \div Tpp
  BY <1>2, <1>3
<1>5. Tpp * (h \div Tpp) =< Tpp * k /\ Tpp * (h \div Tpp) \in Nat
  BY <1>3, <1>2, TppTimes
<1>6. h \div Tpp =< k
  BY <1>2, <1>3, <1>5, TppTimes, TppIs
<1> HIDE DEF h
<1>7. h \div Tpp = k
  BY <1>3, <1>4, <1>6
<1> QED
  BY <1>1, <1>7 DEF h

-----------------------------------------------------------------------------
(* Prefixes, largest and smallest elements.                                *)

LEMMA PrefixIs ==
    ASSUME NEW S, NEW s \in Seq(S), NEW n \in 0..Len(s)
    PROVE  /\ Prefix(s, n) \in Seq(S) /\ Len(Prefix(s, n)) = n
           /\ \A i \in 1..n : Prefix(s, n)[i] = s[i]
<1>1. Len(s) \in Nat /\ n \in Int /\ 1 \in Int
  OBVIOUS
<1>2. \A i \in 1..n : s[i] \in S
  BY <1>1
<1>3. /\ SubSeq(s, 1, n) \in Seq(S) /\ Len(SubSeq(s, 1, n)) = (IF 1 <= n THEN n - 1 + 1 ELSE 0)
      /\ \A i \in 1..(n - 1 + 1) : SubSeq(s, 1, n)[i] = s[1 + i - 1]
  BY <1>1, <1>2, SubSeqProperties
<1>4. n - 1 + 1 = n /\ (IF 1 <= n THEN n - 1 + 1 ELSE 0) = n /\ \A i \in 1..n : 1 + i - 1 = i
  BY <1>1
<1> QED
  BY <1>3, <1>4 DEF Prefix

LEMMA PrefixOfPrefix ==
    ASSUME NEW S, NEW s \in Seq(S), NEW n \in 0..Len(s), NEW m \in 0..n
    PROVE  Prefix(Prefix(s, n), m) = Prefix(s, m)
<1>1. Len(s) \in Nat /\ m \in 0..Len(s)
  OBVIOUS
<1> DEFINE p == Prefix(s, n)
<1>2. p \in Seq(S) /\ Len(p) = n /\ \A i \in 1..n : p[i] = s[i]
  BY PrefixIs
<1>3. Prefix(s, m) \in Seq(S) /\ Len(Prefix(s, m)) = m /\ \A i \in 1..m : Prefix(s, m)[i] = s[i]
  BY <1>1, PrefixIs
<1> HIDE DEF p
<1>4. Prefix(p, m) \in Seq(S) /\ Len(Prefix(p, m)) = m /\ \A i \in 1..m : Prefix(p, m)[i] = p[i]
  BY <1>2, PrefixIs
<1>5. \A i \in 1..m : Prefix(p, m)[i] = Prefix(s, m)[i]
  BY <1>1, <1>2, <1>3, <1>4
<1>6. Prefix(p, m) = Prefix(s, m)
  BY <1>3, <1>4, <1>5, SeqEqual
<1> QED
  BY <1>6 DEF p

LEMMA PrefixAll ==
    ASSUME NEW S, NEW s \in Seq(S)
    PROVE  Prefix(s, Len(s)) = s
BY SubSeqFull DEF Prefix

LEMMA PrefixAppend ==
    ASSUME NEW S, NEW s \in Seq(S), NEW e \in S, NEW n \in 0..Len(s)
    PROVE  Prefix(Append(s, e), n) = Prefix(s, n)
<1> DEFINE a == Append(s, e)
<1>1. a \in Seq(S) /\ Len(a) = Len(s) + 1 /\ \A i \in 1..Len(s) : a[i] = s[i]
  BY AppendProperties
<1>2. n \in 0..Len(a) /\ Len(s) \in Nat
  BY <1>1
<1>3. Prefix(s, n) \in Seq(S) /\ Len(Prefix(s, n)) = n /\ \A i \in 1..n : Prefix(s, n)[i] = s[i]
  BY PrefixIs
<1> HIDE DEF a
<1>4. Prefix(a, n) \in Seq(S) /\ Len(Prefix(a, n)) = n /\ \A i \in 1..n : Prefix(a, n)[i] = a[i]
  BY <1>1, <1>2, PrefixIs
<1>5. \A i \in 1..n : Prefix(a, n)[i] = Prefix(s, n)[i]
  BY <1>1, <1>2, <1>3, <1>4
<1>6. Prefix(a, n) = Prefix(s, n)
  BY <1>3, <1>4, <1>5, SeqEqual
<1> QED
  BY <1>6 DEF a

LEMMA MinIs ==
    ASSUME NEW S, S \subseteq Nat, S # {}
    PROVE  Min(S) \in S /\ \A y \in S : Min(S) =< y
BY LeastNat DEF Min

LEMMA MaxIs ==
    ASSUME NEW n \in Nat, NEW S, S \subseteq 0..n, S # {}
    PROVE  Max(S) \in S /\ \A y \in S : Max(S) >= y
<1> DEFINE T == {y \in Nat : n - y \in S}
<1>1. T \subseteq Nat /\ T # {}
  <2>1. PICK x \in S : TRUE
    OBVIOUS
  <2>2. n - x \in Nat /\ n - (n - x) = x
    OBVIOUS
  <2> QED
    BY <2>1, <2>2
<1>2. PICK y \in T : \A z \in T : y =< z
  BY <1>1, LeastNat
<1>3. n - y \in S /\ \A x \in S : n - y >= x
  <2>1. ASSUME NEW x \in S
        PROVE  n - y >= x
    <3>1. n - x \in Nat /\ n - (n - x) = x /\ x \in Nat
      OBVIOUS
    <3>2. n - x \in T
      BY <3>1
    <3>3. y =< n - x /\ y \in Nat
      BY <1>2, <3>2
    <3> QED
      BY <3>1, <3>3
  <2> QED
    BY <2>1
<1> QED
  BY <1>3 DEF Max

-----------------------------------------------------------------------------
(* Counting owners.                                                        *)

LEMMA Disjoint ==
    ASSUME NEW S, IsFiniteSet(S), NEW T, IsFiniteSet(T), S \cap T = {}
    PROVE  IsFiniteSet(S \cup T) /\ Cardinality(S \cup T) = Cardinality(S) + Cardinality(T)
<1>1. IsFiniteSet(S \cup T) /\ Cardinality(S \cup T) = Cardinality(S) + Cardinality(T) - Cardinality({})
  BY FS_Union
<1>2. Cardinality({}) = 0 /\ Cardinality(S) \in Nat /\ Cardinality(T) \in Nat
  BY FS_EmptySet, FS_CardinalityType
<1> QED
  BY <1>1, <1>2

\* Where a function takes a value.
Where(p, f) == {i \in DOMAIN f : f[i] = p}

LEMMA TimesIs ==
    ASSUME NEW p, NEW f, IsFiniteSet(DOMAIN f)
    PROVE  /\ Times(p, f) = Cardinality(Where(p, f)) /\ Times(p, f) \in Nat
           /\ IsFiniteSet(Where(p, f))
           /\ Times(p, f) = 0 <=> \A i \in DOMAIN f : f[i] # p
<1>1. Where(p, f) \subseteq DOMAIN f
  BY DEF Where
<1>2. IsFiniteSet(Where(p, f))
  BY <1>1, FS_Subset
<1>3. Cardinality(Where(p, f)) \in Nat /\ (Cardinality(Where(p, f)) = 0 <=> Where(p, f) = {})
  BY <1>2, FS_CardinalityType, FS_EmptySet
<1>4. Times(p, f) = Cardinality(Where(p, f))
  BY DEF Times, Where
<1>5. Where(p, f) = {} <=> \A i \in DOMAIN f : f[i] # p
  BY DEF Where
<1> QED
  BY <1>2, <1>3, <1>4, <1>5

LEMMA SeqFinite ==
    ASSUME NEW S, NEW s \in Seq(S)
    PROVE  DOMAIN s = 1..Len(s) /\ IsFiniteSet(DOMAIN s) /\ Len(s) \in Nat
<1>1. DOMAIN s = 1..Len(s) /\ Len(s) \in Nat
  BY LenProperties
<1> QED
  BY <1>1, FS_Interval

LEMMA TimesEmpty ==
    ASSUME NEW p
    PROVE  Times(p, << >>) = 0
<1>1. DOMAIN << >> = {}
  OBVIOUS
<1>2. {i \in DOMAIN << >> : << >>[i] = p} = {}
  BY <1>1
<1> QED
  BY <1>2, FS_EmptySet DEF Times

LEMMA TimesAppend ==
    ASSUME NEW S, NEW s \in Seq(S), NEW e \in S, NEW p
    PROVE  Times(p, Append(s, e)) = Times(p, s) + IF p = e THEN 1 ELSE 0
<1> DEFINE a == Append(s, e)
           n == Len(s) + 1
<1>1. a \in Seq(S) /\ Len(a) = n /\ (\A i \in 1..Len(s) : a[i] = s[i]) /\ a[n] = e
  BY AppendProperties
<1>2. DOMAIN s = 1..Len(s) /\ Len(s) \in Nat /\ DOMAIN a = 1..n /\ IsFiniteSet(DOMAIN s)
      /\ IsFiniteSet(DOMAIN a)
  BY <1>1, SeqFinite
<1>3. 1..n = (1..Len(s)) \cup {n} /\ n \notin 1..Len(s)
  BY <1>2
<1>4. /\ Times(p, s) = Cardinality(Where(p, s)) /\ IsFiniteSet(Where(p, s))
      /\ Times(p, a) = Cardinality(Where(p, a)) /\ Times(p, s) \in Nat
  BY <1>2, TimesIs
<1>5. Where(p, a) = IF p = e THEN Where(p, s) \cup {n} ELSE Where(p, s)
  <2> HIDE DEF a, n
  <2> QED
    BY <1>1, <1>2, <1>3 DEF Where
<1>6. n \notin Where(p, s)
  BY <1>2, <1>3 DEF Where
<1> HIDE DEF a, n
<1>7. Cardinality(Where(p, s) \cup {n}) = Cardinality(Where(p, s)) + 1
  BY <1>4, <1>6, FS_AddElement
<1>8. Times(p, a) = Times(p, s) + IF p = e THEN 1 ELSE 0
  BY <1>4, <1>5, <1>7
<1> QED
  BY <1>8 DEF a

LEMMA TimesWithout ==
    ASSUME NEW f, IsFiniteSet(DOMAIN f), NEW q \in DOMAIN f, NEW p
    PROVE  /\ Times(p, f) = Times(p, Without(f, q)) + IF p = f[q] THEN 1 ELSE 0
           /\ IsFiniteSet(DOMAIN Without(f, q))
<1> DEFINE g == Without(f, q)
<1>1. DOMAIN g = DOMAIN f \ {q} /\ \A i \in DOMAIN g : g[i] = f[i]
  BY DEF Without
<1> HIDE DEF g
<1>2. IsFiniteSet(DOMAIN g)
  BY <1>1, FS_RemoveElement
<1>3. /\ Times(p, f) = Cardinality(Where(p, f)) /\ Times(p, g) \in Nat
      /\ IsFiniteSet(Where(p, g)) /\ Times(p, g) = Cardinality(Where(p, g))
  BY <1>2, TimesIs
<1>4. Where(p, f) = IF p = f[q] THEN Where(p, g) \cup {q} ELSE Where(p, g)
  BY <1>1 DEF Where
<1>5. q \notin Where(p, g)
  BY <1>1 DEF Where
<1>6. Cardinality(Where(p, g) \cup {q}) = Cardinality(Where(p, g)) + 1
  BY <1>3, <1>5, FS_AddElement
<1>7. Times(p, f) = Times(p, g) + IF p = f[q] THEN 1 ELSE 0
  BY <1>3, <1>4, <1>6
<1> QED
  BY <1>2, <1>7 DEF g

\* The values of a function on a finite set.
LEMMA ImageFinite ==
    ASSUME NEW f, NEW S, DOMAIN f = S, IsFiniteSet(S)
    PROVE  IsFiniteSet({f[x] : x \in S})
<1> DEFINE T == {f[x] : x \in S}
<1>1. [x \in S |-> f[x]] \in Surjection(S, T)
  BY DEF Surjection
<1> HIDE DEF T
<1>2. IsFiniteSet(T)
  BY <1>1, FS_Surjection
<1> QED
  BY <1>2 DEF T

\* As many as there are of something else.
LEMMA SameNumber ==
    ASSUME NEW S, NEW T, IsFiniteSet(S), NEW f \in [S -> T],
           \A x, y \in S : f[x] = f[y] => x = y,
           \A t \in T : \E x \in S : f[x] = t
    PROVE  IsFiniteSet(T) /\ Cardinality(T) = Cardinality(S)
<1>1. f \in Bijection(S, T)
  BY DEF Bijection, Injection, Surjection, IsInjective
<1>2. ExistsBijection(S, T)
  BY <1>1 DEF ExistsBijection
<1> QED
  BY <1>2, FS_Bijection

\* The places in the table of s.
Mine(s, f, p) == {<<s, i>> : i \in Where(p, f)}

LEMMA MineIs ==
    ASSUME NEW s, NEW f \in Seq(Pages), NEW p
    PROVE  IsFiniteSet(Mine(s, f, p)) /\ Cardinality(Mine(s, f, p)) = Times(p, f)
<1>1. IsFiniteSet(Where(p, f)) /\ Times(p, f) = Cardinality(Where(p, f))
  BY SeqFinite, TimesIs
<1> DEFINE W == Where(p, f)
           M == Mine(s, f, p)
           g == [i \in W |-> <<s, i>>]
<1>2. g \in [W -> M] /\ (\A x, y \in W : g[x] = g[y] => x = y) /\ \A t \in M : \E x \in W : g[x] = t
  BY DEF Mine
<1> HIDE DEF W, M, g
<1>3. IsFiniteSet(M) /\ Cardinality(M) = Cardinality(W)
  BY <1>1, <1>2, SameNumber DEF W
<1> QED
  BY <1>1, <1>3 DEF W, M

LEMMA SlotsIs ==
    ASSUME NEW T \in [Seqs -> Seq(Pages)], NEW p
    PROVE  /\ Slots(T, p) = UNION {Mine(s, T[s], p) : s \in Seqs}
           /\ IsFiniteSet(Slots(T, p)) /\ Cardinality(Slots(T, p)) \in Nat
           /\ \A s \in Seqs : \A i : <<s, i>> \in Slots(T, p) <=> (i \in DOMAIN T[s] /\ T[s][i] = p)
           /\ Slots(T, p) = {} <=> \A s \in Seqs : \A i \in DOMAIN T[s] : T[s][i] # p
<1> DEFINE f == [s \in Seqs |-> Mine(s, T[s], p)]
           F == {f[s] : s \in Seqs}
<1>1. Slots(T, p) = UNION F
  BY DEF Slots, Mine, Where
<1>2. IsFiniteSet(F)
  BY ImageFinite, PoolAssumption
<1>3. \A X \in F : IsFiniteSet(X)
  BY MineIs
<1> HIDE DEF F
<1>4. IsFiniteSet(UNION F)
  BY <1>2, <1>3, FS_UNION
<1>5. \A s \in Seqs : \A i : <<s, i>> \in Slots(T, p) <=> (i \in DOMAIN T[s] /\ T[s][i] = p)
  <2> SUFFICES ASSUME NEW s \in Seqs, NEW i
               PROVE  <<s, i>> \in Slots(T, p) <=> (i \in DOMAIN T[s] /\ T[s][i] = p)
    OBVIOUS
  <2>1. ASSUME NEW r \in Seqs, <<s, i>> \in f[r]
        PROVE  i \in DOMAIN T[s] /\ T[s][i] = p
    <3>1. PICK k \in Where(p, T[r]) : <<s, i>> = <<r, k>>
      BY <2>1 DEF Mine
    <3> QED
      BY <3>1 DEF Where
  <2>2. ASSUME i \in DOMAIN T[s], T[s][i] = p
        PROVE  <<s, i>> \in f[s]
    BY <2>2 DEF Mine, Where
  <2> QED
    BY <1>1, <2>1, <2>2 DEF F
<1>6. Slots(T, p) = {} <=> \A s \in Seqs : \A i \in DOMAIN T[s] : T[s][i] # p
  <2>1. ASSUME NEW o \in Slots(T, p)
        PROVE  \E s \in Seqs : \E i \in DOMAIN T[s] : T[s][i] = p
    <3>1. PICK r \in Seqs : o \in Mine(r, T[r], p)
      BY <1>1 DEF F
    <3> QED
      BY <3>1 DEF Mine, Where
  <2> QED
    BY <1>5, <2>1
<1>7. UNION F = UNION {Mine(s, T[s], p) : s \in Seqs}
  BY DEF F
<1> QED
  BY <1>1, <1>4, <1>5, <1>6, <1>7, FS_CardinalityType

\* One table changes.
LEMMA SlotsChange ==
    ASSUME NEW T \in [Seqs -> Seq(Pages)], NEW s \in Seqs, NEW x \in Seq(Pages), NEW p
    PROVE  LET U == [T EXCEPT ![s] = x]
           IN  /\ Cardinality(Slots(U, p)) + Times(p, T[s]) = Cardinality(Slots(T, p)) + Times(p, x)
               /\ Times(p, T[s]) =< Cardinality(Slots(T, p))
<1> DEFINE U == [T EXCEPT ![s] = x]
           R == {o \in Slots(T, p) : o[1] # s}
           A == Mine(s, T[s], p)
           B == Mine(s, x, p)
<1>1. U \in [Seqs -> Seq(Pages)] /\ U[s] = x /\ \A r \in Seqs : r # s => U[r] = T[r]
  OBVIOUS
<1>2. /\ Slots(T, p) = UNION {Mine(r, T[r], p) : r \in Seqs}
      /\ Slots(U, p) = UNION {Mine(r, U[r], p) : r \in Seqs} /\ IsFiniteSet(Slots(T, p))
  BY <1>1, SlotsIs
<1>3. \A r, f : \A o \in Mine(r, f, p) : o[1] = r
  BY DEF Mine
<1>4. R \subseteq Slots(T, p) /\ IsFiniteSet(R)
  <2>1. R \subseteq Slots(T, p)
    OBVIOUS
  <2> QED
    BY <1>2, <2>1, FS_Subset
<1>5. Slots(T, p) = R \cup A
  BY <1>2, <1>3
<1>6. Slots(U, p) = R \cup B
  <2> HIDE DEF U
  <2>1. ASSUME NEW o \in Slots(U, p)
        PROVE  o \in R \cup B
    <3>1. PICK r \in Seqs : o \in Mine(r, U[r], p)
      BY <1>2
    <3>2. CASE r = s
      BY <1>1, <3>1, <3>2
    <3>3. CASE r # s
      <4>1. o \in Mine(r, T[r], p) /\ o[1] = r
        BY <1>1, <1>3, <3>1, <3>3
      <4> QED
        BY <1>2, <3>3, <4>1
    <3> QED
      BY <3>2, <3>3
  <2>2. ASSUME NEW o \in R
        PROVE  o \in Slots(U, p)
    <3>1. PICK r \in Seqs : o \in Mine(r, T[r], p)
      BY <1>2
    <3>2. r # s
      BY <1>3, <3>1
    <3>3. o \in Mine(r, U[r], p)
      BY <1>1, <3>1, <3>2
    <3> QED
      BY <1>2, <3>3
  <2>3. B \subseteq Slots(U, p)
    BY <1>1, <1>2
  <2> QED
    BY <2>1, <2>2, <2>3
<1>7. R \cap A = {} /\ R \cap B = {}
  BY <1>3
<1>8. /\ IsFiniteSet(A) /\ Cardinality(A) = Times(p, T[s])
      /\ IsFiniteSet(B) /\ Cardinality(B) = Times(p, x)
  BY MineIs
<1> HIDE DEF R, A, B, U
<1>9. /\ Cardinality(R \cup A) = Cardinality(R) + Cardinality(A)
      /\ Cardinality(R \cup B) = Cardinality(R) + Cardinality(B)
  BY <1>4, <1>7, <1>8, Disjoint
<1>10. Cardinality(R) \in Nat /\ Cardinality(A) \in Nat /\ Cardinality(B) \in Nat
  BY <1>4, <1>8, FS_CardinalityType
<1>11. /\ Cardinality(Slots(U, p)) + Times(p, T[s]) = Cardinality(Slots(T, p)) + Times(p, x)
       /\ Times(p, T[s]) =< Cardinality(Slots(T, p))
  BY <1>5, <1>6, <1>8, <1>9, <1>10
<1> QED
  BY <1>11 DEF U

-----------------------------------------------------------------------------
(* The invariant.                                                          *)

\* Whole pages of tokens.
Paths == {q \in Seq(Nat) : \E k \in Nat \ {0} : Len(q) = Tpp * k}

KvTypes ==
    /\ refs \in [Pages -> Nat]
    /\ rows \in [Pages -> Seq(Seq(Nat))]
    /\ trie \in [DOMAIN trie -> Pages] /\ DOMAIN trie \subseteq Paths /\ IsFiniteSet(DOMAIN trie)
    /\ use \in [DOMAIN trie -> Nat]
    /\ toks \in [Seqs -> Seq(Nat)]
    /\ table \in [Seqs -> Seq(Pages)]
    /\ held \in [Seqs -> Nat]

\* The rows a sequence holds fit its tokens and its pages.
Fits ==
    \A s \in Seqs :
        /\ held[s] =< Len(toks[s]) /\ held[s] =< Tpp * Len(table[s])
        /\ toks[s] = << >> => table[s] = << >> /\ held[s] = 0

\* Row j of a page is x, or unknown; the last row of a page is computed, never copied.
Has(r, j, x) == j \in DOMAIN r /\ (r[j] = x \/ (r[j] = Unknown /\ j < Tpp))

\* A sequence finds its rows in its pages.
TableRows ==
    \A s \in Seqs : \A i \in DOMAIN table[s], j \in 1..Tpp :
        RowAt(i, j) =< held[s] => Has(rows[table[s][i]], j, Prefix(toks[s], RowAt(i, j)))

\* The page of a node is full, with the rows of the node's path.
TrieRows ==
    \A q \in DOMAIN trie : \A j \in 1..Tpp :
        Has(rows[trie[q]], j, Prefix(q, Len(q) - Tpp + j))

\* A page that is not full, which its sequence will write, has no other owner.
Unshared ==
    \A s \in Seqs : \A i \in DOMAIN table[s] :
        Tpp * i > held[s] =>
            /\ \A o \in Seqs : \A k \in DOMAIN table[o] :
                  table[o][k] = table[s][i] => o = s /\ k = i
            /\ \A q \in DOMAIN trie : trie[q] # table[s][i]

\* The copy c is of the path's rows after the first h tokens, which t shares, and goes to
\* the page after the pages of those, of n pages.
Planned(t, h, n, c) ==
    /\ c.path \in Seq(Nat) /\ Len(c.path) = h + Tpp
    /\ c.tokens \in Nat /\ c.tokens < Tpp /\ h + c.tokens < Len(t)
    /\ Prefix(c.path, h + c.tokens) = Prefix(t, h + c.tokens)
    /\ \E i \in Nat : h = Tpp * i /\ i + 1 =< n

\* The copies that are still to be made.
Plans ==
    /\ DOMAIN plan = Seqs
    /\ \A s \in Seqs :
          plan[s] = NoPlan \/ Planned(toks[s], held[s], Len(table[s]), plan[s])

KvInv == KvTypes /\ Fits /\ RefsExact /\ TableRows /\ TrieRows /\ Unshared /\ Plans

\* A plan stays while its sequence only gains pages.
LEMMA PlansKept ==
    ASSUME KvTypes, Plans, DOMAIN plan' = Seqs,
           \A o \in Seqs : \/ plan'[o] = NoPlan
                           \/ /\ plan'[o] = plan[o] /\ toks'[o] = toks[o]
                              /\ held'[o] = held[o] /\ Len(table'[o]) \in Nat
                              /\ Len(table[o]) =< Len(table'[o])
    PROVE  Plans'
<1>1. ASSUME NEW o \in Seqs, plan'[o] # NoPlan
      PROVE  Planned(toks'[o], held'[o], Len(table'[o]), plan'[o])
  <2> DEFINE n == Len(table[o])
             m == Len(table'[o])
  <2>1. /\ plan'[o] = plan[o] /\ toks'[o] = toks[o] /\ held'[o] = held[o]
        /\ m \in Nat /\ n =< m
    BY <1>1
  <2>2. Planned(toks[o], held[o], n, plan[o])
    BY <1>1, <2>1 DEF Plans
  <2>3. n \in Nat
    <3>1. table[o] \in Seq(Pages)
      BY DEF KvTypes
    <3> QED
      BY <3>1, SeqFinite
  <2> HIDE DEF n, m
  <2>4. Planned(toks[o], held[o], m, plan[o])
    BY <2>1, <2>2, <2>3 DEF Planned
  <2> QED
    BY <2>1, <2>4 DEF m
<1> QED
  BY <1>1 DEF Plans

\* Who has no token to compute has nothing to copy.
LEMMA NothingPlanned ==
    ASSUME KvTypes, Plans, NEW o \in Seqs, held[o] >= Len(toks[o])
    PROVE  plan[o] = NoPlan
<1>1. held[o] \in Nat /\ toks[o] \in Seq(Nat)
  BY DEF KvTypes
<1>2. Len(toks[o]) \in Nat
  BY <1>1, SeqFinite
<1>3. ~Planned(toks[o], held[o], Len(table[o]), plan[o])
  <2> SUFFICES ASSUME Planned(toks[o], held[o], Len(table[o]), plan[o])
               PROVE  FALSE
    OBVIOUS
  <2>1. plan[o].tokens \in Nat /\ held[o] + plan[o].tokens < Len(toks[o])
    BY DEF Planned
  <2> QED
    BY <1>1, <1>2, <2>1
<1> QED
  BY <1>3 DEF Plans

-----------------------------------------------------------------------------
(* What the operators of the cache return.                                 *)

LEMMA TouchedIs ==
    ASSUME NEW u, IsFiniteSet(DOMAIN u), NEW P, IsFiniteSet(P)
    PROVE  Touched(u, P) \in [DOMAIN u \cup P -> Nat]
<1> DEFINE all == DOMAIN u \cup P
           raw == [q \in all |-> IF q \in P THEN Cardinality(all) ELSE u[q]]
           Low(q) == {o \in all : raw[o] < raw[q]}
<1>1. IsFiniteSet(all)
  BY FS_Union
<1>2. ASSUME NEW q \in all
      PROVE  Cardinality({raw[o] : o \in Low(q)}) \in Nat
  <2> DEFINE A == Low(q)
             g == [o \in A |-> raw[o]]
  <2>1. A \subseteq all /\ IsFiniteSet(A)
    <3>1. A \subseteq all
      OBVIOUS
    <3> QED
      BY <1>1, <3>1, FS_Subset
  <2>2. DOMAIN g = A /\ {raw[o] : o \in A} = {g[o] : o \in A}
    OBVIOUS
  <2> HIDE DEF A, g
  <2>3. IsFiniteSet({g[o] : o \in A})
    BY <2>1, <2>2, ImageFinite
  <2>4. Cardinality({raw[o] : o \in A}) \in Nat
    BY <2>2, <2>3, FS_CardinalityType
  <2> QED
    BY <2>4 DEF A
<1>3. Touched(u, P) = [q \in all |-> Cardinality({raw[o] : o \in Low(q)})]
  BY DEF Touched
<1> HIDE DEF raw, Low
<1>4. Touched(u, P) \in [all -> Nat]
  BY <1>2, <1>3
<1> QED
  BY <1>4 DEF all

LEMMA PathsToIs ==
    ASSUME NEW t \in Seq(Nat), NEW n \in 0..Len(t)
    PROVE  /\ IsFiniteSet(PathsTo(t, n)) /\ PathsTo(t, n) \subseteq Paths
           /\ \A k \in Nat \ {0} : Tpp * k =< n => Prefix(t, Tpp * k) \in PathsTo(t, n)
           /\ \A q \in PathsTo(t, n) : \E k \in Nat \ {0} :
                 q = Prefix(t, Tpp * k) /\ Tpp * k =< n /\ Len(q) = Tpp * k
<1>1. Len(t) \in Nat /\ n \in Nat /\ n =< Len(t)
  OBVIOUS
<1> DEFINE m == n \div Tpp
           f == [k \in 1..m |-> Prefix(t, k * Tpp)]
<1>2. m \in Nat /\ \A i \in Nat : i =< m <=> Tpp * i =< n
  BY <1>1, FullPage
<1>3. PathsTo(t, n) = {f[k] : k \in 1..m}
  BY DEF PathsTo
<1> HIDE DEF m
<1>4. IsFiniteSet({f[k] : k \in 1..m})
  <2>1. IsFiniteSet(1..m) /\ DOMAIN f = 1..m
    BY <1>2, FS_Interval
  <2> HIDE DEF f
  <2> QED
    BY <2>1, ImageFinite
<1>5. ASSUME NEW k \in 1..m
      PROVE  /\ k \in Nat \ {0} /\ f[k] = Prefix(t, Tpp * k) /\ Tpp * k =< n
             /\ Len(f[k]) = Tpp * k /\ f[k] \in Seq(Nat)
  <2>1. k \in Nat \ {0} /\ k =< m
    BY <1>2
  <2>2. Tpp * k \in Nat /\ Tpp * k = k * Tpp /\ Tpp * k =< n
    BY <1>2, <2>1, TppTimes
  <2>3. Tpp * k \in 0..Len(t)
    BY <1>1, <2>2
  <2>4. Prefix(t, Tpp * k) \in Seq(Nat) /\ Len(Prefix(t, Tpp * k)) = Tpp * k
    BY <2>3, PrefixIs
  <2> QED
    BY <2>1, <2>2, <2>4
<1>6. ASSUME NEW k \in Nat \ {0}, Tpp * k =< n
      PROVE  Prefix(t, Tpp * k) \in PathsTo(t, n)
  <2>1. k \in 1..m
    BY <1>2, <1>6
  <2>2. f[k] = Prefix(t, Tpp * k)
    BY <1>5, <2>1
  <2> HIDE DEF f
  <2> QED
    BY <1>3, <2>1, <2>2
<1> HIDE DEF f
<1>7. PathsTo(t, n) \subseteq Paths
  BY <1>3, <1>5 DEF Paths
<1>8. \A q \in PathsTo(t, n) : \E k \in Nat \ {0} :
         q = Prefix(t, Tpp * k) /\ Tpp * k =< n /\ Len(q) = Tpp * k
  BY <1>3, <1>5
<1> QED
  BY <1>3, <1>4, <1>6, <1>7, <1>8

LEMMA WalkIs ==
    ASSUME NEW t \in Seq(Nat), t # << >>
    PROVE  \E k \in Nat : /\ Walk(t) = Tpp * k /\ Walk(t) \in 0..Len(t) /\ Walk(t) =< Limit(t)
                          /\ PathsTo(t, Walk(t)) \subseteq DOMAIN trie
<1>1. Len(t) \in Nat \ {0} /\ Limit(t) \in Nat /\ Limit(t) = Len(t) - 1
  BY EmptySeq DEF Limit
<1> DEFINE m == Limit(t) \div Tpp
           S == {k \in 0..m : PathsTo(t, k * Tpp) \subseteq DOMAIN trie}
<1>2. m \in Nat /\ \A i \in Nat : i =< m <=> Tpp * i =< Limit(t)
  BY <1>1, FullPage
<1>3. 0 \in S
  <2>1. (0 * Tpp) \div Tpp = 0
    BY Multiple
  <2>2. PathsTo(t, 0 * Tpp) = {}
    BY <2>1 DEF PathsTo
  <2> HIDE DEF m
  <2> QED
    BY <1>2, <2>2
<1>4. Max(S) \in S
  <2> HIDE DEF m
  <2>1. S \subseteq 0..m /\ S # {}
    BY <1>3
  <2> HIDE DEF S
  <2> QED
    BY <1>2, <2>1, MaxIs
<1> DEFINE k == Max(S)
<1>5. Walk(t) = Tpp * k
  BY DEF Walk
<1> HIDE DEF m
<1>6. k \in 0..m /\ PathsTo(t, k * Tpp) \subseteq DOMAIN trie
  BY <1>4
<1> HIDE DEF k, S
<1>7. k \in Nat /\ Tpp * k =< Limit(t) /\ Tpp * k \in Nat /\ k * Tpp = Tpp * k
  <2>1. k \in Nat /\ k =< m
    BY <1>2, <1>6
  <2> QED
    BY <1>2, <2>1, TppTimes
<1>8. Tpp * k \in 0..Len(t)
  BY <1>1, <1>7
<1> QED
  BY <1>5, <1>6, <1>7, <1>8

\* The pages of the walk are those of the nodes on it.
LEMMA MatchedIs ==
    ASSUME KvTypes, NEW t \in Seq(Nat), t # << >>
    PROVE  /\ Matched(t) \in Seq(Pages) /\ Walk(t) = Tpp * Len(Matched(t))
           /\ \A i \in 1..Len(Matched(t)) : /\ Prefix(t, Tpp * i) \in DOMAIN trie
                                            /\ Matched(t)[i] = trie[Prefix(t, Tpp * i)]
<1>1. PICK k \in Nat : /\ Walk(t) = Tpp * k /\ Walk(t) \in 0..Len(t)
                       /\ PathsTo(t, Walk(t)) \subseteq DOMAIN trie
  BY WalkIs
<1>2. Walk(t) \div Tpp = k
  BY <1>1, Multiple
<1>3. ASSUME NEW i \in 1..k
      PROVE  i * Tpp = Tpp * i /\ Prefix(t, Tpp * i) \in DOMAIN trie
  <2>1. i \in Nat \ {0} /\ i =< k
    OBVIOUS
  <2>2. Tpp * i =< Walk(t) /\ i * Tpp = Tpp * i
    BY <1>1, <2>1, TppTimes
  <2> QED
    BY <1>1, <2>1, <2>2, PathsToIs
<1>4. Matched(t) = [i \in 1..k |-> trie[Prefix(t, i * Tpp)]]
  BY <1>2 DEF Matched
<1>5. \A i \in 1..k : trie[Prefix(t, i * Tpp)] \in Pages
  BY <1>3 DEF KvTypes
<1>6. Matched(t) \in [1..k -> Pages]
  BY <1>4, <1>5
<1>7. Matched(t) \in Seq(Pages) /\ Len(Matched(t)) = k
  BY <1>6, SeqDef, LenProperties
<1> QED
  BY <1>1, <1>3, <1>4, <1>7

-----------------------------------------------------------------------------
(* What the counts tell of the owners.                                     *)

LEMMA Counts ==
    ASSUME KvTypes, RefsExact, NEW p \in Pages
    PROVE  /\ refs[p] = Cardinality(Slots(table, p)) + Times(p, trie)
           /\ refs[p] \in Nat /\ Cardinality(Slots(table, p)) \in Nat /\ Times(p, trie) \in Nat
           /\ Cardinality(Slots(table, p)) = 0 <=>
                 \A s \in Seqs : \A i \in DOMAIN table[s] : table[s][i] # p
           /\ Times(p, trie) = 0 <=> \A q \in DOMAIN trie : trie[q] # p
<1>1. table \in [Seqs -> Seq(Pages)] /\ IsFiniteSet(DOMAIN trie) /\ refs[p] \in Nat
  BY DEF KvTypes
<1>2. /\ IsFiniteSet(Slots(table, p)) /\ Cardinality(Slots(table, p)) \in Nat
      /\ Slots(table, p) = {} <=> \A s \in Seqs : \A i \in DOMAIN table[s] : table[s][i] # p
  BY <1>1, SlotsIs
<1>3. Cardinality(Slots(table, p)) = 0 <=> Slots(table, p) = {}
  BY <1>2, FS_EmptySet
<1>4. Times(p, trie) \in Nat /\ (Times(p, trie) = 0 <=> \A q \in DOMAIN trie : trie[q] # p)
  BY <1>1, TimesIs
<1> QED
  BY <1>1, <1>2, <1>3, <1>4 DEF RefsExact

\* Nobody holds a free page.
LEMMA NoOwner ==
    ASSUME KvTypes, RefsExact, NEW p \in Pages, refs[p] = 0
    PROVE  /\ \A s \in Seqs : \A i \in DOMAIN table[s] : table[s][i] # p
           /\ \A q \in DOMAIN trie : trie[q] # p
<1>1. Cardinality(Slots(table, p)) = 0 /\ Times(p, trie) = 0
  BY Counts
<1> QED
  BY <1>1, Counts

\* A page that a node holds and that has one owner is in no table, nor at another node.
LEMMA SoleOwner ==
    ASSUME KvTypes, RefsExact, NEW q \in DOMAIN trie, refs[trie[q]] = 1
    PROVE  /\ \A s \in Seqs : \A i \in DOMAIN table[s] : table[s][i] # trie[q]
           /\ \A o \in DOMAIN trie : trie[o] = trie[q] => o = q
<1> DEFINE p == trie[q]
<1>1. p \in Pages /\ IsFiniteSet(DOMAIN trie)
  BY DEF KvTypes
<1>2. Times(p, trie) # 0
  BY <1>1, Counts
<1>3. Times(p, trie) = 1 /\ Cardinality(Slots(table, p)) = 0
  <2>1. /\ 1 = Cardinality(Slots(table, p)) + Times(p, trie)
        /\ Cardinality(Slots(table, p)) \in Nat /\ Times(p, trie) \in Nat
    BY <1>1, Counts
  <2> QED
    BY <1>2, <2>1
<1>4. Times(p, trie) = Cardinality(Where(p, trie)) /\ IsFiniteSet(Where(p, trie))
  BY <1>1, TimesIs
<1>5. PICK x : Where(p, trie) = {x}
  BY <1>3, <1>4, FS_Singleton
<1>6. \A o \in DOMAIN trie : trie[o] = p => o = q
  BY <1>5 DEF Where
<1>7. \A s \in Seqs : \A i \in DOMAIN table[s] : table[s][i] # p
  BY <1>1, <1>3, Counts
<1> QED
  BY <1>6, <1>7

\* One table, the trie and the counts change together.
LEMMA RefsKept ==
    ASSUME KvTypes, RefsExact, NEW s \in Seqs, NEW x \in Seq(Pages),
           table' = [table EXCEPT ![s] = x],
           \A p \in Pages : refs'[p] \in Nat /\ Times(p, trie') \in Nat,
           \A p \in Pages : refs'[p] + Times(p, table[s]) + Times(p, trie)
                              = refs[p] + Times(p, x) + Times(p, trie')
    PROVE  RefsExact'
<1> SUFFICES ASSUME NEW p \in Pages
             PROVE  refs'[p] = Cardinality(Slots(table', p)) + Times(p, trie')
  BY DEF RefsExact
<1>1. table \in [Seqs -> Seq(Pages)] /\ table[s] \in Seq(Pages)
  BY DEF KvTypes
<1>2. Cardinality(Slots(table', p)) + Times(p, table[s]) = Cardinality(Slots(table, p)) + Times(p, x)
  BY <1>1, SlotsChange
<1>3. table' \in [Seqs -> Seq(Pages)]
  BY <1>1
<1>4. /\ Cardinality(Slots(table', p)) \in Nat /\ Times(p, table[s]) \in Nat /\ Times(p, x) \in Nat
  <2>1. Cardinality(Slots(table', p)) \in Nat
    BY <1>3, SlotsIs
  <2>2. IsFiniteSet(DOMAIN table[s]) /\ IsFiniteSet(DOMAIN x)
    BY <1>1, SeqFinite
  <2> QED
    BY <2>1, <2>2, TimesIs
<1>5. /\ refs[p] = Cardinality(Slots(table, p)) + Times(p, trie)
      /\ refs[p] \in Nat /\ Cardinality(Slots(table, p)) \in Nat /\ Times(p, trie) \in Nat
  BY Counts
<1>6. /\ refs'[p] \in Nat /\ Times(p, trie') \in Nat
      /\ refs'[p] + Times(p, table[s]) + Times(p, trie) = refs[p] + Times(p, x) + Times(p, trie')
  OBVIOUS
<1> DEFINE a == Cardinality(Slots(table', p))
           b == Times(p, table[s])
           c == Cardinality(Slots(table, p))
           d == Times(p, x)
           f == Times(p, trie)
           g == refs'[p]
           h == Times(p, trie')
<1>7. /\ a \in Nat /\ b \in Nat /\ c \in Nat /\ d \in Nat /\ f \in Nat /\ g \in Nat /\ h \in Nat
      /\ a + b = c + d /\ g + b + f = (c + f) + d + h
  BY <1>2, <1>4, <1>5, <1>6
<1> HIDE DEF a, b, c, d, f, g, h
<1>8. g = a + h
  BY <1>7
<1> QED
  BY <1>8 DEF a, g, h

\* Counting a page more for every time a sequence holds it, or less.
LEMMA RetainedIs ==
    ASSUME KvTypes, NEW f, IsFiniteSet(DOMAIN f)
    PROVE  /\ Retained(refs, f) \in [Pages -> Nat]
           /\ \A p \in Pages : Retained(refs, f)[p] = refs[p] + Times(p, f)
<1>1. \A p \in Pages : refs[p] \in Nat /\ Times(p, f) \in Nat
  BY TimesIs DEF KvTypes
<1> QED
  BY <1>1 DEF Retained

\* The victim of an eviction is one of the nodes that may go.
LEMMA VictimIs ==
    ASSUME KvTypes, Evictable # {}
    PROVE  Victim \in Evictable
<1>1. Evictable \subseteq DOMAIN trie
  BY DEF Evictable
<1>2. \A q \in Evictable : use[q] \in Nat
  BY <1>1 DEF KvTypes
<1> DEFINE S == {use[q] : q \in Evictable}
<1>3. S \subseteq Nat /\ S # {}
  BY <1>2
<1>4. PICK x \in S : \A y \in S : x =< y
  BY <1>3, LeastNat
<1>5. \E q \in Evictable : \A o \in Evictable : use[q] =< use[o]
  BY <1>4
<1> QED
  BY <1>5 DEF Victim

\* Taking a node out leaves a trie.
LEMMA WithoutIs ==
    ASSUME KvTypes, NEW q \in DOMAIN trie
    PROVE  /\ DOMAIN Without(trie, q) = DOMAIN trie \ {q}
           /\ \A o \in DOMAIN trie \ {q} : Without(trie, q)[o] = trie[o]
           /\ Without(trie, q) \in [DOMAIN trie \ {q} -> Pages]
           /\ IsFiniteSet(DOMAIN trie \ {q})
           /\ Touched(Without(use, q), {}) \in [DOMAIN trie \ {q} -> Nat]
<1>1. /\ trie \in [DOMAIN trie -> Pages] /\ use \in [DOMAIN trie -> Nat] /\ IsFiniteSet(DOMAIN trie)
  BY DEF KvTypes
<1>2. IsFiniteSet(DOMAIN trie \ {q})
  BY <1>1, FS_RemoveElement
<1>3. DOMAIN Without(use, q) = DOMAIN trie \ {q}
  BY <1>1 DEF Without
<1>4. Touched(Without(use, q), {}) \in [(DOMAIN trie \ {q}) \cup {} -> Nat]
  BY <1>2, <1>3, TouchedIs, FS_EmptySet
<1>5. (DOMAIN trie \ {q}) \cup {} = DOMAIN trie \ {q}
  OBVIOUS
<1> QED
  BY <1>1, <1>2, <1>4, <1>5 DEF Without

LEMMA IndexIs ==
    ASSUME KvTypes, NEW o \in Seqs
    PROVE  /\ table[o] \in Seq(Pages) /\ Len(table[o]) \in Nat /\ DOMAIN table[o] = 1..Len(table[o])
           /\ \A i \in DOMAIN table[o] : i \in Nat \ {0} /\ i =< Len(table[o]) /\ table[o][i] \in Pages
<1>1. table[o] \in Seq(Pages)
  BY DEF KvTypes
<1> DEFINE f == table[o]
<1> HIDE DEF f
<1>2. f \in Seq(Pages)
  BY <1>1 DEF f
<1>3. Len(f) \in Nat /\ DOMAIN f = 1..Len(f)
  BY <1>2, SeqFinite
<1>4. \A i \in DOMAIN f : i \in Nat \ {0} /\ i =< Len(f) /\ f[i] \in Pages
  BY <1>2, <1>3
<1> QED
  BY <1>2, <1>3, <1>4 DEF f

-----------------------------------------------------------------------------
(* The steps.                                                              *)

\* Decoding samples a token.
LEMMA SampleKept ==
    ASSUME KvInv, NEW s \in Seqs, NEW e \in Tokens, Sample(s, e)
    PROVE  KvInv'
<1>0. KvTypes /\ Fits /\ RefsExact /\ TableRows /\ TrieRows /\ Unshared /\ Plans
  BY DEF KvInv
<1>1. /\ toks' = [toks EXCEPT ![s] = Append(@, e)] /\ toks[s] # << >>
      /\ refs' = refs /\ rows' = rows /\ trie' = trie /\ use' = use /\ table' = table /\ held' = held
      /\ plan' = plan /\ held[s] = Len(toks[s])
  BY DEF Sample, pool, cache
<1>2. e \in Nat /\ toks \in [Seqs -> Seq(Nat)] /\ toks[s] \in Seq(Nat) /\ held \in [Seqs -> Nat]
  BY <1>0, PoolAssumption DEF KvTypes
<1>3. /\ toks' \in [Seqs -> Seq(Nat)] /\ Len(toks'[s]) = Len(toks[s]) + 1 /\ toks'[s] # << >>
      /\ toks'[s] = Append(toks[s], e)
      /\ \A o \in Seqs : o # s => toks'[o] = toks[o]
  BY <1>1, <1>2
<1>4. \A o \in Seqs : Len(toks[o]) \in Nat /\ held[o] \in Nat /\ held[o] =< Len(toks[o])
  BY <1>0, <1>2 DEF Fits
<1>5. KvTypes'
  BY <1>0, <1>1, <1>3 DEF KvTypes
<1>6. Fits'
  <2> SUFFICES ASSUME NEW o \in Seqs
               PROVE  /\ held[o] =< Len(toks'[o]) /\ held[o] =< Tpp * Len(table[o])
                      /\ toks'[o] = << >> => table[o] = << >> /\ held[o] = 0
    BY <1>1 DEF Fits
  <2>1. CASE o = s
    BY <1>0, <1>3, <1>4, <2>1 DEF Fits
  <2>2. CASE o # s
    BY <1>0, <1>3, <2>2 DEF Fits
  <2> QED
    BY <2>1, <2>2
<1>7. TableRows'
  <2> SUFFICES ASSUME NEW o \in Seqs, NEW i \in DOMAIN table[o], NEW j \in 1..Tpp,
                      RowAt(i, j) =< held[o]
               PROVE  Has(rows[table[o][i]], j, Prefix(toks'[o], RowAt(i, j)))
    BY <1>1 DEF TableRows
  <2>1. Has(rows[table[o][i]], j, Prefix(toks[o], RowAt(i, j)))
    BY <1>0 DEF TableRows
  <2>2. i \in Nat \ {0}
    BY <1>0, IndexIs
  <2>3. RowAt(i, j) \in 0..Len(toks[o])
    <3>1. RowAt(i, j) \in Nat
      BY <2>2, RowIs
    <3> QED
      BY <1>4, <3>1
  <2>4. Prefix(toks'[o], RowAt(i, j)) = Prefix(toks[o], RowAt(i, j))
    <3>1. CASE o = s
      <4> DEFINE f == toks[s]
                 n == RowAt(i, j)
      <4>1. f \in Seq(Nat) /\ n \in 0..Len(f)
        BY <1>2, <2>3, <3>1
      <4> HIDE DEF f, n
      <4>2. Prefix(Append(f, e), n) = Prefix(f, n)
        BY <1>2, <4>1, PrefixAppend
      <4> QED
        BY <1>3, <3>1, <4>2 DEF f, n
    <3>2. CASE o # s
      BY <1>3, <3>2
    <3> QED
      BY <3>1, <3>2
  <2> QED
    BY <2>1, <2>4
<1>8. TrieRows' /\ Unshared' /\ RefsExact'
  BY <1>0, <1>1 DEF TrieRows, Unshared, RefsExact
<1>9. Plans'
  <2>1. plan[s] = NoPlan
    BY <1>0, <1>1, <1>4, NothingPlanned
  <2>2. \A o \in Seqs : Len(table[o]) \in Nat
    BY <1>0, IndexIs
  <2>3. DOMAIN plan = Seqs
    BY <1>0 DEF Plans
  <2> QED
    BY <1>0, <1>1, <1>3, <2>1, <2>2, <2>3, PlansKept
<1> QED
  BY <1>5, <1>6, <1>7, <1>8, <1>9 DEF KvInv

\* A sequence lets go of its pages.
LEMMA ReleaseKept ==
    ASSUME KvInv, NEW s \in Seqs, Release(s)
    PROVE  KvInv'
<1>0. KvTypes /\ Fits /\ RefsExact /\ TableRows /\ TrieRows /\ Unshared /\ Plans
  BY DEF KvInv
<1>1. /\ refs' = Dropped(refs, table[s]) /\ rows' = RowsLeft(refs') /\ trie' = trie /\ use' = use
      /\ toks' = [toks EXCEPT ![s] = << >>] /\ table' = [table EXCEPT ![s] = << >>]
      /\ held' = [held EXCEPT ![s] = 0] /\ plan' = [plan EXCEPT ![s] = NoPlan]
  BY DEF Release, cache
<1>2. /\ refs \in [Pages -> Nat] /\ rows \in [Pages -> Seq(Seq(Nat))]
      /\ toks \in [Seqs -> Seq(Nat)] /\ table \in [Seqs -> Seq(Pages)] /\ held \in [Seqs -> Nat]
      /\ table[s] \in Seq(Pages) /\ IsFiniteSet(DOMAIN trie)
      /\ << >> \in Seq(Nat) /\ << >> \in Seq(Pages) /\ << >> \in Seq(Seq(Nat))
  BY <1>0 DEF KvTypes
<1>3. ASSUME NEW p \in Pages
      PROVE  /\ refs'[p] = refs[p] - Times(p, table[s]) /\ refs'[p] \in Nat
             /\ refs[p] \in Nat /\ Times(p, table[s]) \in Nat
  <2>1. /\ refs[p] = Cardinality(Slots(table, p)) + Times(p, trie) /\ refs[p] \in Nat
        /\ Cardinality(Slots(table, p)) \in Nat /\ Times(p, trie) \in Nat
    BY <1>0, Counts
  <2>2. Times(p, table[s]) =< Cardinality(Slots(table, p))
    BY <1>2, SlotsChange
  <2>3. Times(p, table[s]) \in Nat
    BY <1>2, SeqFinite, TimesIs
  <2>4. refs'[p] = refs[p] - Times(p, table[s])
    BY <1>1 DEF Dropped
  <2> QED
    BY <2>1, <2>2, <2>3, <2>4
<1>4. refs' \in [Pages -> Nat]
  BY <1>1, <1>3 DEF Dropped
<1>5. /\ \A o \in Seqs : /\ toks'[o] = IF o = s THEN << >> ELSE toks[o]
                         /\ table'[o] = IF o = s THEN << >> ELSE table[o]
                         /\ held'[o] = IF o = s THEN 0 ELSE held[o]
      /\ \A p \in Pages : rows'[p] = IF refs'[p] = 0 THEN << >> ELSE rows[p]
  BY <1>1, <1>2 DEF RowsLeft
<1>6. KvTypes'
  <2>1. rows' \in [Pages -> Seq(Seq(Nat))]
    BY <1>1, <1>2 DEF RowsLeft
  <2>2. toks' \in [Seqs -> Seq(Nat)] /\ table' \in [Seqs -> Seq(Pages)] /\ held' \in [Seqs -> Nat]
    BY <1>1, <1>2
  <2> QED
    BY <1>0, <1>1, <1>4, <2>1, <2>2 DEF KvTypes
<1>7. RefsExact'
  <2>1. \A p \in Pages : Times(p, << >>) = 0 /\ Times(p, trie) \in Nat
    BY <1>2, TimesEmpty, TimesIs
  <2>2. ASSUME NEW p \in Pages
        PROVE  refs'[p] + Times(p, table[s]) + Times(p, trie)
                  = refs[p] + Times(p, << >>) + Times(p, trie')
    BY <1>1, <1>3, <2>1
  <2> QED
    BY <1>0, <1>1, <1>2, <1>3, <2>1, <2>2, RefsKept
<1>8. ASSUME NEW p \in Pages, \/ \E o \in Seqs : \E i \in DOMAIN table'[o] : table'[o][i] = p
                              \/ \E q \in DOMAIN trie' : trie'[q] = p
      PROVE  rows'[p] = rows[p]
  <2>1. table' \in [Seqs -> Seq(Pages)] /\ IsFiniteSet(DOMAIN trie') /\ refs'[p] \in Nat
    BY <1>1, <1>2, <1>3, <1>6 DEF KvTypes
  <2>2. /\ IsFiniteSet(Slots(table', p)) /\ Cardinality(Slots(table', p)) \in Nat
        /\ Slots(table', p) = {} <=> \A o \in Seqs : \A i \in DOMAIN table'[o] : table'[o][i] # p
    BY <2>1, SlotsIs
  <2>3. Cardinality(Slots(table', p)) = 0 <=> Slots(table', p) = {}
    BY <2>2, FS_EmptySet
  <2>4. Times(p, trie') \in Nat /\ (Times(p, trie') = 0 <=> \A q \in DOMAIN trie' : trie'[q] # p)
    BY <2>1, TimesIs
  <2>5. refs'[p] = Cardinality(Slots(table', p)) + Times(p, trie')
    BY <1>7 DEF RefsExact
  <2>6. refs'[p] # 0
    BY <1>8, <2>2, <2>3, <2>4, <2>5
  <2> QED
    BY <1>5, <2>6
<1>9. Fits'
  <2>1. Tpp \in Nat /\ Len(<< >>) = 0 /\ Tpp * 0 = 0
    BY TppIs
  <2>2. ASSUME NEW o \in Seqs
        PROVE  /\ held'[o] =< Len(toks'[o]) /\ held'[o] =< Tpp * Len(table'[o])
               /\ toks'[o] = << >> => table'[o] = << >> /\ held'[o] = 0
    <3>1. CASE o = s
      BY <1>5, <2>1, <3>1
    <3>2. CASE o # s
      BY <1>0, <1>5, <3>2 DEF Fits
    <3> QED
      BY <3>1, <3>2
  <2> QED
    BY <2>2 DEF Fits
<1>10. TableRows'
  <2> SUFFICES ASSUME NEW o \in Seqs, NEW i \in DOMAIN table'[o], NEW j \in 1..Tpp,
                      RowAt(i, j) =< held'[o]
               PROVE  Has(rows'[table'[o][i]], j, Prefix(toks'[o], RowAt(i, j)))
    BY DEF TableRows
  <2>1. o # s
    BY <1>5
  <2>2. table'[o] = table[o] /\ toks'[o] = toks[o] /\ held'[o] = held[o]
    BY <1>5, <2>1
  <2>3. table[o][i] \in Pages
    BY <1>2, <2>2
  <2>4. rows'[table[o][i]] = rows[table[o][i]]
    BY <1>8, <2>2, <2>3
  <2> QED
    BY <1>0, <2>2, <2>4 DEF TableRows
<1>11. TrieRows'
  <2> SUFFICES ASSUME NEW q \in DOMAIN trie, NEW j \in 1..Tpp
               PROVE  Has(rows'[trie[q]], j, Prefix(q, Len(q) - Tpp + j))
    BY <1>1 DEF TrieRows
  <2>1. trie[q] \in Pages
    BY <1>0 DEF KvTypes
  <2>2. rows'[trie[q]] = rows[trie[q]]
    BY <1>1, <1>8, <2>1
  <2> QED
    BY <1>0, <2>2 DEF TrieRows
<1>12. Unshared'
  <2> SUFFICES ASSUME NEW o \in Seqs, NEW i \in DOMAIN table'[o], Tpp * i > held'[o]
               PROVE  /\ \A r \in Seqs : \A k \in DOMAIN table'[r] :
                            table'[r][k] = table'[o][i] => r = o /\ k = i
                      /\ \A q \in DOMAIN trie : trie[q] # table'[o][i]
    BY <1>1 DEF Unshared
  <2>1. o # s
    BY <1>5
  <2>2. \A r \in Seqs : \A k \in DOMAIN table'[r] : k \in DOMAIN table[r] /\ table'[r][k] = table[r][k]
    BY <1>5
  <2>3. held'[o] = held[o]
    BY <1>5, <2>1
  <2> QED
    BY <1>0, <2>2, <2>3 DEF Unshared
<1>13. Plans'
  <2>1. DOMAIN plan = Seqs
    BY <1>0 DEF Plans
  <2>2. DOMAIN plan' = Seqs /\ \A o \in Seqs : plan'[o] = IF o = s THEN NoPlan ELSE plan[o]
    BY <1>1, <2>1
  <2>3. \A o \in Seqs : Len(table[o]) \in Nat
    BY <1>0, IndexIs
  <2> QED
    BY <1>0, <1>5, <2>2, <2>3, PlansKept
<1> QED
  BY <1>6, <1>7, <1>9, <1>10, <1>11, <1>12, <1>13 DEF KvInv

\* The trie shrinks and a page nobody holds any more is overwritten.
LEMMA ShrinkKept ==
    ASSUME KvTypes, TableRows, TrieRows, Unshared, NEW d \in Pages,
           \A o \in Seqs : \A i \in DOMAIN table[o] : table[o][i] # d,
           DOMAIN trie' \subseteq DOMAIN trie,
           \A q \in DOMAIN trie' : trie'[q] = trie[q] /\ trie'[q] # d,
           \A p \in Pages : p # d => rows'[p] = rows[p]
    PROVE  /\ TrieRows'
           /\ \A o \in Seqs : \A i \in DOMAIN table[o], j \in 1..Tpp : RowAt(i, j) =< held[o] =>
                 Has(rows'[table[o][i]], j, Prefix(toks[o], RowAt(i, j)))
           /\ \A o \in Seqs : \A i \in DOMAIN table[o] : Tpp * i > held[o] =>
                 \A q \in DOMAIN trie' : trie'[q] # table[o][i]
<1>1. TrieRows'
  <2> SUFFICES ASSUME NEW q \in DOMAIN trie', NEW j \in 1..Tpp
               PROVE  Has(rows'[trie'[q]], j, Prefix(q, Len(q) - Tpp + j))
    BY DEF TrieRows
  <2>1. q \in DOMAIN trie /\ trie'[q] = trie[q] /\ trie[q] \in Pages /\ trie[q] # d
    BY DEF KvTypes
  <2> QED
    BY <2>1 DEF TrieRows
<1>2. ASSUME NEW o \in Seqs, NEW i \in DOMAIN table[o], NEW j \in 1..Tpp, RowAt(i, j) =< held[o]
      PROVE  Has(rows'[table[o][i]], j, Prefix(toks[o], RowAt(i, j)))
  <2>1. table[o][i] \in Pages /\ table[o][i] # d
    BY IndexIs
  <2> QED
    BY <1>2, <2>1 DEF TableRows
<1>3. ASSUME NEW o \in Seqs, NEW i \in DOMAIN table[o], Tpp * i > held[o]
      PROVE  \A q \in DOMAIN trie' : trie'[q] # table[o][i]
  BY <1>3 DEF Unshared
<1> QED
  BY <1>1, <1>2, <1>3

\* A page nobody holds goes to the end of a table.
LEMMA FreshKept ==
    ASSUME KvTypes, Fits, TableRows, TrieRows, Unshared, NEW s \in Seqs, NEW d \in Pages,
           \A o \in Seqs : \A i \in DOMAIN table[o] : table[o][i] # d,
           DOMAIN trie' \subseteq DOMAIN trie,
           \A q \in DOMAIN trie' : trie'[q] = trie[q] /\ trie'[q] # d,
           \A p \in Pages : p # d => rows'[p] = rows[p],
           toks' = toks, held' = held, table' = [table EXCEPT ![s] = Append(@, d)],
           toks[s] # << >>
    PROVE  /\ table' \in [Seqs -> Seq(Pages)]
           /\ Fits' /\ TableRows' /\ TrieRows' /\ Unshared'
<1>0. table \in [Seqs -> Seq(Pages)] /\ held \in [Seqs -> Nat]
  BY DEF KvTypes
<1> DEFINE n == Len(table[s]) + 1
<1>1. /\ table' \in [Seqs -> Seq(Pages)]
      /\ \A o \in Seqs : o # s => table'[o] = table[o]
      /\ table'[s] = Append(table[s], d)
  BY <1>0
<1>2. /\ Len(table'[s]) = n /\ table'[s][n] = d /\ n \in Nat \ {0}
      /\ DOMAIN table[s] = 1..(n - 1) /\ DOMAIN table'[s] = 1..n
      /\ \A i \in DOMAIN table[s] : table'[s][i] = table[s][i]
      /\ Len(table[s]) \in Nat
  <2> DEFINE f == table[s]
  <2>1. f \in Seq(Pages)
    BY <1>0
  <2> HIDE DEF f
  <2>2. /\ Append(f, d) \in Seq(Pages) /\ Len(Append(f, d)) = Len(f) + 1
        /\ \A i \in 1..Len(f) : Append(f, d)[i] = f[i]
        /\ Append(f, d)[Len(f) + 1] = d
    BY <2>1, AppendProperties
  <2>3. DOMAIN f = 1..Len(f) /\ Len(f) \in Nat /\ DOMAIN Append(f, d) = 1..(Len(f) + 1)
    BY <2>1, <2>2, SeqFinite
  <2>4. (Len(f) + 1) - 1 = Len(f) /\ Len(f) + 1 \in Nat \ {0}
    BY <2>3
  <2> QED
    BY <1>1, <2>2, <2>3, <2>4 DEF f
<1> HIDE DEF n
<1>3. ASSUME NEW o \in Seqs, NEW i \in DOMAIN table'[o]
      PROVE  \/ i \in DOMAIN table[o] /\ table'[o][i] = table[o][i]
             \/ o = s /\ i = n /\ table'[o][i] = d
  <2>1. CASE o # s
    BY <1>1, <2>1
  <2>2. CASE o = s
    <3>1. i \in 1..n
      BY <1>2, <2>2
    <3>2. i \in 1..(n - 1) \/ i = n
      BY <1>2, <3>1
    <3> QED
      BY <1>2, <2>2, <3>2
  <2> QED
    BY <2>1, <2>2
<1>4. held[s] \in Nat /\ held[s] =< Tpp * Len(table[s]) /\ Tpp * n = Tpp * Len(table[s]) + Tpp
      /\ Tpp * Len(table[s]) \in Nat /\ Tpp \in Nat /\ Tpp > 0
  BY <1>0, <1>2, TppIs, TppTimes DEF Fits, n
<1>5. Tpp * n > held[s] /\ \A j \in 1..Tpp : ~(RowAt(n, j) =< held[s])
  <2>1. Tpp * n > held[s] /\ n - 1 = Len(table[s])
    BY <1>2, <1>4 DEF n
  <2>2. ASSUME NEW j \in 1..Tpp
        PROVE  ~(RowAt(n, j) =< held[s])
    <3>1. RowAt(n, j) \in Nat /\ Tpp * Len(table[s]) < RowAt(n, j)
      BY <1>2, <2>1, RowIs
    <3> QED
      BY <1>4, <3>1
  <2> QED
    BY <2>1, <2>2
<1>6. /\ TrieRows'
      /\ \A o \in Seqs : \A i \in DOMAIN table[o], j \in 1..Tpp : RowAt(i, j) =< held[o] =>
            Has(rows'[table[o][i]], j, Prefix(toks[o], RowAt(i, j)))
      /\ \A o \in Seqs : \A i \in DOMAIN table[o] : Tpp * i > held[o] =>
            \A q \in DOMAIN trie' : trie'[q] # table[o][i]
  BY ShrinkKept
<1>7. TableRows'
  <2> SUFFICES ASSUME NEW o \in Seqs, NEW i \in DOMAIN table'[o], NEW j \in 1..Tpp,
                      RowAt(i, j) =< held[o]
               PROVE  Has(rows'[table'[o][i]], j, Prefix(toks[o], RowAt(i, j)))
    BY DEF TableRows
  <2> QED
    BY <1>3, <1>5, <1>6
<1>8. Unshared'
  <2> SUFFICES ASSUME NEW o \in Seqs, NEW i \in DOMAIN table'[o], Tpp * i > held[o]
               PROVE  /\ \A r \in Seqs : \A k \in DOMAIN table'[r] :
                            table'[r][k] = table'[o][i] => r = o /\ k = i
                      /\ \A q \in DOMAIN trie' : trie'[q] # table'[o][i]
    BY DEF Unshared
  <2>1. CASE i \in DOMAIN table[o] /\ table'[o][i] = table[o][i]
    BY <1>3, <1>6, <2>1 DEF Unshared
  <2>2. CASE o = s /\ i = n /\ table'[o][i] = d
    BY <1>3, <2>2
  <2> QED
    BY <1>3, <2>1, <2>2
<1>9. Fits'
  <2> SUFFICES ASSUME NEW o \in Seqs
               PROVE  /\ held[o] =< Len(toks[o]) /\ held[o] =< Tpp * Len(table'[o])
                      /\ toks[o] = << >> => table'[o] = << >> /\ held[o] = 0
    BY DEF Fits
  <2>1. CASE o # s
    BY <1>1, <2>1 DEF Fits
  <2>2. CASE o = s
    <3>1. held[s] =< Tpp * n
      BY <1>4
    <3> QED
      BY <1>2, <2>2, <3>1 DEF Fits
  <2> QED
    BY <2>1, <2>2
<1> QED
  BY <1>1, <1>6, <1>7, <1>8, <1>9

\* The least recently used leaf that only the cache owns is evicted.
LEMMA EvictKept ==
    ASSUME KvInv, Evict
    PROVE  KvInv'
<1>0. KvTypes /\ Fits /\ RefsExact /\ TableRows /\ TrieRows /\ Unshared /\ Plans
  BY DEF KvInv
<1> DEFINE v == Victim
           d == trie[v]
<1>1. v \in DOMAIN trie /\ refs[d] = 1
  BY <1>0, VictimIs DEF Evict, Evictable
<1>2. /\ refs' = [refs EXCEPT ![d] = 0] /\ rows' = [rows EXCEPT ![d] = << >>]
      /\ trie' = Without(trie, v) /\ use' = Touched(Without(use, v), {})
      /\ toks' = toks /\ table' = table /\ held' = held /\ plan' = plan
  BY DEF Evict, seqs
<1> HIDE DEF v
<1>3. /\ refs \in [Pages -> Nat] /\ rows \in [Pages -> Seq(Seq(Nat))]
      /\ table \in [Seqs -> Seq(Pages)] /\ d \in Pages /\ IsFiniteSet(DOMAIN trie)
      /\ << >> \in Seq(Seq(Nat)) /\ DOMAIN trie \subseteq Paths
  BY <1>0, <1>1 DEF KvTypes
<1>4. /\ DOMAIN trie' = DOMAIN trie \ {v} /\ trie' \in [DOMAIN trie' -> Pages]
      /\ \A q \in DOMAIN trie' : trie'[q] = trie[q]
      /\ IsFiniteSet(DOMAIN trie') /\ use' \in [DOMAIN trie' -> Nat]
  BY <1>0, <1>1, <1>2, WithoutIs
<1>5. /\ \A o \in Seqs : \A i \in DOMAIN table[o] : table[o][i] # d
      /\ \A q \in DOMAIN trie : trie[q] = d => q = v
  BY <1>0, <1>1, SoleOwner
<1> HIDE DEF d
<1>6. KvTypes'
  <2>1. refs' \in [Pages -> Nat] /\ rows' \in [Pages -> Seq(Seq(Nat))]
    BY <1>2, <1>3
  <2> QED
    BY <1>0, <1>2, <1>3, <1>4, <2>1 DEF KvTypes
<1>7. \A p \in Pages : p # d => rows'[p] = rows[p]
  BY <1>2, <1>3
<1>8. /\ TrieRows'
      /\ \A o \in Seqs : \A i \in DOMAIN table[o], j \in 1..Tpp : RowAt(i, j) =< held[o] =>
            Has(rows'[table[o][i]], j, Prefix(toks[o], RowAt(i, j)))
      /\ \A o \in Seqs : \A i \in DOMAIN table[o] : Tpp * i > held[o] =>
            \A q \in DOMAIN trie' : trie'[q] # table[o][i]
  BY <1>0, <1>3, <1>4, <1>5, <1>7, ShrinkKept
<1>9. TableRows' /\ Fits' /\ Unshared'
  BY <1>0, <1>2, <1>8 DEF TableRows, Fits, Unshared
<1>10. RefsExact'
  <2> SUFFICES ASSUME NEW p \in Pages
               PROVE  refs'[p] = Cardinality(Slots(table, p)) + Times(p, trie')
    BY <1>2 DEF RefsExact
  <2>1. Times(p, trie) = Times(p, trie') + IF p = trie[v] THEN 1 ELSE 0
    BY <1>1, <1>2, <1>3, TimesWithout
  <2>2. /\ refs[p] = Cardinality(Slots(table, p)) + Times(p, trie) /\ refs[p] \in Nat
        /\ Cardinality(Slots(table, p)) \in Nat /\ Times(p, trie) \in Nat
    BY <1>0, Counts
  <2>3. Times(p, trie') \in Nat
    BY <1>4, TimesIs
  <2>4. refs'[p] = IF p = d THEN 0 ELSE refs[p]
    BY <1>2, <1>3
  <2>5. CASE p = d
    BY <1>1, <2>1, <2>2, <2>3, <2>4, <2>5 DEF d
  <2>6. CASE p # d
    BY <2>1, <2>2, <2>3, <2>4, <2>6 DEF d
  <2> QED
    BY <2>5, <2>6
<1>11. Plans'
  BY <1>0, <1>2 DEF Plans
<1> QED
  BY <1>6, <1>8, <1>9, <1>10, <1>11 DEF KvInv

\* A sequence gets a page: a free one, or that of an evicted leaf.
LEMMA AllocKept ==
    ASSUME KvInv, NEW s \in Seqs, AllocPage(s)
    PROVE  KvInv'
<1>0. KvTypes /\ Fits /\ RefsExact /\ TableRows /\ TrieRows /\ Unshared /\ Plans
  BY DEF KvInv
<1>1. /\ refs \in [Pages -> Nat] /\ rows \in [Pages -> Seq(Seq(Nat))]
      /\ table \in [Seqs -> Seq(Pages)] /\ IsFiniteSet(DOMAIN trie) /\ toks[s] \in Seq(Nat)
      /\ << >> \in Seq(Seq(Nat)) /\ DOMAIN trie \subseteq Paths /\ table[s] \in Seq(Pages)
  BY <1>0 DEF KvTypes
<1>2. toks' = toks /\ held' = held /\ plan' = plan /\ toks[s] # << >>
  <2>1. toks' = toks /\ held' = held /\ plan' = plan /\ Tpp * Len(table[s]) < Len(toks[s])
    BY DEF AllocPage, NeedsPage
  <2>2. Tpp * Len(table[s]) \in Nat /\ Len(<< >>) = 0
    BY <1>0, IndexIs, TppTimes
  <2> QED
    BY <2>1, <2>2
<1>5. ASSUME NEW d \in Pages, table' = [table EXCEPT ![s] = Append(@, d)]
      PROVE  Plans'
  <2>1. /\ table'[s] = Append(table[s], d)
        /\ \A o \in Seqs : o # s => table'[o] = table[o]
    BY <1>1, <1>5
  <2>2. Len(table'[s]) = Len(table[s]) + 1
    BY <1>1, <2>1, AppendProperties
  <2>3. \A o \in Seqs : Len(table[o]) \in Nat
    BY <1>0, IndexIs
  <2>4. \A o \in Seqs : Len(table'[o]) \in Nat /\ Len(table[o]) =< Len(table'[o])
    BY <2>1, <2>2, <2>3
  <2>5. DOMAIN plan = Seqs
    BY <1>0 DEF Plans
  <2> QED
    BY <1>0, <1>2, <2>4, <2>5, PlansKept
<1>3. CASE /\ Free # {} /\ refs' = [refs EXCEPT ![Min(Free)] = 1]
           /\ table' = [table EXCEPT ![s] = Append(@, Min(Free))]
           /\ UNCHANGED <<rows, cache>>
  <2> DEFINE d == Min(Free)
  <2>1. d \in Pages /\ refs[d] = 0
    <3>1. Free \subseteq Nat
      BY PoolAssumption DEF Free
    <3>2. d \in Free
      BY <1>3, <3>1, MinIs
    <3> QED
      BY <3>2 DEF Free
  <2> HIDE DEF d
  <2>2. /\ refs' = [refs EXCEPT ![d] = 1] /\ table' = [table EXCEPT ![s] = Append(@, d)]
        /\ rows' = rows /\ trie' = trie /\ use' = use
    BY <1>3 DEF cache, d
  <2>3. /\ \A o \in Seqs : \A i \in DOMAIN table[o] : table[o][i] # d
        /\ \A q \in DOMAIN trie : trie[q] # d
    BY <1>0, <2>1, NoOwner
  <2>4. table' \in [Seqs -> Seq(Pages)] /\ Fits' /\ TableRows' /\ TrieRows' /\ Unshared'
    BY <1>0, <1>2, <2>1, <2>2, <2>3, FreshKept
  <2>5. KvTypes'
    BY <1>0, <1>1, <1>2, <2>2, <2>4 DEF KvTypes
  <2>6. RefsExact'
    <3>1. Append(table[s], d) \in Seq(Pages) /\ table' = [table EXCEPT ![s] = Append(table[s], d)]
      BY <1>1, <2>1, <2>2
    <3>2. ASSUME NEW p \in Pages
          PROVE  /\ refs'[p] \in Nat /\ Times(p, trie') \in Nat
                 /\ refs'[p] + Times(p, table[s]) + Times(p, trie)
                       = refs[p] + Times(p, Append(table[s], d)) + Times(p, trie')
      <4>1. Times(p, Append(table[s], d)) = Times(p, table[s]) + IF p = d THEN 1 ELSE 0
        BY <1>1, <2>1, TimesAppend
      <4>2. Times(p, table[s]) \in Nat /\ Times(p, trie) \in Nat /\ refs[p] \in Nat
        BY <1>1, SeqFinite, TimesIs
      <4>3. refs'[p] = IF p = d THEN 1 ELSE refs[p]
        BY <1>1, <2>2
      <4> QED
        BY <2>1, <2>2, <4>1, <4>2, <4>3
    <3> HIDE DEF d
    <3> QED
      BY <1>0, <3>1, <3>2, RefsKept
  <2>7. Plans'
    BY <1>5, <2>1, <2>2
  <2> QED
    BY <2>4, <2>5, <2>6, <2>7 DEF KvInv
<1>4. CASE /\ Free = {} /\ Evictable # {}
           /\ rows' = [rows EXCEPT ![trie[Victim]] = << >>]
           /\ table' = [table EXCEPT ![s] = Append(@, trie[Victim])]
           /\ trie' = Without(trie, Victim)
           /\ use' = Touched(Without(use, Victim), {})
           /\ UNCHANGED refs
  <2> DEFINE v == Victim
             d == trie[v]
  <2>1. v \in DOMAIN trie /\ refs[d] = 1 /\ d \in Pages
    BY <1>0, <1>4, VictimIs DEF Evictable, KvTypes
  <2>2. /\ refs' = refs /\ rows' = [rows EXCEPT ![d] = << >>]
        /\ trie' = Without(trie, v) /\ use' = Touched(Without(use, v), {})
        /\ table' = [table EXCEPT ![s] = Append(@, d)]
    BY <1>4
  <2> HIDE DEF v
  <2>3. /\ DOMAIN trie' = DOMAIN trie \ {v} /\ trie' \in [DOMAIN trie' -> Pages]
        /\ \A q \in DOMAIN trie' : trie'[q] = trie[q]
        /\ IsFiniteSet(DOMAIN trie') /\ use' \in [DOMAIN trie' -> Nat]
    BY <1>0, <2>1, <2>2, WithoutIs
  <2>4. /\ \A o \in Seqs : \A i \in DOMAIN table[o] : table[o][i] # d
        /\ \A q \in DOMAIN trie : trie[q] = d => q = v
    BY <1>0, <2>1, SoleOwner
  <2> HIDE DEF d
  <2>5. /\ \A p \in Pages : p # d => rows'[p] = rows[p]
        /\ rows' \in [Pages -> Seq(Seq(Nat))]
    BY <1>1, <2>2
  <2>6. table' \in [Seqs -> Seq(Pages)] /\ Fits' /\ TableRows' /\ TrieRows' /\ Unshared'
    <3>1. DOMAIN trie' \subseteq DOMAIN trie
      BY <2>3
    <3>2. \A q \in DOMAIN trie' : trie'[q] = trie[q] /\ trie'[q] # d
      BY <2>3, <2>4
    <3> HIDE DEF d
    <3> QED
      BY <1>0, <1>2, <2>1, <2>2, <2>4, <2>5, <3>1, <3>2, FreshKept
  <2>7. KvTypes'
    BY <1>0, <1>1, <1>2, <2>2, <2>3, <2>5, <2>6 DEF KvTypes
  <2>8. RefsExact'
    <3>1. Append(table[s], d) \in Seq(Pages) /\ table' = [table EXCEPT ![s] = Append(table[s], d)]
      BY <1>1, <2>1, <2>2
    <3>2. ASSUME NEW p \in Pages
          PROVE  /\ refs'[p] \in Nat /\ Times(p, trie') \in Nat
                 /\ refs'[p] + Times(p, table[s]) + Times(p, trie)
                       = refs[p] + Times(p, Append(table[s], d)) + Times(p, trie')
      <4>1. Times(p, Append(table[s], d)) = Times(p, table[s]) + IF p = d THEN 1 ELSE 0
        BY <1>1, <2>1, TimesAppend
      <4>2. Times(p, table[s]) \in Nat /\ Times(p, trie') \in Nat /\ refs[p] \in Nat
        BY <1>1, <2>3, SeqFinite, TimesIs
      <4>3. Times(p, trie) = Times(p, trie') + IF p = d THEN 1 ELSE 0
        BY <1>1, <2>1, <2>2, TimesWithout DEF d
      <4> QED
        BY <2>2, <4>1, <4>2, <4>3
    <3> QED
      BY <1>0, <3>1, <3>2, RefsKept
  <2>9. Plans'
    BY <1>5, <2>1, <2>2
  <2> QED
    BY <2>6, <2>7, <2>8, <2>9 DEF KvInv
<1> QED
  BY <1>3, <1>4 DEF AllocPage

\* A function extended on N, and the same values over the image of N under an injection.
LEMMA TimesUnion ==
    ASSUME NEW f, IsFiniteSet(DOMAIN f), NEW N, IsFiniteSet(N), N \cap DOMAIN f = {},
           NEW h, DOMAIN h = N, \A q, o \in N : h[q] = h[o] => q = o,
           NEW u, DOMAIN u = DOMAIN f \cup N, \A q \in DOMAIN f : u[q] = f[q],
           NEW x, \A q \in N : h[q] \in DOMAIN x /\ x[h[q]] = u[q],
           \A i \in DOMAIN x : \E q \in N : h[q] = i, NEW p
    PROVE  /\ Times(p, u) = Times(p, f) + Times(p, x)
           /\ IsFiniteSet(DOMAIN u) /\ IsFiniteSet(DOMAIN x)
<1> DEFINE A == {q \in N : u[q] = p}
           k == [q \in A |-> h[q]]
<1>1. IsFiniteSet(DOMAIN u)
  <2>1. IsFiniteSet(DOMAIN f \cup N)
    BY FS_Union
  <2> QED
    BY <2>1
<1>2. IsFiniteSet(DOMAIN x)
  <2>1. DOMAIN x = {h[q] : q \in N}
    OBVIOUS
  <2> QED
    BY <2>1, ImageFinite
<1>3. IsFiniteSet(A)
  BY FS_Subset
<1>4. Where(p, u) = Where(p, f) \cup A /\ Where(p, f) \cap A = {}
  BY DEF Where
<1>5. Cardinality(Where(p, x)) = Cardinality(A)
  <2>1. k \in [A -> Where(p, x)]
    BY DEF Where
  <2>2. \A q, o \in A : k[q] = k[o] => q = o
    OBVIOUS
  <2>3. \A i \in Where(p, x) : \E q \in A : k[q] = i
    <3> TAKE i \in Where(p, x)
    <3>1. i \in DOMAIN x /\ x[i] = p
      BY DEF Where
    <3>2. PICK q \in N : i = h[q]
      BY <3>1
    <3> QED
      BY <3>1, <3>2
  <2> HIDE DEF k, A
  <2> QED
    BY <1>3, <2>1, <2>2, <2>3, SameNumber
<1>6. /\ Times(p, f) = Cardinality(Where(p, f)) /\ IsFiniteSet(Where(p, f))
      /\ Times(p, x) = Cardinality(Where(p, x)) /\ Times(p, u) = Cardinality(Where(p, u))
  BY <1>1, <1>2, TimesIs
<1>7. Cardinality(Where(p, f) \cup A) = Cardinality(Where(p, f)) + Cardinality(A)
  <2> HIDE DEF A
  <2> QED
    BY <1>3, <1>4, <1>6, Disjoint
<1> QED
  BY <1>1, <1>2, <1>4, <1>5, <1>6, <1>7

\* The paths that become nodes: distinct page ends of the sequence's tokens.
LEMMA NewPathsAre ==
    ASSUME KvTypes, Fits, NEW s \in Seqs, held[s] = Len(toks[s])
    PROVE  /\ IsFiniteSet(NewPaths(s)) /\ NewPaths(s) \subseteq Paths
           /\ NewPaths(s) \cap DOMAIN trie = {}
           /\ \A q \in NewPaths(s) : \E k \in Nat \ {0} :
                 /\ q = Prefix(toks[s], Tpp * k) /\ Tpp * k =< Len(toks[s]) /\ Len(q) = Tpp * k
                 /\ Len(q) \div Tpp = k /\ k \in DOMAIN table[s]
           /\ \A q, o \in NewPaths(s) : Len(q) \div Tpp = Len(o) \div Tpp => q = o
<1> DEFINE t == toks[s]
<1>1. /\ t \in Seq(Nat) /\ Len(t) \in Nat /\ Len(t) \in 0..Len(t) /\ Len(t) =< Tpp * Len(table[s])
      /\ Len(table[s]) \in Nat /\ DOMAIN table[s] = 1..Len(table[s])
  BY IndexIs, SeqFinite DEF KvTypes, Fits
<1> HIDE DEF t
<1>2. /\ IsFiniteSet(PathsTo(t, Len(t))) /\ PathsTo(t, Len(t)) \subseteq Paths
      /\ \A q \in PathsTo(t, Len(t)) : \E k \in Nat \ {0} :
            q = Prefix(t, Tpp * k) /\ Tpp * k =< Len(t) /\ Len(q) = Tpp * k
  BY <1>1, PathsToIs
<1>3. NewPaths(s) = PathsTo(t, Len(t)) \ DOMAIN trie
  BY DEF NewPaths, t
<1>4. IsFiniteSet(NewPaths(s))
  BY <1>2, <1>3, FS_Subset
<1>5. ASSUME NEW q \in NewPaths(s)
      PROVE  \E k \in Nat \ {0} :
                 /\ q = Prefix(t, Tpp * k) /\ Tpp * k =< Len(t) /\ Len(q) = Tpp * k
                 /\ Len(q) \div Tpp = k /\ k \in DOMAIN table[s]
  <2>1. PICK k \in Nat \ {0} : q = Prefix(t, Tpp * k) /\ Tpp * k =< Len(t) /\ Len(q) = Tpp * k
    BY <1>2, <1>3
  <2>2. (Tpp * k) \div Tpp = k
    BY Multiple
  <2>3. k =< Len(table[s])
    <3> DEFINE n == Len(table[s])
    <3>0. n \in Nat /\ Len(t) =< Tpp * n
      BY <1>1
    <3> HIDE DEF n
    <3>1. /\ Tpp * k \in Nat /\ Tpp * n \in Nat /\ (Tpp * k < Tpp * n + Tpp => k =< n)
      BY <3>0, TppTimes
    <3>2. Tpp * k < Tpp * n + Tpp
      <4>1. \A a, b, l \in Nat : a =< l /\ l =< b => a < b + Tpp
        BY TppIs
      <4> QED
        BY <1>1, <2>1, <3>0, <3>1, <4>1
    <3> QED
      BY <3>1, <3>2 DEF n
  <2> QED
    BY <1>1, <2>1, <2>2, <2>3
<1> QED
  BY <1>2, <1>3, <1>4, <1>5 DEF t

\* insert: the full pages of a sequence become nodes, and get the cache as an owner.
LEMMA InsertKept ==
    ASSUME KvInv, NEW s \in Seqs, Insert(s)
    PROVE  KvInv'
<1>0. KvTypes /\ Fits /\ RefsExact /\ TableRows /\ TrieRows /\ Unshared /\ Plans
  BY DEF KvInv
<1> DEFINE N == NewPaths(s)
           h == [q \in N |-> Len(q) \div Tpp]
           P == PathsTo(toks[s], Len(toks[s]))
<1>1. /\ held[s] = Len(toks[s])
      /\ trie' = [q \in DOMAIN trie \cup N |->
                    IF q \in DOMAIN trie THEN trie[q] ELSE table[s][Len(q) \div Tpp]]
      /\ use' = Touched(use, P) /\ refs' = Retained(refs, Inserted(s))
      /\ rows' = rows /\ toks' = toks /\ table' = table /\ held' = held /\ plan' = plan
  BY DEF Insert, seqs
<1>2. /\ IsFiniteSet(N) /\ N \subseteq Paths /\ N \cap DOMAIN trie = {}
      /\ \A q \in N : \E k \in Nat \ {0} :
            /\ q = Prefix(toks[s], Tpp * k) /\ Tpp * k =< Len(toks[s]) /\ Len(q) = Tpp * k
            /\ Len(q) \div Tpp = k /\ k \in DOMAIN table[s]
      /\ \A q, o \in N : Len(q) \div Tpp = Len(o) \div Tpp => q = o
  BY <1>0, <1>1, NewPathsAre
<1>3. /\ IsFiniteSet(DOMAIN trie) /\ toks[s] \in Seq(Nat) /\ Len(toks[s]) \in Nat
      /\ table[s] \in Seq(Pages) /\ \A i \in DOMAIN table[s] : table[s][i] \in Pages
      /\ DOMAIN use = DOMAIN trie /\ DOMAIN trie \subseteq Paths /\ trie \in [DOMAIN trie -> Pages]
  BY <1>0, IndexIs, SeqFinite DEF KvTypes
<1>4. N = P \ DOMAIN trie
  BY DEF NewPaths
<1>5. IsFiniteSet(P)
  <2>1. Len(toks[s]) \in 0..Len(toks[s])
    BY <1>3
  <2> QED
    BY <1>3, <2>1, PathsToIs
<1> HIDE DEF N, P
<1>6. /\ DOMAIN trie' = DOMAIN trie \cup N
      /\ \A q \in DOMAIN trie : trie'[q] = trie[q]
      /\ \A q \in N : trie'[q] = table[s][Len(q) \div Tpp]
  BY <1>1, <1>2
<1>7. ASSUME NEW q \in N
      PROVE  \E k \in Nat \ {0} :
                /\ k \in DOMAIN table[s] /\ q = Prefix(toks[s], Tpp * k) /\ Len(q) = Tpp * k
                /\ Tpp * k =< held[s] /\ trie'[q] = table[s][k]
  BY <1>1, <1>2, <1>6
<1>8. ASSUME NEW p \in Pages
      PROVE  /\ Times(p, trie') = Times(p, trie) + Times(p, Inserted(s))
             /\ IsFiniteSet(DOMAIN trie') /\ IsFiniteSet(DOMAIN Inserted(s))
  <2>1. DOMAIN h = N /\ \A q, o \in N : h[q] = h[o] => q = o
    BY <1>2
  <2>2. DOMAIN Inserted(s) = {h[q] : q \in N}
    BY DEF Inserted, N
  <2>3. \A q \in N : h[q] \in DOMAIN Inserted(s) /\ Inserted(s)[h[q]] = trie'[q]
    BY <1>6 DEF Inserted, N
  <2>4. \A i \in DOMAIN Inserted(s) : \E q \in N : h[q] = i
    BY <2>2
  <2>5. IsFiniteSet(DOMAIN trie) /\ IsFiniteSet(N) /\ N \cap DOMAIN trie = {}
    BY <1>2, <1>3
  <2> DEFINE u == trie'
             x == Inserted(s)
  <2>6. /\ DOMAIN u = DOMAIN trie \cup N /\ \A q \in DOMAIN trie : u[q] = trie[q]
        /\ \A q \in N : h[q] \in DOMAIN x /\ x[h[q]] = u[q]
        /\ \A i \in DOMAIN x : \E q \in N : h[q] = i
    BY <1>6, <2>3, <2>4
  <2> HIDE DEF h, u, x
  <2>7. Times(p, u) = Times(p, trie) + Times(p, x) /\ IsFiniteSet(DOMAIN u) /\ IsFiniteSet(DOMAIN x)
    BY <2>1, <2>5, <2>6, TimesUnion
  <2> QED
    BY <2>7 DEF u, x
<1>9. IsFiniteSet(DOMAIN trie') /\ IsFiniteSet(DOMAIN Inserted(s))
  <2>1. IsFiniteSet(DOMAIN trie \cup N)
    BY <1>2, <1>3, FS_Union
  <2>2. DOMAIN Inserted(s) = {h[q] : q \in N} /\ DOMAIN h = N
    BY DEF Inserted, N
  <2> HIDE DEF h
  <2> QED
    BY <1>2, <1>6, <2>1, <2>2, ImageFinite
<1>10. /\ refs' \in [Pages -> Nat]
       /\ \A p \in Pages : refs'[p] = refs[p] + Times(p, Inserted(s))
  BY <1>0, <1>1, <1>9, RetainedIs
<1>11. KvTypes'
  <2>1. use' \in [DOMAIN trie' -> Nat]
    <3>1. Touched(use, P) \in [DOMAIN use \cup P -> Nat]
      BY <1>3, <1>5, TouchedIs
    <3>2. DOMAIN use \cup P = DOMAIN trie'
      BY <1>3, <1>4, <1>6
    <3> QED
      BY <1>1, <3>1, <3>2
  <2>2. trie' \in [DOMAIN trie' -> Pages]
    <3>1. \A q \in DOMAIN trie' : trie'[q] \in Pages
      BY <1>3, <1>6, <1>7
    <3> QED
      BY <1>1, <1>6, <3>1
  <2>3. DOMAIN trie' \subseteq Paths
    BY <1>2, <1>3, <1>6
  <2> QED
    BY <1>0, <1>1, <1>9, <1>10, <2>1, <2>2, <2>3 DEF KvTypes
<1>12. RefsExact'
  <2> SUFFICES ASSUME NEW p \in Pages
               PROVE  refs'[p] = Cardinality(Slots(table, p)) + Times(p, trie')
    BY <1>1 DEF RefsExact
  <2> DEFINE c == Cardinality(Slots(table, p))
             a == Times(p, trie)
             b == Times(p, Inserted(s))
  <2>1. refs[p] = c + a /\ c \in Nat /\ a \in Nat
    BY <1>0, Counts
  <2>2. b \in Nat
    BY <1>9, TimesIs
  <2>3. refs'[p] = refs[p] + b /\ Times(p, trie') = a + b
    BY <1>8, <1>10
  <2> HIDE DEF a, b, c
  <2>4. refs'[p] = c + Times(p, trie')
    BY <2>1, <2>2, <2>3
  <2> QED
    BY <2>4 DEF c
<1>13. Fits' /\ TableRows'
  BY <1>0, <1>1 DEF Fits, TableRows
<1>16. Plans'
  BY <1>0, <1>1 DEF Plans
<1>14. TrieRows'
  <2> SUFFICES ASSUME NEW q \in DOMAIN trie', NEW j \in 1..Tpp
               PROVE  Has(rows'[trie'[q]], j, Prefix(q, Len(q) - Tpp + j))
    BY DEF TrieRows
  <2>1. CASE q \in DOMAIN trie
    BY <1>0, <1>1, <1>6, <2>1 DEF TrieRows
  <2>2. CASE q \in N
    <3>1. PICK k \in Nat \ {0} :
              /\ k \in DOMAIN table[s] /\ q = Prefix(toks[s], Tpp * k) /\ Len(q) = Tpp * k
              /\ Tpp * k =< held[s] /\ trie'[q] = table[s][k]
      BY <1>7, <2>2
    <3> DEFINE m == RowAt(k, j)
               n == Tpp * k
               T == toks[s]
    <3>2. /\ m \in Nat \ {0} /\ n \in Nat /\ m =< n /\ m = n - Tpp + j
      BY RowIs
    <3>3. T \in Seq(Nat) /\ n =< Len(T) /\ Len(T) \in Nat /\ n =< held[s] /\ q = Prefix(T, n) /\ Len(q) = n
      BY <1>1, <1>3, <3>1
    <3>4. held[s] \in Nat
      BY <1>1, <1>3
    <3> HIDE DEF m, n, T
    <3>5. n \in 0..Len(T) /\ m \in 0..n /\ m =< held[s]
      BY <3>2, <3>3, <3>4
    <3>6. Prefix(q, m) = Prefix(T, m)
      BY <3>3, <3>5, PrefixOfPrefix
    <3>7. Has(rows[table[s][k]], j, Prefix(T, m))
      BY <1>0, <3>1, <3>5 DEF TableRows, m, T
    <3>8. Prefix(q, Len(q) - Tpp + j) = Prefix(q, m)
      BY <3>2, <3>3
    <3> QED
      BY <1>1, <3>1, <3>6, <3>7, <3>8
  <2> QED
    BY <1>6, <2>1, <2>2
<1>15. Unshared'
  <2>0. ASSUME NEW o \in Seqs, NEW i \in DOMAIN table[o], Tpp * i > held[o]
        PROVE  /\ \A r \in Seqs : \A k \in DOMAIN table[r] : table[r][k] = table[o][i] => r = o /\ k = i
               /\ \A q \in DOMAIN trie : trie[q] # table[o][i]
    BY <1>0, <2>0 DEF Unshared
  <2> SUFFICES ASSUME NEW o \in Seqs, NEW i \in DOMAIN table'[o], Tpp * i > held'[o]
               PROVE  /\ \A r \in Seqs : \A k \in DOMAIN table'[r] :
                            table'[r][k] = table'[o][i] => r = o /\ k = i
                      /\ \A q \in DOMAIN trie' : trie'[q] # table'[o][i]
    BY DEF Unshared
  <2>00. i \in DOMAIN table[o] /\ Tpp * i > held[o]
    BY <1>1
  <2> SUFFICES ASSUME NEW q \in DOMAIN trie'
               PROVE  trie'[q] # table[o][i]
    <3>1. \A r \in Seqs : \A k \in DOMAIN table[r] : table[r][k] = table[o][i] => r = o /\ k = i
      BY <2>0, <2>00
    <3> QED
      BY <1>1, <3>1
  <2>1. CASE q \in DOMAIN trie
    BY <1>6, <2>0, <2>00, <2>1
  <2>2. CASE q \in N
    <3>1. PICK k \in Nat \ {0} :
              /\ k \in DOMAIN table[s] /\ Tpp * k =< held[s] /\ trie'[q] = table[s][k]
      BY <1>7, <2>2
    <3>2. i \in Nat \ {0} /\ Tpp * i \in Nat /\ Tpp * k \in Nat /\ held[o] \in Nat /\ held[s] \in Nat
      BY <1>0, <2>00, IndexIs, TppTimes DEF KvTypes
    <3>3. SUFFICES ASSUME table[s][k] = table[o][i]
                   PROVE  FALSE
      BY <3>1
    <3>4. s = o /\ k = i
      BY <2>0, <2>00, <3>1, <3>3
    <3> QED
      BY <2>00, <3>1, <3>2, <3>4
  <2> QED
    BY <1>6, <2>1, <2>2
<1> QED
  BY <1>11, <1>12, <1>13, <1>14, <1>15, <1>16 DEF KvInv

LEMMA MinTwo ==
    ASSUME NEW a \in Int, NEW b \in Int
    PROVE  Min({a, b}) \in {a, b} /\ Min({a, b}) =< a /\ Min({a, b}) =< b
<1>1. \E x \in {a, b} : \A y \in {a, b} : x =< y
  OBVIOUS
<1> QED
  BY <1>1 DEF Min

\* The rows of a page that a forward pass writes are those of the sequence's tokens.
LEMMA ComputedIs ==
    ASSUME KvTypes, Fits, TableRows, NEW s \in Seqs, NEW i \in DOMAIN table[s]
    PROVE  /\ Computed(s, i) \in Seq(Seq(Nat))
           /\ \A j \in 1..Tpp : RowAt(i, j) =< Len(toks[s]) =>
                 Has(Computed(s, i), j, Prefix(toks[s], RowAt(i, j)))
<1> DEFINE T == toks[s]
           n == Len(T)
           b == Tpp * (i - 1)
           m == Min({Tpp, n - b})
<1>1. /\ T \in Seq(Nat) /\ n \in Nat /\ i \in Nat \ {0} /\ held[s] \in Nat
  BY IndexIs, SeqFinite DEF KvTypes
<1>2. b \in Nat /\ Tpp \in Nat /\ n - b \in Int
  <2>1. i - 1 \in Nat
    BY <1>1
  <2>2. b \in Nat
    BY <2>1, TppTimes
  <2> HIDE DEF b
  <2> QED
    BY <1>1, <2>2, TppIs
<1>3. m \in {Tpp, n - b} /\ m =< Tpp /\ m =< n - b /\ m \in Int
  <2> DEFINE e == n - b
  <2>1. e \in Int /\ Tpp \in Int /\ m = Min({Tpp, e})
    BY <1>2
  <2> HIDE DEF e, m
  <2>2. m \in {Tpp, e} /\ m =< Tpp /\ m =< e
    BY <2>1, MinTwo
  <2>3. m \in Int
    BY <2>1, <2>2
  <2> QED
    BY <2>2, <2>3 DEF e
<1> DEFINE c == Computed(s, i)
<1>4. /\ DOMAIN c = 1..m
      /\ \A j \in 1..m : c[j] = IF RowAt(i, j) =< held[s] THEN rows[table[s][i]][j]
                                ELSE Prefix(T, RowAt(i, j))
      /\ c = [j \in 1..m |-> c[j]]
  BY DEF Computed, RowAt
<1> HIDE DEF m, b, n, T, c
<1>5. ASSUME NEW j \in 1..m
      PROVE  /\ c[j] = Prefix(T, RowAt(i, j)) \/ (c[j] = Unknown /\ j < Tpp)
             /\ c[j] \in Seq(Nat)
  <2>1. j \in 1..Tpp /\ j \in Nat
    BY <1>2, <1>3
  <2>2. RowAt(i, j) = b + j
    BY <1>1, <2>1, RowIs DEF b
  <2>3. RowAt(i, j) \in 0..n
    BY <1>1, <1>2, <1>3, <2>1, <2>2
  <2>4. c[j] = Prefix(T, RowAt(i, j)) \/ (c[j] = Unknown /\ j < Tpp)
    <3>1. CASE RowAt(i, j) =< held[s]
      <4>1. Has(rows[table[s][i]], j, Prefix(T, RowAt(i, j)))
        BY <2>1, <3>1 DEF TableRows, T
      <4> QED
        BY <1>4, <3>1, <4>1 DEF Has
    <3>2. CASE ~(RowAt(i, j) =< held[s])
      BY <1>4, <3>2
    <3> QED
      BY <3>1, <3>2
  <2>5. Prefix(T, RowAt(i, j)) \in Seq(Nat)
    BY <1>1, <2>3, PrefixIs DEF n
  <2>6. Unknown \in Seq(Nat)
    BY DEF Unknown
  <2> QED
    BY <2>4, <2>5, <2>6
<1>6. c \in Seq(Seq(Nat))
  <2> DEFINE l == IF m < 0 THEN 0 ELSE m
  <2>1. l \in Nat /\ 1..m = 1..l
    BY <1>3
  <2>2. c \in [1..l -> Seq(Nat)]
    BY <1>4, <1>5, <2>1
  <2> HIDE DEF l
  <2> QED
    BY <2>1, <2>2
<1>7. ASSUME NEW j \in 1..Tpp, RowAt(i, j) =< n
      PROVE  Has(c, j, Prefix(T, RowAt(i, j)))
  <2>1. RowAt(i, j) = b + j
    BY <1>1, RowIs DEF b
  <2>2. j \in 1..m
    BY <1>1, <1>2, <1>3, <1>7, <2>1
  <2> QED
    BY <1>4, <1>5, <2>2 DEF Has
<1> QED
  BY <1>6, <1>7 DEF c, n, T

\* The pages that a forward pass writes.
Written(s) == {i \in DOMAIN table[s] : Tpp * i > held[s]}

\* A forward pass writes pages that nobody shares.
LEMMA ForwardWrites ==
    ASSUME KvTypes, Unshared, NEW s \in Seqs, Forward(s)
    PROVE  /\ \A i \in Written(s) : rows'[table[s][i]] = Computed(s, i)
           /\ \A p \in Pages : (\A i \in Written(s) : table[s][i] # p) => rows'[p] = rows[p]
           /\ DOMAIN rows' = Pages
<1>1. \A i \in DOMAIN table[s] : i \in Nat /\ table[s][i] \in Pages
  BY IndexIs
<1>2. held[s] \in Nat
  BY DEF KvTypes
<1>3. \A i \in DOMAIN table[s] : i > held[s] \div Tpp <=> i \in Written(s)
  BY <1>1, <1>2, FullPage DEF Written
<1>4. rows' = [p \in Pages |->
          IF \E i \in Written(s) : table[s][i] = p
          THEN Computed(s, CHOOSE i \in DOMAIN table[s] : table[s][i] = p)
          ELSE rows[p]]
  <2>1. rows' = [p \in Pages |->
          IF \E i \in DOMAIN table[s] : i > held[s] \div Tpp /\ table[s][i] = p
          THEN Computed(s, CHOOSE i \in DOMAIN table[s] : table[s][i] = p)
          ELSE rows[p]]
    BY DEF Forward
  <2>2. \A p : (\E i \in DOMAIN table[s] : i > held[s] \div Tpp /\ table[s][i] = p)
                  <=> \E i \in Written(s) : table[s][i] = p
    BY <1>3 DEF Written
  <2> QED
    BY <2>1, <2>2
<1>5. ASSUME NEW i \in Written(s)
      PROVE  rows'[table[s][i]] = Computed(s, i)
  <2>1. i \in DOMAIN table[s] /\ \A k \in DOMAIN table[s] : table[s][k] = table[s][i] => k = i
    BY DEF Written, Unshared
  <2>2. (CHOOSE k \in DOMAIN table[s] : table[s][k] = table[s][i]) = i
    BY <2>1
  <2>3. table[s][i] \in Pages
    BY <1>1, <2>1
  <2>4. rows'[table[s][i]] = Computed(s, CHOOSE k \in DOMAIN table[s] : table[s][k] = table[s][i])
    BY <1>4, <2>3
  <2> QED
    BY <2>2, <2>4
<1> QED
  BY <1>4, <1>5

\* The forward pass computes the rows of the tokens that have none.
LEMMA ForwardKept ==
    ASSUME KvInv, NEW s \in Seqs, Forward(s)
    PROVE  KvInv'
<1>0. KvTypes /\ Fits /\ RefsExact /\ TableRows /\ TrieRows /\ Unshared /\ Plans
  BY DEF KvInv
<1>1. /\ held[s] < Len(toks[s]) /\ ~(Tpp * Len(table[s]) < Len(toks[s]))
      /\ held' = [held EXCEPT ![s] = Len(toks[s])]
      /\ refs' = refs /\ trie' = trie /\ use' = use /\ toks' = toks /\ table' = table
      /\ plan' = plan /\ plan[s] = NoPlan
      /\ rows' = [p \in Pages |->
          IF \E i \in DOMAIN table[s] : i > held[s] \div Tpp /\ table[s][i] = p
          THEN Computed(s, CHOOSE i \in DOMAIN table[s] : table[s][i] = p)
          ELSE rows[p]]
  BY DEF Forward, NeedsPage, cache
<1>2. /\ \A i \in Written(s) : rows'[table[s][i]] = Computed(s, i)
      /\ \A p \in Pages : (\A i \in Written(s) : table[s][i] # p) => rows'[p] = rows[p]
      /\ DOMAIN rows' = Pages
  BY <1>0, ForwardWrites
<1>3. /\ \A o \in Seqs : held[o] \in Nat /\ Len(toks[o]) \in Nat
      /\ held' \in [Seqs -> Nat] /\ held'[s] = Len(toks[s])
      /\ \A o \in Seqs : o # s => held'[o] = held[o]
      /\ \A o \in Seqs : held[o] =< held'[o]
  <2>1. \A o \in Seqs : held[o] \in Nat /\ toks[o] \in Seq(Nat)
    BY <1>0 DEF KvTypes
  <2>2. \A o \in Seqs : Len(toks[o]) \in Nat
    BY <2>1, SeqFinite
  <2>3. held \in [Seqs -> Nat]
    BY <1>0 DEF KvTypes
  <2>4. held' \in [Seqs -> Nat] /\ held'[s] = Len(toks[s]) /\ \A o \in Seqs : o # s => held'[o] = held[o]
    BY <1>1, <2>2, <2>3
  <2> QED
    BY <1>1, <2>1, <2>2, <2>4
<1>4. KvTypes'
  <2>1. ASSUME NEW p \in Pages
        PROVE  rows'[p] \in Seq(Seq(Nat))
    <3>1. CASE \E i \in Written(s) : table[s][i] = p
      <4>1. PICK i \in Written(s) : table[s][i] = p
        BY <3>1
      <4>2. Computed(s, i) \in Seq(Seq(Nat))
        BY <1>0, ComputedIs DEF Written
      <4> QED
        BY <1>2, <4>1, <4>2
    <3>2. CASE \A i \in Written(s) : table[s][i] # p
      BY <1>0, <1>2, <3>2 DEF KvTypes
    <3> QED
      BY <3>1, <3>2
  <2>2. rows' \in [Pages -> Seq(Seq(Nat))]
    BY <1>1, <2>1
  <2> QED
    BY <1>0, <1>1, <1>3, <2>2 DEF KvTypes
<1>5. RefsExact'
  BY <1>0, <1>1 DEF RefsExact
<1>6. Fits'
  <2>1. ASSUME NEW o \in Seqs
        PROVE  /\ held'[o] =< Len(toks[o]) /\ held'[o] =< Tpp * Len(table[o])
               /\ toks[o] = << >> => table[o] = << >> /\ held'[o] = 0
    <3>1. CASE o = s
      <4>1. Len(<< >>) = 0
        OBVIOUS
      <4>2. toks[s] # << >>
        BY <1>1, <1>3, <4>1
      <4>3. Tpp * Len(table[s]) \in Nat
        BY <1>0, IndexIs, TppTimes
      <4> QED
        BY <1>1, <1>3, <3>1, <4>2, <4>3
    <3>2. CASE o # s
      BY <1>0, <1>3, <3>2 DEF Fits
    <3> QED
      BY <3>1, <3>2
  <2> QED
    BY <1>1, <2>1 DEF Fits
<1>7. TableRows'
  <2>1. ASSUME NEW o \in Seqs, NEW i \in DOMAIN table[o], NEW j \in 1..Tpp, RowAt(i, j) =< held'[o]
        PROVE  Has(rows'[table[o][i]], j, Prefix(toks[o], RowAt(i, j)))
    <3>0. i \in Nat \ {0} /\ table[o][i] \in Pages
      BY <1>0, IndexIs
    <3>1. CASE \E k \in Written(s) : table[s][k] = table[o][i]
      <4>1. PICK k \in Written(s) : table[s][k] = table[o][i]
        BY <3>1
      <4>2. o = s /\ i = k
        BY <1>0, <4>1 DEF Written, Unshared
      <4>3. Has(Computed(s, i), j, Prefix(toks[s], RowAt(i, j)))
        BY <1>0, <1>3, <2>1, <4>2, ComputedIs
      <4> QED
        BY <1>2, <4>1, <4>2, <4>3
    <3>2. CASE \A k \in Written(s) : table[s][k] # table[o][i]
      <4>1. rows'[table[o][i]] = rows[table[o][i]]
        BY <1>2, <3>0, <3>2
      <4>2. RowAt(i, j) =< held[o]
        <5>1. CASE o # s
          BY <1>3, <2>1, <5>1
        <5>2. CASE o = s
          <6>1. ~(Tpp * i > held[s])
            BY <3>2, <5>2 DEF Written
          <6>2. RowAt(i, j) \in Nat /\ Tpp * i \in Nat /\ RowAt(i, j) =< Tpp * i
            BY <3>0, RowIs
          <6> QED
            BY <1>3, <5>2, <6>1, <6>2
        <5> QED
          BY <5>1, <5>2
      <4> QED
        BY <1>0, <4>1, <4>2 DEF TableRows
    <3> QED
      BY <3>1, <3>2
  <2> QED
    BY <1>1, <2>1 DEF TableRows
<1>8. TrieRows'
  <2>1. ASSUME NEW q \in DOMAIN trie
        PROVE  rows'[trie[q]] = rows[trie[q]]
    <3>1. trie[q] \in Pages
      BY <1>0 DEF KvTypes
    <3>2. \A i \in Written(s) : table[s][i] # trie[q]
      BY <1>0 DEF Written, Unshared
    <3> QED
      BY <1>2, <3>1, <3>2
  <2> QED
    BY <1>0, <1>1, <2>1 DEF TrieRows
<1>9. Unshared'
  <2>1. ASSUME NEW o \in Seqs, NEW i \in DOMAIN table[o], Tpp * i > held'[o]
        PROVE  Tpp * i > held[o]
    <3>1. i \in Nat
      BY <1>0, IndexIs
    <3>2. Tpp * i \in Nat
      BY <3>1, TppTimes
    <3> QED
      BY <1>3, <2>1, <3>2
  <2> QED
    BY <1>0, <1>1, <2>1 DEF Unshared
<1>10. Plans'
  <2>1. \A o \in Seqs : Len(table[o]) \in Nat
    BY <1>0, IndexIs
  <2>2. DOMAIN plan = Seqs
    BY <1>0 DEF Plans
  <2> QED
    BY <1>0, <1>1, <1>3, <2>1, <2>2, PlansKept
<1> QED
  BY <1>4, <1>5, <1>6, <1>7, <1>8, <1>9, <1>10 DEF KvInv

\* The pages of the walk hold the rows of the prompt.
LEMMA MatchedRows ==
    ASSUME KvTypes, TrieRows, NEW t \in Seq(Nat), t # << >>
    PROVE  \A i \in DOMAIN Matched(t) :
               /\ i \in Nat \ {0} /\ i =< Len(Matched(t))
               /\ \E q \in DOMAIN trie : trie[q] = Matched(t)[i]
               /\ \A j \in 1..Tpp : Has(rows[Matched(t)[i]], j, Prefix(t, RowAt(i, j)))
<1> DEFINE M == Matched(t)
<1>1. /\ M \in Seq(Pages) /\ Walk(t) = Tpp * Len(M)
      /\ \A i \in 1..Len(M) : Prefix(t, Tpp * i) \in DOMAIN trie /\ M[i] = trie[Prefix(t, Tpp * i)]
  BY MatchedIs
<1>2. Walk(t) \in 0..Len(t)
  BY WalkIs
<1> HIDE DEF M
<1>3. DOMAIN M = 1..Len(M) /\ Len(M) \in Nat /\ Len(t) \in Nat
  BY <1>1, SeqFinite
<1>4. ASSUME NEW i \in DOMAIN M
      PROVE  /\ i \in Nat \ {0} /\ i =< Len(M)
             /\ \E q \in DOMAIN trie : trie[q] = M[i]
             /\ \A j \in 1..Tpp : Has(rows[M[i]], j, Prefix(t, RowAt(i, j)))
  <2> DEFINE a == Tpp * i
             q == Prefix(t, a)
  <2>1. i \in Nat \ {0} /\ i =< Len(M) /\ q \in DOMAIN trie /\ M[i] = trie[q]
    BY <1>1, <1>3
  <2>2. a \in 0..Len(t)
    <3> DEFINE l == Len(M)
    <3>1. l \in Nat /\ i =< l /\ Tpp * l =< Len(t)
      BY <1>1, <1>2, <1>3, <2>1
    <3> HIDE DEF l
    <3>2. a \in Nat /\ Tpp * l \in Nat /\ a =< Tpp * l
      BY <2>1, <3>1, TppTimes
    <3> HIDE DEF a
    <3>3. \A b \in Nat : a =< b /\ b =< Len(t) => a \in 0..Len(t)
      BY <1>3, <3>2
    <3> QED
      BY <3>1, <3>2, <3>3
  <2>3. Len(q) = a
    <3> HIDE DEF a
    <3> QED
      BY <2>2, PrefixIs
  <2>4. ASSUME NEW j \in 1..Tpp
        PROVE  Has(rows[M[i]], j, Prefix(t, RowAt(i, j)))
    <3> DEFINE m == RowAt(i, j)
    <3>1. m \in Nat /\ m =< a /\ m = a - Tpp + j
      BY <2>1, RowIs
    <3> HIDE DEF m, a
    <3>2. m \in 0..a
      BY <2>2, <3>1
    <3>3. Prefix(q, m) = Prefix(t, m)
      BY <2>2, <3>2, PrefixOfPrefix
    <3>4. Has(rows[trie[q]], j, Prefix(q, Len(q) - Tpp + j))
      BY <2>1 DEF TrieRows
    <3> HIDE DEF q
    <3>5. Len(q) - Tpp + j = m
      BY <2>3, <3>1
    <3> QED
      BY <2>1, <3>3, <3>4, <3>5 DEF m
  <2> QED
    BY <2>1, <2>4
<1> QED
  BY <1>4 DEF M

\* The walk ends where the next page's path has no node.
LEMMA WalkEnds ==
    ASSUME KvTypes, NEW t \in Seq(Nat), t # << >>, Walk(t) + Tpp =< Limit(t)
    PROVE  Prefix(t, Walk(t) + Tpp) \notin DOMAIN trie
<1> DEFINE m == Limit(t) \div Tpp
           S == {i \in 0..m : PathsTo(t, i * Tpp) \subseteq DOMAIN trie}
           k == Max(S)
<1>1. Len(t) \in Nat \ {0} /\ Limit(t) \in Nat /\ Limit(t) = Len(t) - 1
  BY EmptySeq DEF Limit
<1>2. m \in Nat /\ \A i \in Nat : i =< m <=> Tpp * i =< Limit(t)
  BY <1>1, FullPage
<1> HIDE DEF m
<1>3. k \in Nat /\ k \in S /\ \A i \in S : k >= i
  <2>1. (0 * Tpp) \div Tpp = 0
    BY Multiple
  <2>2. PathsTo(t, 0 * Tpp) = {}
    BY <2>1 DEF PathsTo
  <2>3. S \subseteq 0..m /\ 0 \in S
    BY <1>2, <2>2
  <2> HIDE DEF S
  <2>4. Max(S) \in S /\ \A i \in S : Max(S) >= i
    BY <1>2, <2>3, MaxIs
  <2>5. Max(S) \in 0..m
    BY <2>3, <2>4
  <2>6. \A i \in 0..m : i \in Nat
    BY <1>2
  <2> QED
    BY <2>4, <2>5, <2>6
<1>4. Walk(t) = Tpp * k
  BY DEF Walk, m
<1>5. PathsTo(t, k * Tpp) \subseteq DOMAIN trie
  BY <1>3
<1> HIDE DEF S, k
<1>6. /\ k + 1 \in Nat /\ Tpp * k \in Nat /\ k * Tpp = Tpp * k
      /\ Tpp * (k + 1) = Walk(t) + Tpp /\ (k + 1) * Tpp = Tpp * (k + 1) /\ Tpp * (k + 1) \in Nat
  BY <1>3, <1>4, TppTimes
<1>7. k + 1 \in 0..m
  BY <1>2, <1>6
<1>8. SUFFICES ASSUME Prefix(t, Walk(t) + Tpp) \in DOMAIN trie
               PROVE  FALSE
  OBVIOUS
<1>9. PathsTo(t, (k + 1) * Tpp) \subseteq DOMAIN trie
  <2>1. Tpp * (k + 1) \in 0..Len(t) /\ Tpp * k \in 0..Len(t)
    BY <1>1, <1>4, <1>6, TppIs
  <2>2. ASSUME NEW q \in PathsTo(t, Tpp * (k + 1))
        PROVE  q \in DOMAIN trie
    <3>1. PICK i \in Nat \ {0} : q = Prefix(t, Tpp * i) /\ Tpp * i =< Tpp * (k + 1)
      BY <2>1, PathsToIs
    <3>2. CASE i =< k
      <4>1. Tpp * i =< Tpp * k
        BY <1>3, <3>2, TppTimes
      <4>2. Prefix(t, Tpp * i) \in PathsTo(t, Tpp * k)
        BY <2>1, <4>1, PathsToIs
      <4> QED
        BY <1>5, <1>6, <3>1, <4>2
    <3>3. CASE k < i
      <4>1. i \in Nat /\ Tpp * i \in Nat /\ Tpp * (k + 1) < Tpp * (k + 1) + Tpp
        BY <1>6, TppIs, TppTimes
      <4>2. Tpp * i < Tpp * (k + 1) + Tpp
        BY <1>6, <3>1, <4>1, TppIs
      <4>3. i =< k + 1
        BY <1>6, <4>1, <4>2, TppTimes
      <4>4. i = k + 1
        BY <1>3, <3>3, <4>1, <4>3
      <4> QED
        BY <1>6, <1>8, <3>1, <4>4
    <3> QED
      BY <1>3, <3>2, <3>3
  <2> QED
    BY <1>6, <2>2
<1>10. k + 1 \in S
  BY <1>7, <1>9 DEF S
<1> QED
  BY <1>3, <1>10

\* What a child of the walk's end shares with the prompt.
LEMMA RunIs ==
    ASSUME KvTypes, NEW t \in Seq(Nat), t # << >>, NEW c \in Children(Prefix(t, Walk(t)))
    PROVE  /\ c \in DOMAIN trie /\ c \in Seq(Nat) /\ Len(c) = Walk(t) + Tpp
           /\ Run(t, c) \in 0..Tpp /\ Walk(t) \in Nat /\ Walk(t) + Run(t, c) =< Limit(t)
           /\ Run(t, c) < Tpp
           /\ Limit(t) < Len(t) /\ Limit(t) \in Nat
           /\ Prefix(c, Walk(t) + Run(t, c)) = Prefix(t, Walk(t) + Run(t, c))
<1> DEFINE w == Walk(t)
           S == {r \in 0..Tpp : w + r =< Limit(t) /\ Prefix(c, w + r) = Prefix(t, w + r)}
<1>1. w \in 0..Len(t) /\ w =< Limit(t)
  BY WalkIs
<1>2. Len(t) \in Nat /\ Limit(t) = Len(t) - 1
  BY SeqFinite DEF Limit
<1> HIDE DEF w
<1>3. Len(Prefix(t, w)) = w
  BY <1>1, PrefixIs
<1>4. c \in DOMAIN trie /\ Len(c) = Len(Prefix(t, w)) + Tpp /\ Prefix(c, Len(Prefix(t, w))) = Prefix(t, w)
  BY DEF Children, w
<1>5. c \in Seq(Nat)
  BY <1>4 DEF KvTypes, Paths
<1>6. S \subseteq 0..Tpp /\ 0 \in S
  <2>1. w + 0 = w /\ 0 \in 0..Tpp
    BY <1>1, TppIs
  <2> QED
    BY <1>1, <1>3, <1>4, <2>1
<1> HIDE DEF S
<1>7. Max(S) \in S
  BY <1>6, MaxIs, TppIs
<1>8. Run(t, c) = Max(S)
  BY DEF Run, S, w
<1>9. /\ Run(t, c) \in 0..Tpp /\ w + Run(t, c) =< Limit(t)
      /\ Prefix(c, w + Run(t, c)) = Prefix(t, w + Run(t, c))
  BY <1>7, <1>8 DEF S
<1>10. Limit(t) \in Nat /\ Limit(t) < Len(t) /\ w \in Nat
  BY <1>1, <1>2
<1>11. Run(t, c) # Tpp
  <2> SUFFICES ASSUME Run(t, c) = Tpp
               PROVE  FALSE
    OBVIOUS
  <2>1. w + Tpp =< Limit(t) /\ Prefix(c, w + Tpp) = Prefix(t, w + Tpp) /\ Len(c) = w + Tpp
    BY <1>3, <1>4, <1>9
  <2>2. Prefix(c, w + Tpp) = c
    BY <1>5, <2>1, PrefixAll
  <2>3. Prefix(t, w + Tpp) \in DOMAIN trie
    BY <1>4, <2>1, <2>2
  <2> QED
    BY <2>1, <2>3, WalkEnds DEF w
<1>12. Run(t, c) < Tpp
  BY <1>9, <1>11, TppIs
<1> QED
  BY <1>3, <1>4, <1>5, <1>9, <1>10, <1>12 DEF w

\* A sequence starts with the pages x, which hold the first n rows of its prompt.
LEMMA StartKept ==
    ASSUME KvTypes, Fits, TableRows, TrieRows, Unshared, NEW s \in Seqs, toks[s] = << >>,
           NEW t \in Seq(Nat), t # << >>, NEW x \in Seq(Pages), NEW n \in Nat,
           n =< Len(t), n =< Tpp * Len(x),
           toks' = [toks EXCEPT ![s] = t], table' = [table EXCEPT ![s] = x],
           held' = [held EXCEPT ![s] = n], trie' = trie,
           \A o \in Seqs : \A i \in DOMAIN table[o] : rows'[table[o][i]] = rows[table[o][i]],
           \A q \in DOMAIN trie : rows'[trie[q]] = rows[trie[q]],
           \A i \in DOMAIN x, j \in 1..Tpp :
               RowAt(i, j) =< n => Has(rows'[x[i]], j, Prefix(t, RowAt(i, j))),
           \A i \in DOMAIN x : Tpp * i > n =>
               /\ \A o \in Seqs : \A k \in DOMAIN table[o] : table[o][k] # x[i]
               /\ \A k \in DOMAIN x : x[k] = x[i] => k = i
               /\ \A q \in DOMAIN trie : trie[q] # x[i],
           \A o \in Seqs : \A k \in DOMAIN table[o] : Tpp * k > held[o] =>
               \A i \in DOMAIN x : x[i] # table[o][k]
    PROVE  Fits' /\ TableRows' /\ TrieRows' /\ Unshared'
<1>1. /\ toks \in [Seqs -> Seq(Nat)] /\ table \in [Seqs -> Seq(Pages)] /\ held \in [Seqs -> Nat]
  BY DEF KvTypes
<1>2. /\ toks'[s] = t /\ table'[s] = x /\ held'[s] = n
      /\ \A o \in Seqs : o # s => toks'[o] = toks[o] /\ table'[o] = table[o] /\ held'[o] = held[o]
  BY <1>1
<1>3. Fits'
  <2>1. ASSUME NEW o \in Seqs
        PROVE  /\ held'[o] =< Len(toks'[o]) /\ held'[o] =< Tpp * Len(table'[o])
               /\ toks'[o] = << >> => table'[o] = << >> /\ held'[o] = 0
    <3>1. CASE o = s
      BY <1>2, <3>1
    <3>2. CASE o # s
      BY <1>2, <3>2 DEF Fits
    <3> QED
      BY <3>1, <3>2
  <2> QED
    BY <2>1 DEF Fits
<1>4. TableRows'
  <2>1. ASSUME NEW o \in Seqs, NEW i \in DOMAIN table'[o], NEW j \in 1..Tpp, RowAt(i, j) =< held'[o]
        PROVE  Has(rows'[table'[o][i]], j, Prefix(toks'[o], RowAt(i, j)))
    <3>1. CASE o = s
      BY <1>2, <2>1, <3>1
    <3>2. CASE o # s
      <4>1. i \in DOMAIN table[o] /\ RowAt(i, j) =< held[o]
        BY <1>2, <2>1, <3>2
      <4>2. Has(rows[table[o][i]], j, Prefix(toks[o], RowAt(i, j)))
        BY <4>1 DEF TableRows
      <4> QED
        BY <1>2, <3>2, <4>1, <4>2
    <3> QED
      BY <3>1, <3>2
  <2> QED
    BY <2>1 DEF TableRows
<1>5. TrieRows'
  BY DEF TrieRows
<1>6. Unshared'
  <2>1. ASSUME NEW o \in Seqs, NEW i \in DOMAIN table'[o], Tpp * i > held'[o]
        PROVE  /\ \A r \in Seqs : \A k \in DOMAIN table'[r] :
                      table'[r][k] = table'[o][i] => r = o /\ k = i
               /\ \A q \in DOMAIN trie' : trie'[q] # table'[o][i]
    <3>1. CASE o = s
      <4>1. i \in DOMAIN x /\ Tpp * i > n /\ table'[o][i] = x[i]
        BY <1>2, <2>1, <3>1
      <4>2. /\ \A r \in Seqs : \A k \in DOMAIN table[r] : table[r][k] # x[i]
            /\ \A k \in DOMAIN x : x[k] = x[i] => k = i
            /\ \A q \in DOMAIN trie : trie[q] # x[i]
        BY <4>1
      <4> QED
        BY <1>2, <3>1, <4>1, <4>2
    <3>2. CASE o # s
      <4>1. i \in DOMAIN table[o] /\ Tpp * i > held[o] /\ table'[o][i] = table[o][i]
        BY <1>2, <2>1, <3>2
      <4>2. /\ \A r \in Seqs : \A k \in DOMAIN table[r] : table[r][k] = table[o][i] => r = o /\ k = i
            /\ \A q \in DOMAIN trie : trie[q] # table[o][i]
        BY <4>1 DEF Unshared
      <4>3. \A k \in DOMAIN x : x[k] # table[o][i]
        BY <4>1
      <4> QED
        BY <1>2, <3>2, <4>1, <4>2, <4>3
    <3> QED
      BY <3>1, <3>2
  <2> QED
    BY <2>1 DEF Unshared
<1> QED
  BY <1>3, <1>4, <1>5, <1>6

\* What a sequence that starts changes besides the rows.
LEMMA StartTypes ==
    ASSUME KvTypes, NEW s \in Seqs, NEW t \in Seq(Nat), NEW x \in Seq(Pages), NEW n \in Nat,
           toks' = [toks EXCEPT ![s] = t], table' = [table EXCEPT ![s] = x],
           held' = [held EXCEPT ![s] = n], trie' = trie,
           refs' \in [Pages -> Nat], rows' \in [Pages -> Seq(Seq(Nat))],
           NEW P, IsFiniteSet(P), P \subseteq DOMAIN trie, use' = Touched(use, P)
    PROVE  KvTypes'
<1>1. DOMAIN use = DOMAIN trie /\ IsFiniteSet(DOMAIN trie)
  BY DEF KvTypes
<1>2. use' \in [DOMAIN use \cup P -> Nat]
  BY <1>1, TouchedIs
<1>3. DOMAIN use \cup P = DOMAIN trie
  BY <1>1
<1>4. use' \in [DOMAIN trie -> Nat]
  BY <1>2, <1>3
<1>5. toks' \in [Seqs -> Seq(Nat)] /\ table' \in [Seqs -> Seq(Pages)] /\ held' \in [Seqs -> Nat]
  BY DEF KvTypes
<1> QED
  BY <1>4, <1>5 DEF KvTypes

\* A sequence that has not started has nothing to copy.
LEMMA EmptyPlan ==
    ASSUME KvTypes, Fits, Plans, NEW s \in Seqs, toks[s] = << >>
    PROVE  plan[s] = NoPlan
<1>1. held[s] = 0 /\ Len(toks[s]) = 0
  BY DEF Fits
<1> QED
  BY <1>1, NothingPlanned

\* What match_prefix does in either case: no row is written.
Started(s, t) == held' = [held EXCEPT ![s] = Walk(t)] /\ rows' = rows

\* match_prefix that shares whole pages only.
LEMMA WholeKept ==
    ASSUME KvInv, NEW s \in Seqs, NEW t \in Seq(Nat), t # << >>, toks[s] = << >>,
           toks' = [toks EXCEPT ![s] = t], trie' = trie, Started(s, t), MatchWhole(s, t)
    PROVE  KvInv'
<1>0. KvTypes /\ Fits /\ RefsExact /\ TableRows /\ TrieRows /\ Unshared /\ Plans
  BY DEF KvInv
<1> DEFINE x == Matched(t)
           n == Walk(t)
<1>1. /\ table' = [table EXCEPT ![s] = x] /\ held' = [held EXCEPT ![s] = n]
      /\ refs' = Retained(refs, x) /\ use' = Touched(use, PathsTo(t, n)) /\ rows' = rows
      /\ plan' = plan
  BY DEF MatchWhole, Started
<1>2. x \in Seq(Pages) /\ n = Tpp * Len(x)
  BY <1>0, MatchedIs
<1>3. n \in 0..Len(t) /\ PathsTo(t, n) \subseteq DOMAIN trie
  BY WalkIs
<1>4. \A i \in DOMAIN x :
          /\ i \in Nat \ {0} /\ i =< Len(x) /\ \E q \in DOMAIN trie : trie[q] = x[i]
          /\ \A j \in 1..Tpp : Has(rows[x[i]], j, Prefix(t, RowAt(i, j)))
  BY <1>0, MatchedRows
<1> HIDE DEF x, n
<1>5. n \in Nat /\ n =< Len(t) /\ n =< Tpp * Len(x)
  <2>1. Len(t) \in Nat
    BY SeqFinite
  <2>2. n \in Nat /\ n =< Len(t)
    BY <1>3, <2>1
  <2> QED
    BY <1>2, <2>2
<1>6. \A i \in DOMAIN x : ~(Tpp * i > n)
  <2> SUFFICES ASSUME NEW i \in DOMAIN x
               PROVE  ~(Tpp * i > n)
    OBVIOUS
  <2> DEFINE l == Len(x)
  <2>1. i \in Nat /\ l \in Nat /\ i =< l /\ n = Tpp * l
    BY <1>2, <1>4, SeqFinite
  <2> HIDE DEF l
  <2>2. Tpp * i \in Nat /\ Tpp * l \in Nat /\ Tpp * i =< Tpp * l
    BY <2>1, TppTimes
  <2> QED
    BY <2>1, <2>2
<1>7. \A o \in Seqs : \A k \in DOMAIN table[o] : Tpp * k > held[o] =>
          \A i \in DOMAIN x : x[i] # table[o][k]
  BY <1>0, <1>4 DEF Unshared
<1>8. Fits' /\ TableRows' /\ TrieRows' /\ Unshared'
  <2>1. \A i \in DOMAIN x, j \in 1..Tpp :
            RowAt(i, j) =< n => Has(rows'[x[i]], j, Prefix(t, RowAt(i, j)))
    BY <1>1, <1>4
  <2>2. \A i \in DOMAIN x : Tpp * i > n =>
            /\ \A o \in Seqs : \A k \in DOMAIN table[o] : table[o][k] # x[i]
            /\ \A k \in DOMAIN x : x[k] = x[i] => k = i
            /\ \A q \in DOMAIN trie : trie[q] # x[i]
    BY <1>6
  <2>3. /\ \A o \in Seqs : \A i \in DOMAIN table[o] : rows'[table[o][i]] = rows[table[o][i]]
        /\ \A q \in DOMAIN trie : rows'[trie[q]] = rows[trie[q]]
    BY <1>1
  <2>4. x \in Seq(Pages) /\ table' = [table EXCEPT ![s] = x] /\ held' = [held EXCEPT ![s] = n]
    BY <1>1, <1>2
  <2>5. KvTypes /\ Fits /\ TableRows /\ TrieRows /\ Unshared
    BY <1>0
  <2> QED
    BY <1>5, <1>7, <2>1, <2>2, <2>3, <2>4, <2>5, StartKept, ZenonT(60)
<1>9. /\ refs' \in [Pages -> Nat]
      /\ \A p \in Pages : refs'[p] = refs[p] + Times(p, x)
  <2>1. IsFiniteSet(DOMAIN x)
    BY <1>2, SeqFinite
  <2> QED
    BY <1>0, <1>1, <2>1, RetainedIs
<1>10. KvTypes'
  <2>1. IsFiniteSet(PathsTo(t, n))
    BY <1>3, PathsToIs
  <2>2. rows' \in [Pages -> Seq(Seq(Nat))]
    BY <1>0, <1>1 DEF KvTypes
  <2> QED
    BY <1>0, <1>1, <1>2, <1>3, <1>5, <1>9, <2>1, <2>2, StartTypes
<1>11. RefsExact'
  <2>1. table[s] = << >>
    BY <1>0 DEF Fits
  <2>2. ASSUME NEW p \in Pages
        PROVE  /\ refs'[p] \in Nat /\ Times(p, trie') \in Nat
               /\ refs'[p] + Times(p, table[s]) + Times(p, trie)
                     = refs[p] + Times(p, x) + Times(p, trie')
    <3>1. Times(p, table[s]) = 0
      BY <2>1, TimesEmpty
    <3>2. Times(p, trie) \in Nat /\ refs[p] \in Nat
      BY <1>0, TimesIs DEF KvTypes
    <3>3. Times(p, x) \in Nat
      BY <1>2, SeqFinite, TimesIs
    <3>4. refs'[p] = refs[p] + Times(p, x)
      BY <1>9
    <3> QED
      BY <3>1, <3>2, <3>3, <3>4
  <2>3. KvTypes /\ RefsExact /\ table' = [table EXCEPT ![s] = x]
    BY <1>0, <1>1
  <2> QED
    BY <1>2, <2>2, <2>3, RefsKept
<1>12. Plans'
  <2>1. /\ \A o \in Seqs : o # s => toks'[o] = toks[o] /\ table'[o] = table[o] /\ held'[o] = held[o]
        /\ \A o \in Seqs : Len(table[o]) \in Nat /\ DOMAIN plan = Seqs
    BY <1>0, <1>1, IndexIs DEF KvTypes, Plans
  <2>2. plan[s] = NoPlan
    BY <1>0, EmptyPlan
  <2> QED
    BY <1>0, <1>1, <2>1, <2>2, PlansKept
<1> QED
  BY <1>8, <1>10, <1>11, <1>12 DEF KvInv

\* The rows that a caller copies are those of its prompt, or unknown.
LEMMA CopiedRows ==
    ASSUME KvTypes, TrieRows, NEW t \in Seq(Nat), NEW h \in Nat, NEW n, NEW c,
           Planned(t, h, n, c)
    PROVE  /\ Copied(c) \in Seq(Seq(Nat))
           /\ \A j \in 1..c.tokens : Has(Copied(c), j, Prefix(t, h + j))
<1> DEFINE r == c.tokens
           q == c.path
           R == rows[c.src]
<1>1. /\ q \in Seq(Nat) /\ Len(q) = h + Tpp /\ r \in Nat /\ r < Tpp /\ h + r < Len(t)
      /\ Prefix(q, h + r) = Prefix(t, h + r)
  BY DEF Planned
<1>2. Tpp \in Nat /\ Tpp \in 1..Tpp /\ Len(t) \in Nat
  BY SeqFinite, TppIs
<1>3. CASE q \in DOMAIN trie /\ trie[q] = c.src
  <2>1. Copied(c) = Prefix(R, r)
    BY <1>3 DEF Copied
  <2>2. R \in Seq(Seq(Nat)) /\ \A j \in 1..Tpp : Has(R, j, Prefix(q, Len(q) - Tpp + j))
    BY <1>3 DEF TrieRows, KvTypes
  <2> HIDE DEF r, q, R
  <2>3. Len(R) \in Nat /\ DOMAIN R = 1..Len(R)
    BY <2>2, SeqFinite
  <2>4. r \in 0..Len(R)
    <3>1. Tpp \in DOMAIN R
      BY <1>2, <2>2 DEF Has
    <3> QED
      BY <1>1, <1>2, <2>3, <3>1
  <2>5. /\ Prefix(R, r) \in Seq(Seq(Nat)) /\ Len(Prefix(R, r)) = r
        /\ \A j \in 1..r : Prefix(R, r)[j] = R[j]
    BY <2>2, <2>4, PrefixIs
  <2>6. ASSUME NEW j \in 1..r
        PROVE  Has(Prefix(R, r), j, Prefix(t, h + j))
    <3> DEFINE m == h + r
               k == h + j
    <3>1. /\ j \in 1..Tpp /\ m \in 0..Len(t) /\ m \in 0..Len(q) /\ k \in 0..m
          /\ Len(q) - Tpp + j = k
      BY <1>1, <1>2
    <3>2. Prefix(q, m) = Prefix(t, m)
      BY <1>1
    <3>3. Has(R, j, Prefix(q, k))
      BY <2>2, <3>1
    <3> HIDE DEF m, k
    <3>4. Prefix(Prefix(q, m), k) = Prefix(q, k)
      BY <1>1, <3>1, PrefixOfPrefix
    <3>5. Prefix(Prefix(t, m), k) = Prefix(t, k)
      BY <3>1, PrefixOfPrefix
    <3>6. Has(R, j, Prefix(t, k))
      BY <3>2, <3>3, <3>4, <3>5
    <3>7. j \in DOMAIN Prefix(R, r)
      <4>1. DOMAIN Prefix(R, r) = 1..Len(Prefix(R, r))
        BY <2>5, SeqFinite
      <4> QED
        BY <2>5, <4>1
    <3> QED
      BY <2>5, <3>6, <3>7 DEF Has, k
  <2> QED
    BY <2>1, <2>5, <2>6 DEF r
<1>4. CASE ~(q \in DOMAIN trie /\ trie[q] = c.src)
  <2>1. Copied(c) = [j \in 1..r |-> Unknown]
    BY <1>4 DEF Copied
  <2> HIDE DEF r, q, R
  <2>2. Unknown \in Seq(Nat)
    BY DEF Unknown
  <2>3. Copied(c) \in [1..r -> Seq(Nat)]
    BY <2>1, <2>2
  <2>4. Copied(c) \in Seq(Seq(Nat))
    BY <1>1, <2>3
  <2>5. \A j \in 1..r : j < Tpp
    BY <1>1, <1>2
  <2>6. \A j \in 1..r : Has(Copied(c), j, Prefix(t, h + j))
    BY <2>1, <2>5 DEF Has
  <2> QED
    BY <2>4, <2>6 DEF r
<1> QED
  BY <1>3, <1>4

\* The page a copy goes to has no other owner.
LEMMA DstIs ==
    ASSUME KvTypes, Fits, Unshared, Plans, NEW s \in Seqs, plan[s] # NoPlan
    PROVE  \E i \in Nat \ {0} :
              /\ i \in DOMAIN table[s] /\ Dst(s) = table[s][i] /\ Dst(s) \in Pages
              /\ Tpp * (i - 1) = held[s] /\ Tpp * i = held[s] + Tpp
              /\ Tpp * i =< Tpp * Len(table[s]) /\ Tpp * Len(table[s]) \in Nat
              /\ \A o \in Seqs : \A k \in DOMAIN table[o] : table[o][k] = Dst(s) => o = s /\ k = i
              /\ \A q \in DOMAIN trie : trie[q] # Dst(s)
<1>1. PICK k \in Nat : held[s] = Tpp * k /\ k + 1 =< Len(table[s])
  BY DEF Plans, Planned
<1> DEFINE i == k + 1
<1>2. i \in Nat \ {0} /\ i \in DOMAIN table[s] /\ i - 1 = k /\ Len(table[s]) \in Nat
  BY <1>1, IndexIs
<1>3. held[s] \div Tpp = k
  BY <1>1, Multiple
<1>4. Dst(s) = table[s][i]
  BY <1>3 DEF Dst
<1>5. held[s] \in Nat /\ Tpp \in Nat /\ Tpp > 0
  BY TppIs DEF KvTypes
<1>6. Tpp * i = held[s] + Tpp /\ Tpp * (i - 1) = held[s]
  BY <1>1, <1>2, TppTimes
<1> HIDE DEF i
<1>7. Tpp * i =< Tpp * Len(table[s]) /\ Tpp * Len(table[s]) \in Nat
  <2> DEFINE l == Len(table[s])
  <2>1. i \in Nat /\ l \in Nat /\ i =< l
    BY <1>1, <1>2 DEF i
  <2> HIDE DEF l
  <2>2. Tpp * i =< Tpp * l /\ Tpp * l \in Nat
    BY <2>1, TppTimes
  <2> QED
    BY <2>2 DEF l
<1>8. Tpp * i > held[s]
  BY <1>5, <1>6
<1>9. /\ \A o \in Seqs : \A j \in DOMAIN table[o] : table[o][j] = table[s][i] => o = s /\ j = i
      /\ \A q \in DOMAIN trie : trie[q] # table[s][i]
  BY <1>2, <1>8 DEF Unshared
<1>10. table[s][i] \in Pages
  BY <1>2, IndexIs
<1> QED
  BY <1>2, <1>4, <1>6, <1>7, <1>9, <1>10

\* The caller makes its copy, while the source is cached or after that.
LEMMA CopyPageKept ==
    ASSUME KvInv, NEW s \in Seqs, CopyPage(s)
    PROVE  KvInv'
<1>0. KvTypes /\ Fits /\ RefsExact /\ TableRows /\ TrieRows /\ Unshared /\ Plans
  BY DEF KvInv
<1> DEFINE c == plan[s]
           r == c.tokens
           h == held[s]
           d == Dst(s)
           C == Copied(c)
           T == toks[s]
<1>1. /\ c # NoPlan /\ rows' = [rows EXCEPT ![d] = C] /\ held' = [held EXCEPT ![s] = h + r]
      /\ plan' = [plan EXCEPT ![s] = NoPlan]
      /\ refs' = refs /\ trie' = trie /\ use' = use /\ toks' = toks /\ table' = table
  BY DEF CopyPage, cache
<1>2. PICK i \in Nat \ {0} :
          /\ i \in DOMAIN table[s] /\ d = table[s][i] /\ d \in Pages
          /\ Tpp * (i - 1) = h /\ Tpp * i = h + Tpp
          /\ Tpp * i =< Tpp * Len(table[s]) /\ Tpp * Len(table[s]) \in Nat
          /\ \A o \in Seqs : \A k \in DOMAIN table[o] : table[o][k] = d => o = s /\ k = i
          /\ \A q \in DOMAIN trie : trie[q] # d
  BY <1>0, <1>1, DstIs
<1>3. Planned(T, h, Len(table[s]), c)
  BY <1>0, <1>1 DEF Plans
<1>4. /\ rows \in [Pages -> Seq(Seq(Nat))] /\ held \in [Seqs -> Nat] /\ h \in Nat
      /\ T \in Seq(Nat) /\ Len(T) \in Nat /\ Tpp \in Nat /\ DOMAIN plan = Seqs
  <2>1. T \in Seq(Nat)
    BY <1>0 DEF KvTypes
  <2> QED
    BY <1>0, <2>1, SeqFinite, TppIs DEF KvTypes, Plans
<1>5. C \in Seq(Seq(Nat)) /\ \A j \in 1..r : Has(C, j, Prefix(T, h + j))
  BY <1>0, <1>3, <1>4, CopiedRows
<1>6. r \in Nat /\ r < Tpp /\ h + r < Len(T)
  BY <1>3 DEF Planned
<1> HIDE DEF c, r, h, d, C, T
<1>7. /\ held'[s] = h + r /\ h + r \in Nat /\ held' \in [Seqs -> Nat]
      /\ \A o \in Seqs : o # s => held'[o] = held[o]
      /\ \A o \in Seqs : held[o] \in Nat /\ held[o] =< held'[o]
  <2>1. held'[s] = h + r /\ h + r \in Nat /\ \A o \in Seqs : o # s => held'[o] = held[o]
    BY <1>1, <1>4, <1>6
  <2>2. held' \in [Seqs -> Nat]
    BY <1>1, <1>4, <2>1
  <2>3. h =< h + r /\ h = held[s]
    BY <1>4, <1>6 DEF h
  <2>4. ASSUME NEW o \in Seqs
        PROVE  held[o] \in Nat /\ held[o] =< held'[o]
    <3>1. held[o] \in Nat
      BY <1>4
    <3> QED
      BY <2>1, <2>3, <3>1
  <2> QED
    BY <2>1, <2>2, <2>4
<1>8. /\ rows' \in [Pages -> Seq(Seq(Nat))] /\ rows'[d] = C
      /\ \A p \in Pages : p # d => rows'[p] = rows[p]
  BY <1>1, <1>2, <1>4, <1>5
<1>9. KvTypes'
  BY <1>0, <1>1, <1>7, <1>8 DEF KvTypes
<1>10. RefsExact'
  BY <1>0, <1>1 DEF RefsExact
<1>11. Fits'
  <2>1. ASSUME NEW o \in Seqs
        PROVE  /\ held'[o] =< Len(toks[o]) /\ held'[o] =< Tpp * Len(table[o])
               /\ toks[o] = << >> => table[o] = << >> /\ held'[o] = 0
    <3>1. CASE o = s
      <4>1. h + r =< Len(T) /\ h + r =< Tpp * Len(table[s])
        <5> DEFINE a == Tpp * i
                   b == Tpp * Len(table[s])
        <5>1. a = h + Tpp /\ a =< b /\ b \in Nat
          BY <1>2
        <5> HIDE DEF a, b
        <5>2. h + r =< Len(T) /\ h + r =< b
          BY <1>4, <1>6, <1>7, <5>1
        <5> QED
          BY <5>2 DEF b
      <4>2. toks[s] # << >>
        <5>1. Len(T) # 0 /\ Len(<< >>) = 0
          BY <1>4, <1>6, <1>7
        <5> QED
          BY <5>1 DEF T
      <4> QED
        BY <1>7, <3>1, <4>1, <4>2 DEF T
    <3>2. CASE o # s
      BY <1>0, <1>7, <3>2 DEF Fits
    <3> QED
      BY <3>1, <3>2
  <2> QED
    BY <1>1, <2>1 DEF Fits
<1>12. TableRows'
  <2>1. ASSUME NEW o \in Seqs, NEW k \in DOMAIN table[o], NEW j \in 1..Tpp, RowAt(k, j) =< held'[o]
        PROVE  Has(rows'[table[o][k]], j, Prefix(toks[o], RowAt(k, j)))
    <3>0. k \in Nat \ {0} /\ table[o][k] \in Pages
      BY <1>0, IndexIs
    <3>1. CASE table[o][k] = d
      <4>1. o = s /\ k = i
        BY <1>2, <3>1
      <4>2. RowAt(i, j) = h + j
        BY <1>2 DEF RowAt
      <4>3. j \in 1..r
        BY <1>4, <1>6, <1>7, <2>1, <4>1, <4>2
      <4> QED
        BY <1>5, <1>8, <3>1, <4>1, <4>2, <4>3 DEF T
    <3>2. CASE table[o][k] # d
      <4>1. RowAt(k, j) =< held[o]
        <5>1. CASE o # s
          BY <1>7, <2>1, <5>1
        <5>2. CASE o = s
          <6>1. k # i /\ k - 1 \in Nat /\ i - 1 \in Nat
            BY <1>2, <3>0, <3>2, <5>2
          <6>2. /\ RowAt(k, j) \in Nat /\ RowAt(k, j) =< Tpp * k /\ Tpp * (k - 1) < RowAt(k, j)
                /\ Tpp * k \in Nat /\ Tpp * (k - 1) \in Nat
            BY <3>0, RowIs
          <6>3. CASE k < i
            <7>1. k =< i - 1
              BY <3>0, <6>1, <6>3
            <7>2. Tpp * k =< Tpp * (i - 1)
              BY <3>0, <6>1, <7>1, TppTimes
            <7>3. Tpp * k =< h
              BY <1>2, <7>2
            <7> QED
              BY <1>4, <5>2, <6>2, <7>3 DEF h
          <6>4. CASE i < k
            <7>1. i =< k - 1
              BY <3>0, <6>1, <6>4
            <7>2. Tpp * i =< Tpp * (k - 1)
              BY <6>1, <7>1, TppTimes
            <7>3. h + Tpp =< Tpp * (k - 1)
              BY <1>2, <7>2
            <7>4. RowAt(k, j) =< h + r
              BY <1>7, <2>1, <5>2
            <7> QED
              BY <1>4, <1>6, <6>2, <7>3, <7>4
          <6> QED
            BY <3>0, <6>1, <6>3, <6>4
        <5> QED
          BY <5>1, <5>2
      <4>2. rows'[table[o][k]] = rows[table[o][k]]
        BY <1>8, <3>0, <3>2
      <4> QED
        BY <1>0, <4>1, <4>2 DEF TableRows
    <3> QED
      BY <3>1, <3>2
  <2> QED
    BY <1>1, <2>1 DEF TableRows
<1>13. TrieRows'
  <2>1. ASSUME NEW q \in DOMAIN trie
        PROVE  rows'[trie[q]] = rows[trie[q]]
    BY <1>0, <1>2, <1>8 DEF KvTypes
  <2> QED
    BY <1>0, <1>1, <2>1 DEF TrieRows
<1>14. Unshared'
  <2>1. ASSUME NEW o \in Seqs, NEW k \in DOMAIN table[o], Tpp * k > held'[o]
        PROVE  Tpp * k > held[o]
    <3>1. k \in Nat
      BY <1>0, IndexIs
    <3>2. Tpp * k \in Nat
      BY <3>1, TppTimes
    <3>3. held[o] \in Nat /\ held'[o] \in Nat /\ held[o] =< held'[o]
      BY <1>7
    <3> QED
      BY <2>1, <3>2, <3>3
  <2> QED
    BY <1>0, <1>1, <2>1 DEF Unshared
<1>15. Plans'
  <2>1. DOMAIN plan' = Seqs /\ \A o \in Seqs : plan'[o] = IF o = s THEN NoPlan ELSE plan[o]
    BY <1>1, <1>4
  <2>2. \A o \in Seqs : Len(table[o]) \in Nat
    BY <1>0, IndexIs
  <2> QED
    BY <1>0, <1>1, <1>7, <2>1, <2>2, PlansKept
<1> QED
  BY <1>9, <1>10, <1>11, <1>12, <1>13, <1>14, <1>15 DEF KvInv

\* match_prefix that shares whole pages and plans the copy of one more.
LEMMA CopyKept ==
    ASSUME KvInv, NEW s \in Seqs, NEW t \in Seq(Nat), t # << >>, toks[s] = << >>,
           toks' = [toks EXCEPT ![s] = t], trie' = trie, Started(s, t), Free # {},
           NEW c \in Children(Prefix(t, Walk(t))), MatchCopy(s, t, c)
    PROVE  KvInv'
<1>0. KvTypes /\ Fits /\ RefsExact /\ TableRows /\ TrieRows /\ Unshared /\ Plans
  BY DEF KvInv
<1> DEFINE M == Matched(t)
           w == Walk(t)
           r == Run(t, c)
           d == Min(Free)
           x == Append(M, d)
           n == w
           l == Len(M)
           C == [path |-> c, src |-> trie[c], tokens |-> r]
           P == PathsTo(t, w) \cup {c}
<1>1. /\ table' = [table EXCEPT ![s] = x] /\ held' = [held EXCEPT ![s] = n]
      /\ refs' = [Retained(refs, M) EXCEPT ![d] = 1] /\ use' = Touched(use, P)
      /\ rows' = rows /\ plan' = [plan EXCEPT ![s] = C]
  BY DEF MatchCopy, Started
<1>2. M \in Seq(Pages) /\ w = Tpp * l
  BY <1>0, MatchedIs
<1>3. w \in 0..Len(t) /\ PathsTo(t, w) \subseteq DOMAIN trie
  BY WalkIs
<1>4. \A i \in DOMAIN M :
          /\ i \in Nat \ {0} /\ i =< l /\ \E q \in DOMAIN trie : trie[q] = M[i]
          /\ \A j \in 1..Tpp : Has(rows[M[i]], j, Prefix(t, RowAt(i, j)))
  BY <1>0, MatchedRows
<1>5. /\ c \in DOMAIN trie /\ c \in Seq(Nat) /\ Len(c) = w + Tpp
      /\ r \in Nat /\ r < Tpp /\ w \in Nat /\ w + r =< Limit(t)
      /\ Limit(t) < Len(t) /\ Limit(t) \in Nat
      /\ Prefix(c, w + r) = Prefix(t, w + r)
  BY <1>0, RunIs, TppIs
<1>6. C.path = c /\ C.tokens = r
  OBVIOUS
<1>7. d \in Pages /\ refs[d] = 0
  <2>1. Free \subseteq Nat
    BY PoolAssumption DEF Free
  <2>2. d \in Free
    BY <2>1, MinIs
  <2> QED
    BY <2>2 DEF Free
<1>8. /\ \A o \in Seqs : \A i \in DOMAIN table[o] : table[o][i] # d
      /\ \A q \in DOMAIN trie : trie[q] # d
  <2> HIDE DEF d
  <2> QED
    BY <1>0, <1>7, NoOwner
<1> HIDE DEF M, w, r, d, C
<1>9. /\ x \in Seq(Pages) /\ Len(x) = l + 1 /\ l \in Nat /\ Len(x) \in Nat
      /\ DOMAIN x = 1..(l + 1) /\ DOMAIN M = 1..l
      /\ \A i \in 1..l : x[i] = M[i]
      /\ x[l + 1] = d
  BY <1>2, <1>7, AppendProperties, SeqFinite
<1> HIDE DEF x, l
<1>10. \A i \in DOMAIN x : i = l + 1 \/ (i \in DOMAIN M /\ i \in Nat /\ i =< l /\ x[i] = M[i] /\ x[i] # d)
  BY <1>4, <1>8, <1>9
<1>11. Tpp * (l + 1) = w + Tpp
  BY <1>2, <1>9, TppTimes
<1>12. n \in Nat /\ n =< Len(t) /\ n =< Tpp * Len(x)
  <2>1. Len(t) \in Nat /\ Tpp \in Nat
    BY SeqFinite, TppIs
  <2>2. n \in Nat /\ n =< Len(t) /\ n =< w + Tpp
    BY <1>3, <1>5, <2>1
  <2> QED
    BY <1>9, <1>11, <2>2
<1>13. rows' \in [Pages -> Seq(Seq(Nat))]
  BY <1>0, <1>1 DEF KvTypes
<1>14. /\ \A o \in Seqs : \A i \in DOMAIN table[o] : rows'[table[o][i]] = rows[table[o][i]]
       /\ \A q \in DOMAIN trie : rows'[trie[q]] = rows[trie[q]]
  BY <1>1
<1>15. ASSUME NEW i \in DOMAIN x, NEW j \in 1..Tpp, RowAt(i, j) =< n
       PROVE  Has(rows'[x[i]], j, Prefix(t, RowAt(i, j)))
  <2>1. CASE i = l + 1
    <3>1. i \in Nat \ {0} /\ i - 1 = l
      BY <1>9, <2>1
    <3>2. Tpp * (i - 1) < RowAt(i, j) /\ RowAt(i, j) \in Nat /\ Tpp * (i - 1) \in Nat
      BY <3>1, RowIs
    <3>3. Tpp * (i - 1) = w
      BY <1>2, <3>1
    <3> QED
      BY <1>5, <1>15, <3>2, <3>3
  <2>2. CASE i # l + 1
    <3>1. i \in DOMAIN M /\ x[i] = M[i]
      BY <1>10, <2>2
    <3> QED
      BY <1>1, <1>4, <3>1
  <2> QED
    BY <2>1, <2>2
<1>16. ASSUME NEW i \in DOMAIN x, Tpp * i > n
       PROVE  /\ \A o \in Seqs : \A k \in DOMAIN table[o] : table[o][k] # x[i]
              /\ \A k \in DOMAIN x : x[k] = x[i] => k = i
              /\ \A q \in DOMAIN trie : trie[q] # x[i]
  <2>1. i = l + 1
    <3>1. SUFFICES ASSUME i \in Nat, i =< l
                   PROVE  FALSE
      BY <1>10
    <3>2. Tpp * i \in Nat /\ Tpp * l \in Nat /\ Tpp * i =< Tpp * l
      BY <1>9, <3>1, TppTimes
    <3> QED
      BY <1>2, <1>12, <1>16, <3>2
  <2> QED
    BY <1>8, <1>9, <1>10, <2>1
<1>17. \A o \in Seqs : \A k \in DOMAIN table[o] : Tpp * k > held[o] =>
           \A i \in DOMAIN x : x[i] # table[o][k]
  BY <1>0, <1>4, <1>8, <1>9, <1>10 DEF Unshared
<1> HIDE DEF n, P
<1>18. Fits' /\ TableRows' /\ TrieRows' /\ Unshared'
  <2>1. \A i \in DOMAIN x, j \in 1..Tpp :
            RowAt(i, j) =< n => Has(rows'[x[i]], j, Prefix(t, RowAt(i, j)))
    BY <1>15
  <2>2. \A i \in DOMAIN x : Tpp * i > n =>
            /\ \A o \in Seqs : \A k \in DOMAIN table[o] : table[o][k] # x[i]
            /\ \A k \in DOMAIN x : x[k] = x[i] => k = i
            /\ \A q \in DOMAIN trie : trie[q] # x[i]
    BY <1>16
  <2>3. x \in Seq(Pages)
    BY <1>9
  <2>4. KvTypes /\ Fits /\ TableRows /\ TrieRows /\ Unshared
    BY <1>0
  <2>5. table' = [table EXCEPT ![s] = x] /\ held' = [held EXCEPT ![s] = n]
    BY <1>1
  <2> QED
    BY <1>12, <1>14, <1>17, <2>1, <2>2, <2>3, <2>4, <2>5, StartKept
<1>19. /\ refs' \in [Pages -> Nat]
       /\ \A p \in Pages : refs'[p] = refs[p] + Times(p, M) + IF p = d THEN 1 ELSE 0
  <2>1. IsFiniteSet(DOMAIN M)
    BY <1>2, SeqFinite
  <2>2. /\ Retained(refs, M) \in [Pages -> Nat]
        /\ \A p \in Pages : Retained(refs, M)[p] = refs[p] + Times(p, M)
    BY <1>0, <2>1, RetainedIs
  <2>3. Times(d, M) = 0
    <3>1. \A i \in DOMAIN M : M[i] # d
      BY <1>4, <1>8
    <3> QED
      BY <2>1, <3>1, TimesIs
  <2>4. \A p \in Pages : refs[p] \in Nat /\ Times(p, M) \in Nat
    BY <1>0, <2>1, TimesIs DEF KvTypes
  <2>5. refs' \in [Pages -> Nat] /\ refs'[d] = 1 /\ \A p \in Pages : p # d => refs'[p] = Retained(refs, M)[p]
    BY <1>1, <1>7, <2>2
  <2>6. ASSUME NEW p \in Pages
        PROVE  refs'[p] = refs[p] + Times(p, M) + IF p = d THEN 1 ELSE 0
    <3>1. CASE p = d
      BY <1>7, <2>3, <2>5, <3>1
    <3>2. CASE p # d
      BY <2>2, <2>4, <2>5, <3>2
    <3> QED
      BY <3>1, <3>2
  <2> QED
    BY <2>5, <2>6
<1>20. KvTypes'
  <2>1. IsFiniteSet(PathsTo(t, w))
    BY <1>3, PathsToIs
  <2>2. IsFiniteSet({c})
    BY FS_Singleton
  <2>3. IsFiniteSet(P) /\ P \subseteq DOMAIN trie
    BY <1>3, <1>5, <2>1, <2>2, FS_Union DEF P
  <2> QED
    BY <1>0, <1>1, <1>9, <1>12, <1>13, <1>19, <2>3, StartTypes
<1>21. RefsExact'
  <2>1. table[s] = << >>
    BY <1>0 DEF Fits
  <2>2. ASSUME NEW p \in Pages
        PROVE  /\ refs'[p] \in Nat /\ Times(p, trie') \in Nat
               /\ refs'[p] + Times(p, table[s]) + Times(p, trie)
                     = refs[p] + Times(p, x) + Times(p, trie')
    <3>1. Times(p, table[s]) = 0
      BY <2>1, TimesEmpty
    <3>2. Times(p, trie) \in Nat /\ refs[p] \in Nat
      BY <1>0, TimesIs DEF KvTypes
    <3>3. Times(p, M) \in Nat
      BY <1>2, SeqFinite, TimesIs
    <3>4. Times(p, x) = Times(p, M) + IF p = d THEN 1 ELSE 0
      BY <1>2, <1>7, TimesAppend DEF x
    <3>5. refs'[p] = refs[p] + Times(p, M) + IF p = d THEN 1 ELSE 0
      BY <1>19
    <3>6. refs'[p] \in Nat /\ Times(p, trie') = Times(p, trie)
      BY <1>19
    <3>7. refs'[p] = refs[p] + Times(p, x)
      <4> DEFINE a == refs[p]
                 b == Times(p, M)
      <4>0. /\ a \in Nat /\ b \in Nat
            /\ Times(p, x) = b + IF p = d THEN 1 ELSE 0
            /\ refs'[p] = a + b + IF p = d THEN 1 ELSE 0
        BY <3>2, <3>3, <3>4, <3>5
      <4> HIDE DEF a, b
      <4>1. CASE p = d
        <5>1. Times(p, x) = b + 1 /\ refs'[p] = a + b + 1
          BY <4>0, <4>1
        <5>2. refs'[p] = a + Times(p, x)
          BY <4>0, <5>1
        <5> QED
          BY <5>2 DEF a
      <4>2. CASE p # d
        BY <4>0, <4>2 DEF a
      <4> QED
        BY <4>1, <4>2
    <3>8. Times(p, x) \in Nat
      BY <1>9, SeqFinite, TimesIs
    <3> QED
      BY <3>1, <3>2, <3>6, <3>7, <3>8
  <2>3. KvTypes /\ RefsExact /\ table' = [table EXCEPT ![s] = x]
    BY <1>0, <1>1
  <2>4. x \in Seq(Pages)
    BY <1>9
  <2> QED
    BY <2>2, <2>3, <2>4, RefsKept
<1>22. Plans'
  <2>1. /\ \A o \in Seqs : /\ toks'[o] = IF o = s THEN t ELSE toks[o]
                           /\ table'[o] = IF o = s THEN x ELSE table[o]
                           /\ held'[o] = IF o = s THEN n ELSE held[o]
                           /\ plan'[o] = IF o = s THEN C ELSE plan[o]
        /\ DOMAIN plan' = Seqs
    BY <1>0, <1>1 DEF KvTypes, Plans
  <2>2. Planned(t, n, Len(x), C)
    <3>1. l \in Nat /\ n = Tpp * l /\ l + 1 =< Len(x)
      BY <1>2, <1>9 DEF n
    <3>2. /\ C.path \in Seq(Nat) /\ Len(C.path) = n + Tpp
          /\ C.tokens \in Nat /\ C.tokens < Tpp
          /\ Prefix(C.path, n + C.tokens) = Prefix(t, n + C.tokens)
      BY <1>5, <1>6 DEF n
    <3>3. n + C.tokens < Len(t)
      <4>1. Len(t) \in Nat
        BY SeqFinite
      <4> QED
        BY <1>5, <1>6, <4>1 DEF n
    <3> QED
      BY <3>1, <3>2, <3>3 DEF Planned
  <2>3. ASSUME NEW o \in Seqs
        PROVE  plan'[o] = NoPlan \/ Planned(toks'[o], held'[o], Len(table'[o]), plan'[o])
    <3>1. CASE o = s
      BY <2>1, <2>2, <3>1
    <3>2. CASE o # s
      BY <1>0, <2>1, <3>2 DEF Plans
    <3> QED
      BY <3>1, <3>2
  <2> QED
    BY <2>1, <2>3 DEF Plans
<1> QED
  BY <1>18, <1>20, <1>21, <1>22 DEF KvInv

\* match_prefix.
LEMMA MatchKept ==
    ASSUME KvInv, NEW s \in Seqs, NEW t \in Prompts, MatchPrefix(s, t)
    PROVE  KvInv'
<1>1. t \in Seq(Nat) /\ t # << >>
  BY PoolAssumption
<1>2. /\ toks[s] = << >> /\ toks' = [toks EXCEPT ![s] = t] /\ trie' = trie /\ Started(s, t)
      /\ \/ MatchWhole(s, t)
         \/ Free # {} /\ \E c \in Children(Prefix(t, Walk(t))) : MatchCopy(s, t, c)
  BY DEF MatchPrefix, Started
<1>3. CASE MatchWhole(s, t)
  BY <1>1, <1>2, <1>3, WholeKept
<1>4. CASE Free # {} /\ \E c \in Children(Prefix(t, Walk(t))) : MatchCopy(s, t, c)
  BY <1>1, <1>2, <1>4, CopyKept
<1> QED
  BY <1>2, <1>3, <1>4

-----------------------------------------------------------------------------
(* The invariant, and what it says.                                        *)

LEMMA KvStart == Init => KvInv
<1> SUFFICES ASSUME Init
             PROVE  KvInv
  OBVIOUS
<1>1. /\ refs = [p \in Pages |-> 0] /\ rows = [p \in Pages |-> << >>]
      /\ trie = << >> /\ use = << >> /\ toks = [s \in Seqs |-> << >>]
      /\ table = [s \in Seqs |-> << >>] /\ held = [s \in Seqs |-> 0]
      /\ plan = [s \in Seqs |-> NoPlan]
  BY DEF Init
<1>2. DOMAIN trie = {} /\ DOMAIN use = {} /\ \A s \in Seqs : DOMAIN table[s] = {}
  BY <1>1
<1>3. KvTypes
  <2>1. IsFiniteSet(DOMAIN trie)
    BY <1>2, FS_EmptySet
  <2>2. trie \in [DOMAIN trie -> Pages] /\ use \in [DOMAIN trie -> Nat]
    BY <1>1, <1>2
  <2>3. << >> \in Seq(Nat) /\ << >> \in Seq(Pages) /\ << >> \in Seq(Seq(Nat))
    OBVIOUS
  <2> QED
    BY <1>1, <1>2, <2>1, <2>2, <2>3 DEF KvTypes
<1>4. Fits
  <2> SUFFICES ASSUME NEW s \in Seqs
               PROVE  /\ held[s] =< Len(toks[s]) /\ held[s] =< Tpp * Len(table[s])
                      /\ toks[s] = << >> => table[s] = << >> /\ held[s] = 0
    BY DEF Fits
  <2>1. Len(<< >>) = 0 /\ Tpp * 0 \in Nat
    BY TppTimes
  <2>2. Tpp * Len(table[s]) \in Nat
    BY <1>1, <2>1
  <2> QED
    BY <1>1, <2>1, <2>2
<1>5. RefsExact
  <2> SUFFICES ASSUME NEW p \in Pages
               PROVE  refs[p] = Cardinality(Slots(table, p)) + Times(p, trie)
    BY DEF RefsExact
  <2>1. Slots(table, p) = {}
    BY <1>2 DEF Slots
  <2>2. Times(p, trie) = 0
    BY <1>1, TimesEmpty
  <2>3. Cardinality(Slots(table, p)) = 0
    BY <2>1, FS_EmptySet
  <2> QED
    BY <1>1, <2>2, <2>3
<1>6. TableRows /\ TrieRows /\ Unshared /\ Plans
  <2>1. TableRows /\ TrieRows /\ Unshared
    BY <1>2 DEF TableRows, TrieRows, Unshared
  <2>2. Plans
    BY <1>1 DEF Plans
  <2> QED
    BY <2>1, <2>2
<1> QED
  BY <1>3, <1>4, <1>5, <1>6 DEF KvInv

LEMMA KvStep == KvInv /\ [Next]_vars => KvInv'
<1> SUFFICES ASSUME KvInv, [Next]_vars
             PROVE  KvInv'
  OBVIOUS
<1>1. CASE Next
  <2>1. ASSUME NEW s \in Seqs, NEW t \in Prompts, MatchPrefix(s, t)
        PROVE  KvInv'
    BY <2>1, MatchKept
  <2>2. ASSUME NEW s \in Seqs, NEW t \in Tokens, Sample(s, t)
        PROVE  KvInv'
    BY <2>2, SampleKept
  <2>3. ASSUME NEW s \in Seqs, AllocPage(s)
        PROVE  KvInv'
    BY <2>3, AllocKept
  <2>4. ASSUME NEW s \in Seqs, Forward(s)
        PROVE  KvInv'
    BY <2>4, ForwardKept
  <2>5. ASSUME NEW s \in Seqs, Insert(s)
        PROVE  KvInv'
    BY <2>5, InsertKept
  <2>6. ASSUME NEW s \in Seqs, Release(s)
        PROVE  KvInv'
    BY <2>6, ReleaseKept
  <2>7. CASE Evict
    BY <2>7, EvictKept
  <2>8. ASSUME NEW s \in Seqs, CopyPage(s)
        PROVE  KvInv'
    BY <2>8, CopyPageKept
  <2> QED
    BY <1>1, <2>1, <2>2, <2>3, <2>4, <2>5, <2>6, <2>7, <2>8 DEF Next
<1>2. CASE UNCHANGED vars
  <2>1. /\ refs' = refs /\ rows' = rows /\ trie' = trie /\ use' = use
        /\ toks' = toks /\ table' = table /\ held' = held /\ plan' = plan
    BY <1>2 DEF vars, pool, cache, seqs
  <2> QED
    BY <2>1 DEF KvInv, KvTypes, Fits, RefsExact, TableRows, TrieRows, Unshared, Plans
<1> QED
  BY <1>1, <1>2

\* A sequence finds the row of every token it holds.
LEMMA RowsFollow == KvInv => RowsRight
<1> SUFFICES ASSUME KvInv, NEW s \in Seqs, NEW t \in 1..held[s]
             PROVE  LET p == table[s][((t - 1) \div Tpp) + 1]
                        j == ((t - 1) % Tpp) + 1
                    IN  j \in DOMAIN rows[p] /\ rows[p][j] \in {Prefix(toks[s], t), Unknown}
  BY DEF RowsRight
<1> DEFINE i == ((t - 1) \div Tpp) + 1
           j == ((t - 1) % Tpp) + 1
           l == Len(table[s])
<1>1. KvTypes /\ Fits /\ TableRows
  BY DEF KvInv
<1>2. held[s] \in Nat /\ l \in Nat /\ DOMAIN table[s] = 1..l /\ held[s] =< Tpp * l
  BY <1>1, IndexIs DEF KvTypes, Fits
<1>3. t \in Nat \ {0} /\ t =< held[s]
  BY <1>2
<1>4. i \in Nat \ {0} /\ j \in 1..Tpp /\ RowAt(i, j) = t
  BY <1>3, RowOf
<1> HIDE DEF i, j, l
<1>5. i =< l
  <2>1. i - 1 \in Nat
    BY <1>4
  <2>2. /\ Tpp * (i - 1) \in Nat /\ Tpp * l \in Nat
        /\ l =< i - 1 => Tpp * l =< Tpp * (i - 1)
    BY <1>2, <2>1, TppTimes
  <2>3. Tpp * (i - 1) < t
    BY <1>4, RowIs
  <2>4. \A a, b, h \in Nat : a < t /\ t =< h /\ h =< b => ~(b =< a)
    BY <1>3
  <2>5. ~(Tpp * l =< Tpp * (i - 1))
    BY <1>2, <1>3, <2>2, <2>3, <2>4
  <2>6. ~(l =< i - 1)
    BY <2>2, <2>5
  <2> QED
    BY <1>2, <1>4, <2>6
<1>6. Has(rows[table[s][i]], j, Prefix(toks[s], t))
  BY <1>1, <1>2, <1>3, <1>4, <1>5 DEF TableRows
<1> QED
  BY <1>6 DEF Has, i, j

\* The paths on the way to a path are the prefixes of it that end pages.
LEMMA PathsOn ==
    ASSUME NEW a \in Paths, NEW b \in Paths
    PROVE  /\ Len(a) \in Nat \ {0} /\ Len(b) \in Nat \ {0}
           /\ a \in PathsTo(b, Len(b)) <=> Len(a) =< Len(b) /\ Prefix(b, Len(a)) = a
<1>1. a \in Seq(Nat) /\ b \in Seq(Nat)
  BY DEF Paths
<1>2. PICK k \in Nat \ {0} : Len(a) = Tpp * k
  BY DEF Paths
<1>3. PICK m \in Nat \ {0} : Len(b) = Tpp * m
  BY DEF Paths
<1>4. Len(a) \in Nat \ {0} /\ Len(b) \in Nat \ {0}
  <2>1. ASSUME NEW x \in Nat \ {0}
        PROVE  Tpp * x \in Nat \ {0}
    <3>1. 0 \in Nat /\ x \in Nat /\ 0 < x
      OBVIOUS
    <3>2. Tpp * x \in Nat /\ Tpp * 0 \in Nat /\ Tpp * 0 + Tpp =< Tpp * x
      BY <3>1, TppTimes
    <3> QED
      BY <3>2, TppIs
  <2> QED
    BY <1>2, <1>3, <2>1
<1>5. Len(b) \in 0..Len(b)
  BY <1>4
<1>6. /\ \A x \in Nat \ {0} : Tpp * x =< Len(b) => Prefix(b, Tpp * x) \in PathsTo(b, Len(b))
      /\ \A q \in PathsTo(b, Len(b)) : \E x \in Nat \ {0} :
            q = Prefix(b, Tpp * x) /\ Tpp * x =< Len(b) /\ Len(q) = Tpp * x
  BY <1>1, <1>5, PathsToIs
<1>7. ASSUME a \in PathsTo(b, Len(b))
      PROVE  Len(a) =< Len(b) /\ Prefix(b, Len(a)) = a
  BY <1>6, <1>7
<1>8. ASSUME Len(a) =< Len(b), Prefix(b, Len(a)) = a
      PROVE  a \in PathsTo(b, Len(b))
  BY <1>2, <1>6, <1>8
<1> QED
  BY <1>4, <1>7, <1>8

\* No two nodes have the same page: its last row is the node's path.
LEMMA NodesDiffer ==
    ASSUME KvTypes, TrieRows, NEW q \in DOMAIN trie, NEW o \in DOMAIN trie, trie[q] = trie[o]
    PROVE  q = o
<1>1. q \in Paths /\ o \in Paths /\ Tpp \in 1..Tpp /\ Tpp \in Nat
  BY TppIs DEF KvTypes
<1>2. q \in Seq(Nat) /\ o \in Seq(Nat) /\ Len(q) \in Nat /\ Len(o) \in Nat
  BY <1>1, SeqFinite DEF Paths
<1>3. Len(q) - Tpp + Tpp = Len(q) /\ Len(o) - Tpp + Tpp = Len(o)
  BY <1>1, <1>2
<1>4. Prefix(q, Len(q)) = q /\ Prefix(o, Len(o)) = o
  BY <1>2, PrefixAll
<1>5. rows[trie[q]][Tpp] = q
  <2>1. Has(rows[trie[q]], Tpp, q)
    BY <1>1, <1>3, <1>4 DEF TrieRows
  <2> QED
    BY <1>1, <2>1 DEF Has
<1>6. rows[trie[o]][Tpp] = o
  <2>1. Has(rows[trie[o]], Tpp, o)
    BY <1>1, <1>3, <1>4 DEF TrieRows
  <2> QED
    BY <1>1, <2>1 DEF Has
<1> QED
  BY <1>5, <1>6

\* The nodes at or under a path.
Below(q) == {o \in DOMAIN trie : q \in PathsTo(o, Len(o))}

\* At or under every node is a leaf: one with the fewest nodes under it.
LEMMA LeafBelow ==
    ASSUME KvTypes, NEW q \in DOMAIN trie
    PROVE  \E o \in Below(q) : Children(o) = {}
<1>1. DOMAIN trie \subseteq Paths /\ IsFiniteSet(DOMAIN trie)
  BY DEF KvTypes
<1>2. ASSUME NEW o \in DOMAIN trie
      PROVE  IsFiniteSet(Below(o)) /\ Cardinality(Below(o)) \in Nat
  <2>1. Below(o) \subseteq DOMAIN trie
    BY DEF Below
  <2>2. IsFiniteSet(Below(o))
    BY <1>1, <2>1, FS_Subset
  <2> QED
    BY <2>2, FS_CardinalityType
<1> DEFINE S == {Cardinality(Below(o)) : o \in Below(q)}
<1>3. Below(q) \subseteq DOMAIN trie /\ q \in Below(q)
  <2>1. q \in Seq(Nat) /\ q \in Paths
    BY <1>1 DEF Paths
  <2>2. Prefix(q, Len(q)) = q
    BY <2>1, PrefixAll
  <2>3. q \in PathsTo(q, Len(q))
    BY <2>1, <2>2, PathsOn
  <2> QED
    BY <2>3 DEF Below
<1>4. S \subseteq Nat /\ S # {}
  BY <1>2, <1>3
<1>5. PICK x \in S : \A y \in S : x =< y
  <2> HIDE DEF S
  <2> QED
    BY <1>4, LeastNat
<1>6. PICK o \in Below(q) : x = Cardinality(Below(o))
  BY <1>5
<1>7. \A u \in Below(q) : Cardinality(Below(o)) =< Cardinality(Below(u))
  BY <1>5, <1>6
<1>8. ASSUME NEW c \in Children(o)
      PROVE  FALSE
  <2>1. /\ c \in DOMAIN trie /\ o \in DOMAIN trie /\ Len(c) = Len(o) + Tpp /\ Prefix(c, Len(o)) = o
    BY <1>3 DEF Children
  <2>2. c \in Paths /\ o \in Paths /\ q \in Paths
    BY <1>1, <2>1
  <2>3. /\ Len(o) \in Nat \ {0} /\ Len(c) \in Nat \ {0} /\ Len(q) \in Nat \ {0} /\ Len(o) < Len(c)
        /\ Len(q) =< Len(o) /\ Prefix(o, Len(q)) = q
    <3>1. q \in PathsTo(o, Len(o))
      BY DEF Below
    <3>2. Len(o) \in Nat \ {0} /\ Len(c) \in Nat \ {0} /\ Len(q) \in Nat \ {0}
      BY <2>2, PathsOn
    <3>3. Len(q) =< Len(o) /\ Prefix(o, Len(q)) = q
      BY <2>2, <3>1, PathsOn
    <3> QED
      BY <2>1, <3>2, <3>3, TppIs
  <2>4. ASSUME NEW u \in Below(c)
        PROVE  u \in Below(o)
    <3>1. u \in DOMAIN trie /\ c \in PathsTo(u, Len(u)) /\ u \in Paths /\ u \in Seq(Nat)
      BY <1>1 DEF Below, Paths
    <3>2. Len(c) =< Len(u) /\ Prefix(u, Len(c)) = c /\ Len(u) \in Nat
      BY <2>2, <3>1, PathsOn
    <3>3. Len(c) \in 0..Len(u) /\ Len(o) \in 0..Len(c) /\ Len(o) =< Len(u)
      BY <2>3, <3>2
    <3>4. Prefix(Prefix(u, Len(c)), Len(o)) = Prefix(u, Len(o))
      BY <3>1, <3>3, PrefixOfPrefix
    <3>5. Prefix(u, Len(o)) = o
      BY <2>1, <3>2, <3>4
    <3>6. o \in PathsTo(u, Len(u))
      BY <2>2, <3>1, <3>3, <3>5, PathsOn
    <3> QED
      BY <3>1, <3>6 DEF Below
  <2>5. o \in Below(o) /\ o \notin Below(c)
    <3>1. o \in Seq(Nat)
      BY <2>2 DEF Paths
    <3>2. Prefix(o, Len(o)) = o
      BY <3>1, PrefixAll
    <3>3. o \in PathsTo(o, Len(o))
      BY <2>2, <2>3, <3>2, PathsOn
    <3>4. o \notin Below(c)
      <4>1. SUFFICES ASSUME c \in PathsTo(o, Len(o))
                     PROVE  FALSE
        BY DEF Below
      <4>2. Len(c) =< Len(o)
        BY <2>2, <4>1, PathsOn
      <4> QED
        BY <2>3, <4>2
    <3> QED
      BY <2>1, <3>3, <3>4 DEF Below
  <2>6. c \in Below(q)
    <3>1. c \in Seq(Nat) /\ Len(o) \in 0..Len(c) /\ Len(q) \in 0..Len(o) /\ Len(q) =< Len(c)
      BY <2>2, <2>3 DEF Paths
    <3>2. Prefix(Prefix(c, Len(o)), Len(q)) = Prefix(c, Len(q))
      BY <3>1, PrefixOfPrefix
    <3>3. Prefix(c, Len(q)) = q
      BY <2>1, <2>3, <3>2
    <3>4. q \in PathsTo(c, Len(c))
      BY <2>2, <3>1, <3>3, PathsOn
    <3> QED
      BY <2>1, <3>4 DEF Below
  <2> DEFINE a == Cardinality(Below(c))
             b == Cardinality(Below(o))
  <2>7. IsFiniteSet(Below(o)) /\ Below(c) \subseteq Below(o) /\ a \in Nat /\ b \in Nat
    BY <1>2, <2>1, <2>4
  <2>8. a =< b /\ (b = a => Below(o) = Below(c))
    BY <2>7, FS_Subset
  <2>9. b =< a
    BY <1>7, <2>6
  <2>10. b = a
    <3> HIDE DEF a, b
    <3> QED
      BY <2>7, <2>8, <2>9
  <2> QED
    BY <2>5, <2>8, <2>10
<1> QED
  BY <1>8

\* When nothing is free or can be evicted, a leaf's page is in some table.
LEMMA PinnedFollow == KvInv => DryMeansPinned
<1> SUFFICES ASSUME KvInv, Free = {}, Evictable = {}, NEW p \in Pages
             PROVE  \E s \in Seqs : \E i \in DOMAIN table[s] :
                       \/ table[s][i] = p
                       \/ \E q, o \in DOMAIN trie : /\ trie[q] = p /\ trie[o] = table[s][i]
                                                    /\ q \in PathsTo(o, Len(o))
  BY DEF DryMeansPinned
<1>1. KvTypes /\ RefsExact /\ TrieRows
  BY DEF KvInv
<1>2. ASSUME NEW d \in Pages
      PROVE  refs[d] \in Nat \ {0}
  BY <1>1 DEF Free, KvTypes
<1>3. CASE \E s \in Seqs : \E i \in DOMAIN table[s] : table[s][i] = p
  BY <1>3
<1>4. CASE \A s \in Seqs : \A i \in DOMAIN table[s] : table[s][i] # p
  <2>1. PICK q \in DOMAIN trie : trie[q] = p
    <3>1. Times(p, trie) # 0
      <4>1. /\ refs[p] = Cardinality(Slots(table, p)) + Times(p, trie) /\ Times(p, trie) \in Nat
            /\ Cardinality(Slots(table, p)) = 0
        BY <1>1, <1>4, Counts
      <4> QED
        BY <1>2, <4>1
    <3> QED
      BY <1>1, <3>1, Counts
  <2>2. PICK o \in Below(q) : Children(o) = {}
    BY <1>1, LeafBelow
  <2>3. o \in DOMAIN trie /\ q \in PathsTo(o, Len(o))
    BY DEF Below
  <2> DEFINE d == trie[o]
  <2>4. d \in Pages /\ refs[d] # 1 /\ IsFiniteSet(DOMAIN trie)
    BY <1>1, <2>2, <2>3 DEF Evictable, KvTypes
  <2>5. Times(d, trie) = 1
    <3>1. Where(d, trie) = {o}
      BY <1>1, <2>3, NodesDiffer DEF Where
    <3>2. Cardinality({o}) = 1
      BY FS_Singleton
    <3> QED
      BY <2>4, <3>1, <3>2, TimesIs
  <2>6. Cardinality(Slots(table, d)) # 0
    <3> HIDE DEF d
    <3>1. /\ refs[d] = Cardinality(Slots(table, d)) + Times(d, trie) /\ refs[d] \in Nat
          /\ Cardinality(Slots(table, d)) \in Nat
      BY <1>1, <2>4, Counts
    <3> QED
      BY <2>4, <2>5, <3>1
  <2>7. PICK s \in Seqs : \E i \in DOMAIN table[s] : table[s][i] = d
    <3> HIDE DEF d
    <3> QED
      BY <1>1, <2>4, <2>6, Counts
  <2> QED
    BY <2>1, <2>3, <2>7
<1> QED
  BY <1>3, <1>4

\* Every page has exactly the owners its count says, after any calls of the cache and any
\* order of prefills, decoding, eviction and release: no page in use is freed by the last
\* free() of another owner, and none is leaked.
THEOREM CountsExact == Spec => []RefsExact
<1>1. KvInv => RefsExact
  BY DEF KvInv
<1> QED
  BY <1>1, KvStart, KvStep, PTL DEF Spec

\* Attention reads the rows of the sequence's own tokens: whatever was shared, copied,
\* evicted and reused, the row of each token a sequence holds was computed from exactly
\* the tokens before it.
THEOREM RowsAreRight == Spec => []RowsRight
  BY RowsFollow, KvStart, KvStep, PTL DEF Spec

\* KvPrefixCache::alloc refuses a page only when every page is in use, or is the cached
\* ancestor of one that is.
THEOREM RefusedWhenPinned == Spec => []DryMeansPinned
  BY PinnedFollow, KvStart, KvStep, PTL DEF Spec

=============================================================================
