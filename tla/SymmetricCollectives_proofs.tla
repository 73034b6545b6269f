-------------------- MODULE SymmetricCollectives_proofs ---------------------
(***************************************************************************)
(* The collectives over a symmetric heap, for any number of ranks and calls *)
(* and over either transport.                                              *)
(***************************************************************************)
EXTENDS SymmetricCollectives, DataLemmas

-----------------------------------------------------------------------------
(* The tokens among the frames of a link.                                  *)

TokensIn(s) == {i \in 1..Len(s) : s[i].kind = "SEND"}
Sent(s) == Cardinality(TokensIn(s))

LEMMA SentAppend ==
    ASSUME NEW S, NEW s \in Seq(S), NEW m \in S
    PROVE  /\ IsFiniteSet(TokensIn(s)) /\ Sent(s) \in Nat
           /\ Sent(Append(s, m)) = Sent(s) + (IF m.kind = "SEND" THEN 1 ELSE 0)
<1>1. /\ Len(s) \in Nat /\ Len(Append(s, m)) = Len(s) + 1
      /\ \A i \in 1..Len(s) : Append(s, m)[i] = s[i]
      /\ Append(s, m)[Len(s) + 1] = m
  BY AppendProperties
<1>2. IsFiniteSet(1..Len(s))
  BY <1>1, FS_Interval
<1>3. IsFiniteSet(TokensIn(s)) /\ Sent(s) \in Nat
  BY <1>2, FS_Subset, FS_CardinalityType DEF TokensIn, Sent
<1>4. CASE m.kind = "SEND"
  <2>1. TokensIn(Append(s, m)) = TokensIn(s) \cup {Len(s) + 1} /\ Len(s) + 1 \notin TokensIn(s)
    BY <1>1, <1>4 DEF TokensIn
  <2> QED
    BY <1>3, <1>4, <2>1, FS_AddElement DEF Sent
<1>5. CASE m.kind # "SEND"
  <2>1. TokensIn(Append(s, m)) = TokensIn(s)
    BY <1>1, <1>5 DEF TokensIn
  <2> QED
    BY <1>3, <1>5, <2>1 DEF Sent
<1> QED
  BY <1>3, <1>4, <1>5

LEMMA SentTail ==
    ASSUME NEW S, NEW s \in Seq(S), s # << >>
    PROVE  Sent(s) = Sent(Tail(s)) + (IF Head(s).kind = "SEND" THEN 1 ELSE 0)
<1>1. /\ Tail(s) \in Seq(S) /\ Len(s) \in Nat \ {0} /\ Len(Tail(s)) = Len(s) - 1
      /\ Head(s) = s[1] /\ Head(s) \in S
      /\ \A i \in 1..Len(Tail(s)) : Tail(s)[i] = s[i + 1]
  BY HeadTailProperties, EmptySeq
<1> DEFINE A == TokensIn(Tail(s))
           B == TokensIn(s) \ {1}
           f == [i \in A |-> i + 1]
<1>2. IsFiniteSet(A)
  BY <1>1, SentAppend
<1>3. \A i \in A : i + 1 \in B
  BY <1>1 DEF TokensIn
<1>4. \A j \in B : j - 1 \in A /\ (j - 1) + 1 = j
  BY <1>1 DEF TokensIn
<1>5. A \subseteq Int
  BY <1>1 DEF TokensIn
<1>6. f \in Bijection(A, B)
  <2>1. f \in [A -> B]
    BY <1>3
  <2>2. f \in Injection(A, B)
    <3>1. \A a, b \in A : a + 1 = b + 1 => a = b
      BY <1>5
    <3> HIDE DEF A, B
    <3> QED
      BY <2>1, <3>1 DEF Injection, IsInjective
  <2>3. f \in Surjection(A, B)
    BY <1>4, <2>1 DEF Surjection
  <2> QED
    BY <2>2, <2>3 DEF Bijection
<1>7. Cardinality(B) = Cardinality(A) /\ IsFiniteSet(B)
  BY <1>2, <1>6, FS_Bijection DEF ExistsBijection
<1>8. 1 \in TokensIn(s) <=> Head(s).kind = "SEND"
  BY <1>1 DEF TokensIn
<1>9. Cardinality(A) \in Nat
  BY <1>2, FS_CardinalityType
<1>10. CASE 1 \in TokensIn(s)
  <2>1. TokensIn(s) = B \cup {1} /\ 1 \notin B
    BY <1>10
  <2> HIDE DEF A, B
  <2>2. Cardinality(TokensIn(s)) = Cardinality(B) + 1
    BY <1>7, <2>1, FS_AddElement
  <2> QED
    BY <1>7, <1>8, <1>9, <1>10, <2>2 DEF Sent, A
<1>11. CASE 1 \notin TokensIn(s)
  <2>1. TokensIn(s) = B
    BY <1>11
  <2> HIDE DEF A, B
  <2> QED
    BY <1>7, <1>8, <1>9, <1>11, <2>1 DEF Sent, A
<1> QED
  BY <1>10, <1>11


-----------------------------------------------------------------------------
(* What the ranks and the links hold.                                      *)

Folds == Seq(Ranks \X Nat)
Payloads == [kind : {"PUT", "GETRESP"}, val : Folds]
Frames == Payloads \cup {Token, GetReq}

Blocked == {"wait", "collect", "release"}

SymTypes ==
    /\ mode \in Modes
    /\ pc \in [Ranks -> {"out", "put", "barrier", "get", "getting"} \cup Blocked]
    /\ call \in [Ranks -> Nat] /\ step \in [Ranks -> Nat]
    /\ second \in [Ranks -> BOOLEAN]
    /\ turn \in Nat
    /\ local \in [Ranks -> [Chunks -> Folds]]
    /\ acc \in [Ranks -> Folds] /\ heap \in [Ranks -> Folds]
    /\ link \in [Links -> Seq(Frames)]
    /\ tokens \in [Links -> Nat]
    /\ resp \in [Links -> Seq(Folds)]
    /\ entered \in [Ranks -> Nat] /\ passed \in [Ranks -> Nat]

\* Where a rank may be in its call: what each algorithm and transport never reaches.
Places ==
    /\ \A r \in Ranks : pc[r] \in {"collect", "release"} => Net /\ r = 0
    /\ \A r \in Ranks : pc[r] = "wait" => ~(Net /\ r = 0)
    /\ \A r \in Ranks : pc[r] = "getting" => Net /\ Algo = "naive" /\ step[r] # r
    /\ Algo = "naive" => \A r \in Ranks : ~second[r] /\ step[r] \in Ranks
    /\ Algo = "ring" => \A r \in Ranks : step[r] \in 0..(Steps - 1)
    /\ pc[0] \in {"collect", "release"} => turn \in 1..(N - 1)

\* The tokens of a barrier on their way over a link, or queued at its end.
Flying(l) == Sent(link[l]) + tokens[l]

\* How many barriers of rank r's rank 0 has collected, and released it from.
Collected(r) == passed[0] + IF pc[0] = "release" \/ (pc[0] = "collect" /\ r < turn) THEN 1 ELSE 0
Released(r)  == passed[0] + IF pc[0] = "release" /\ r < turn THEN 1 ELSE 0

\* A rank is in a barrier or has passed all it entered.  Over memory BarrierHolds
\* itself; over sockets no token is lost or counted twice.
BarrierInv ==
    /\ \A r \in Ranks : entered[r] = passed[r] + IF pc[r] \in Blocked THEN 1 ELSE 0
    /\ ~Net => BarrierHolds
    /\ Net => \A r \in Others : /\ entered[r] = Flying(<<r, 0>>) + Collected(r)
                                /\ passed[r] + Flying(<<0, r>>) = Released(r)

\* Facts about the ranks.
LEMMA RanksAre ==
    /\ N \in Nat /\ N > 1 /\ 0 \in Ranks /\ Ranks \subseteq Nat
    /\ \A r \in Others : r \in Ranks /\ r # 0 /\ <<r, 0>> \in Links /\ <<0, r>> \in Links /\ r \in 1..(N - 1)
    /\ \A r \in 1..(N - 1) : r \in Others
    /\ \A r \in Ranks : Right(r) \in Ranks /\ Right(r) # r /\ <<r, Right(r)>> \in Links
    /\ \A q, r \in Ranks : q # r => <<q, r>> \in Links
    /\ \A l \in Links : l[1] \in Ranks /\ l[2] \in Ranks /\ l = <<l[1], l[2]>> /\ <<l[2], l[1]>> \in Links
<1>1. N \in Nat /\ N > 1
  BY SymmetricAssumption
<1>2. ASSUME NEW r \in Ranks PROVE Right(r) \in Ranks /\ Right(r) # r
  <2>1. r \in 0..(N - 1)
    BY DEF Ranks
  <2>2. Right(r) = IF r = N - 1 THEN 0 ELSE r + 1
    <3>1. CASE r = N - 1
      BY <1>1, <3>1 DEF Right
    <3>2. CASE r # N - 1
      <4>1. r + 1 \in 0..(N - 1)
        BY <1>1, <2>1, <3>2
      <4>2. (r + 1) % N = r + 1
        BY <1>1, <4>1
      <4> QED
        BY <3>2, <4>2 DEF Right
    <3> QED
      BY <3>1, <3>2
  <2> QED
    BY <1>1, <2>1, <2>2 DEF Ranks
<1>3. \A q, r \in Ranks : q # r => <<q, r>> \in Links
  BY DEF Links
<1>4. 0 \in Ranks /\ Ranks \subseteq Nat
  BY <1>1 DEF Ranks
<1>5. \A r \in Others : r \in Ranks /\ r # 0 /\ <<r, 0>> \in Links /\ <<0, r>> \in Links /\ r \in 1..(N - 1)
  BY <1>1, <1>3, <1>4 DEF Others, Ranks
<1>6. \A r \in 1..(N - 1) : r \in Others
  BY <1>1 DEF Others, Ranks
<1>7. \A l \in Links : l[1] \in Ranks /\ l[2] \in Ranks /\ l = <<l[1], l[2]>> /\ <<l[2], l[1]>> \in Links
  BY DEF Links
<1>8. \A r \in Ranks : <<r, Right(r)>> \in Links
  BY <1>2, <1>3
<1> QED
  BY <1>1, <1>2, <1>3, <1>4, <1>5, <1>6, <1>7, <1>8

LEMMA FramesAre ==
    /\ Token \in Frames /\ Token.kind = "SEND"
    /\ GetReq \in Frames /\ GetReq.kind # "SEND"
    /\ \A v \in Folds : /\ PutFrame(v) \in Frames /\ PutFrame(v).kind # "SEND"
                        /\ GetResp(v) \in Frames /\ GetResp(v).kind # "SEND"
    /\ \A m \in Frames : m.kind \in {"PUT", "GETRESP"} => m.val \in Folds
BY DEF Frames, Payloads, Token, GetReq, PutFrame, GetResp

LEMMA ChunksAre ==
    /\ Chunks \subseteq Nat
    /\ Algo # "ring" => 0 \in Chunks
    /\ Algo = "ring" => \A r \in Ranks, s \in Nat : s \in 0..(Steps - 1) => SendIdx(r, s) \in Chunks /\ RecvIdx(r, s) \in Chunks
<1>1. N \in Nat /\ N > 1 /\ Ranks \subseteq Nat
  BY RanksAre
<1>2. \A x \in Int : x % N \in 0..(N - 1)
  BY <1>1
<1>3. \A r \in Ranks, s \in Nat : SendIdx(r, s) \in 0..(N - 1) /\ RecvIdx(r, s) \in 0..(N - 1)
  <2> TAKE r \in Ranks, s \in Nat
  <2>1. /\ r + N - s \in Int /\ r + N + 1 - (s - (N - 1)) \in Int
        /\ r + N - s - 1 \in Int /\ r + N - (s - (N - 1)) \in Int
    BY <1>1
  <2> QED
    BY <1>2, <2>1 DEF SendIdx, RecvIdx
<1> QED
  BY <1>1, <1>3 DEF Chunks


\* A frame written to a link.
LEMMA SendsIs ==
    ASSUME SymTypes, NEW k \in Links, NEW m \in Frames, Sends(k, m)
    PROVE  /\ link' \in [Links -> Seq(Frames)]
           /\ \A l \in Links : Sent(link'[l]) = Sent(link[l])
                                   + (IF l = k /\ m.kind = "SEND" THEN 1 ELSE 0)
           /\ \A l \in Links : Sent(link[l]) \in Nat
<1>1. link \in [Links -> Seq(Frames)] /\ link' = [link EXCEPT ![k] = Append(@, m)]
  BY DEF SymTypes, Sends
<1>2. link' \in [Links -> Seq(Frames)]
  BY <1>1, QueueAppend
<1>3. \A l \in Links : Sent(link[l]) \in Nat
  BY <1>1, SentAppend
<1>4. Sent(Append(link[k], m)) = Sent(link[k]) + (IF m.kind = "SEND" THEN 1 ELSE 0)
  BY <1>1, SentAppend
<1>5. ASSUME NEW l \in Links
      PROVE  Sent(link'[l]) = Sent(link[l]) + (IF l = k /\ m.kind = "SEND" THEN 1 ELSE 0)
  <2>1. CASE l = k
    <3>1. link'[l] = Append(link[k], m)
      BY <1>1, <2>1
    <3> QED
      BY <1>4, <2>1, <3>1
  <2>2. CASE l # k
    <3>1. link'[l] = link[l] /\ Sent(link[l]) \in Nat
      BY <1>1, <1>3, <2>2
    <3>2. Sent(link[l]) = Sent(link[l]) + 0
      BY <3>1
    <3> QED
      BY <2>2, <3>1, <3>2
  <2> QED
    BY <2>1, <2>2
<1> QED
  BY <1>2, <1>3, <1>5

\* The counts of a barrier are numbers.
LEMMA CountsAre ==
    ASSUME SymTypes, NEW q \in Others
    PROVE  /\ Sent(link[<<q, 0>>]) \in Nat /\ tokens[<<q, 0>>] \in Nat
           /\ Sent(link[<<0, q>>]) \in Nat /\ tokens[<<0, q>>] \in Nat
           /\ entered[q] \in Nat /\ passed[q] \in Nat /\ passed[0] \in Nat
           /\ Flying(<<q, 0>>) \in Nat /\ Flying(<<0, q>>) \in Nat
           /\ Collected(q) \in Nat /\ Released(q) \in Nat
<1>1. q \in Ranks /\ 0 \in Ranks /\ <<q, 0>> \in Links /\ <<0, q>> \in Links
  BY RanksAre
<1>2. /\ link[<<q, 0>>] \in Seq(Frames) /\ tokens[<<q, 0>>] \in Nat
      /\ link[<<0, q>>] \in Seq(Frames) /\ tokens[<<0, q>>] \in Nat
      /\ entered[q] \in Nat /\ passed[q] \in Nat /\ passed[0] \in Nat
  BY <1>1 DEF SymTypes
<1>3. Sent(link[<<q, 0>>]) \in Nat /\ Sent(link[<<0, q>>]) \in Nat
  BY <1>2, SentAppend, FramesAre
<1>4. Flying(<<q, 0>>) \in Nat /\ Flying(<<0, q>>) \in Nat
  BY <1>2, <1>3 DEF Flying
<1>5. passed[0] + 0 \in Nat /\ passed[0] + 1 \in Nat
  BY <1>2
<1>6. Collected(q) \in Nat /\ Released(q) \in Nat
  BY <1>5 DEF Collected, Released
<1> QED
  BY <1>2, <1>3, <1>4, <1>6

\* Steps outside of barriers do not move a token.
LEMMA QuietStep ==
    ASSUME SymTypes, Places, BarrierInv,
           NEW r \in Ranks, NEW x, pc[r] \notin Blocked, x \notin Blocked,
           pc' = [pc EXCEPT ![r] = x],
           UNCHANGED <<mode, entered, passed, tokens, turn>>,
           \A l \in Links : Sent(link'[l]) = Sent(link[l])
    PROVE  BarrierInv'
<1>1. \A q \in Ranks : pc'[q] \in Blocked <=> pc[q] \in Blocked
  BY DEF SymTypes
<1>2. /\ pc'[0] = "release" <=> pc[0] = "release"
      /\ pc'[0] = "collect" <=> pc[0] = "collect"
  BY RanksAre DEF SymTypes, Blocked
<1>3. Net' = Net /\ (BarrierHolds => BarrierHolds')
  BY DEF Net, BarrierHolds
<1>4. \A q \in Others : /\ Flying(<<q, 0>>)' = Flying(<<q, 0>>)
                        /\ Flying(<<0, q>>)' = Flying(<<0, q>>)
                        /\ Collected(q)' = Collected(q) /\ Released(q)' = Released(q)
  BY <1>2, RanksAre DEF Flying, Collected, Released
<1>5. \A q \in Ranks : entered'[q] = passed'[q] + IF pc'[q] \in Blocked THEN 1 ELSE 0
  BY <1>1 DEF BarrierInv
<1>6. Net' => \A q \in Others : /\ entered'[q] = Flying(<<q, 0>>)' + Collected(q)'
                                /\ passed'[q] + Flying(<<0, q>>)' = Released(q)'
  BY <1>3, <1>4 DEF BarrierInv
<1> QED
  BY <1>3, <1>5, <1>6 DEF BarrierInv

SymInv == SymTypes /\ Places /\ BarrierInv

\* An algorithm is one or the other.
LEMMA ModeIs ==
    ASSUME SymTypes
    PROVE  Algo \in {"naive", "ring"} /\ Net \in BOOLEAN /\ NCalls \in Nat \ {0}
BY SymmetricAssumption DEF SymTypes, Mode, Algo, Net, NCalls

LEMMA EnterKept ==
    ASSUME SymInv, NEW r \in Ranks, Enter(r), UNCHANGED mode
    PROVE  SymInv'
<1>0. SymTypes /\ Places /\ BarrierInv
  BY DEF SymInv
<1>1. /\ pc[r] = "out" /\ pc' = [pc EXCEPT ![r] = "put"]
      /\ call' = [call EXCEPT ![r] = @ + 1] /\ step' = [step EXCEPT ![r] = 0]
      /\ local' = [local EXCEPT ![r] = [c \in Chunks |-> Input(r, call[r] + 1)]]
      /\ acc' = [acc EXCEPT ![r] = Empty]
      /\ UNCHANGED <<second, heap, link, tokens, resp, turn, entered, passed>>
  BY DEF Enter, At, Goto, netVars, barVars
<1>2. Algo' = Algo /\ Net' = Net /\ Chunks' = Chunks
  BY DEF Algo, Net, Chunks
<1>3. SymTypes'
  <2>1. Input(r, call[r] + 1) \in Folds /\ Empty \in Folds
    BY <1>0 DEF Input, Folds, Empty, SymTypes
  <2>2. local' \in [Ranks -> [Chunks -> Folds]]
    BY <1>0, <1>1, <2>1 DEF SymTypes
  <2>3. call' \in [Ranks -> Nat] /\ step' \in [Ranks -> Nat] /\ acc' \in [Ranks -> Folds]
    BY <1>0, <1>1, <2>1 DEF SymTypes
  <2>4. pc' \in [Ranks -> {"out", "put", "barrier", "get", "getting"} \cup Blocked]
    BY <1>0, <1>1 DEF SymTypes
  <2> QED
    BY <1>0, <1>1, <1>2, <2>2, <2>3, <2>4 DEF SymTypes
<1>4. Places'
  <2>1. \A q \in Ranks \ {r} : pc'[q] = pc[q] /\ step'[q] = step[q]
    BY <1>0, <1>1 DEF SymTypes
  <2>2. pc'[r] = "put" /\ step'[r] = 0 /\ 0 \in Ranks /\ 0 \in 0..(Steps - 1)
    BY <1>0, <1>1, RanksAre DEF SymTypes, Steps
  <2> QED
    BY <1>0, <1>1, <1>2, <2>1, <2>2 DEF Places
<1>5. BarrierInv'
  BY <1>0, <1>1, QuietStep DEF Blocked
<1> QED
  BY <1>3, <1>4, <1>5 DEF SymInv

LEMMA DoPutKept ==
    ASSUME SymInv, NEW r \in Ranks, DoPut(r), UNCHANGED mode
    PROVE  SymInv'
<1> DEFINE to == IF Algo = "ring" THEN Right(r) ELSE r
           v  == local[r][IF Algo = "ring" THEN SendIdx(r, step[r]) ELSE 0]
<1>0. SymTypes /\ Places /\ BarrierInv
  BY DEF SymInv
<1>1. /\ pc[r] = "put" /\ pc' = [pc EXCEPT ![r] = "barrier"]
      /\ second' = [second EXCEPT ![r] = FALSE]
      /\ UNCHANGED <<call, step, local, acc, tokens, resp, turn, entered, passed>>
  BY DEF DoPut, At, Goto, barVars
<1>2. Algo' = Algo /\ Net' = Net /\ Chunks' = Chunks
  BY DEF Algo, Net, Chunks
<1>3. v \in Folds /\ to \in Ranks
  <2>1. (IF Algo = "ring" THEN SendIdx(r, step[r]) ELSE 0) \in Chunks
    BY <1>0, ChunksAre, ModeIs DEF Places, SymTypes
  <2> QED
    BY <1>0, <2>1, RanksAre DEF SymTypes
<1>4. /\ heap' \in [Ranks -> Folds] /\ link' \in [Links -> Seq(Frames)]
      /\ \A l \in Links : Sent(link'[l]) = Sent(link[l])
  <2>1. CASE Net /\ to # r
    <3>1. Sends(<<r, to>>, PutFrame(v)) /\ UNCHANGED heap
      BY <2>1 DEF DoPut
    <3>2. <<r, to>> \in Links /\ PutFrame(v) \in Frames /\ PutFrame(v).kind # "SEND"
      BY <1>3, <2>1, RanksAre, FramesAre
    <3> HIDE DEF to, v
    <3>3. /\ link' \in [Links -> Seq(Frames)]
          /\ \A l \in Links : Sent(link'[l]) = Sent(link[l]) + 0 /\ Sent(link[l]) \in Nat
      BY <1>0, <3>1, <3>2, SendsIs
    <3>4. \A n \in Nat : n + 0 = n
      OBVIOUS
    <3> QED
      BY <1>0, <3>1, <3>3, <3>4 DEF SymTypes
  <2>2. CASE ~(Net /\ to # r)
    <3>1. heap' = [heap EXCEPT ![to] = v] /\ UNCHANGED link
      BY <2>2 DEF DoPut
    <3> HIDE DEF to, v
    <3> QED
      BY <1>0, <1>3, <3>1 DEF SymTypes
  <2> QED
    BY <2>1, <2>2
<1>5. SymTypes'
  <2>1. pc' \in [Ranks -> {"out", "put", "barrier", "get", "getting"} \cup Blocked]
        /\ second' \in [Ranks -> BOOLEAN]
    BY <1>0, <1>1 DEF SymTypes
  <2> QED
    BY <1>0, <1>1, <1>2, <1>4, <2>1 DEF SymTypes
<1>6. Places'
  <2>1. \A q \in Ranks \ {r} : pc'[q] = pc[q] /\ second'[q] = second[q]
    BY <1>0, <1>1 DEF SymTypes
  <2>2. pc'[r] = "barrier" /\ ~second'[r]
    BY <1>0, <1>1 DEF SymTypes
  <2> QED
    BY <1>0, <1>1, <1>2, <2>1, <2>2, RanksAre DEF Places
<1>7. BarrierInv'
  BY <1>0, <1>1, <1>4, QuietStep DEF Blocked
<1> QED
  BY <1>5, <1>6, <1>7 DEF SymInv

LEMMA TakeMailboxKept ==
    ASSUME SymInv, NEW r \in Ranks, TakeMailbox(r), UNCHANGED mode
    PROVE  SymInv'
<1> DEFINE c == RecvIdx(r, step[r])
<1>0. SymTypes /\ Places /\ BarrierInv
  BY DEF SymInv
<1>1. /\ pc[r] = "get" /\ pc' = [pc EXCEPT ![r] = "barrier"] /\ Algo = "ring"
      /\ second' = [second EXCEPT ![r] = TRUE]
      /\ local' = [local EXCEPT ![r][c] = IF Scatter(step[r]) THEN @ \o heap[r] ELSE heap[r]]
      /\ UNCHANGED <<call, step, acc, heap, link, tokens, resp, turn, entered, passed>>
  BY DEF TakeMailbox, At, Goto, barVars, netVars
<1>2. Algo' = Algo /\ Net' = Net /\ Chunks' = Chunks
  BY DEF Algo, Net, Chunks
<1>3. c \in Chunks
  BY <1>0, <1>1, ChunksAre DEF Places, SymTypes
<1>4. local' \in [Ranks -> [Chunks -> Folds]]
  <2>1. heap[r] \in Folds /\ local[r][c] \in Folds /\ local[r] \in [Chunks -> Folds]
    BY <1>0, <1>3 DEF SymTypes
  <2>2. local[r][c] \o heap[r] \in Folds
    BY <2>1, ConcatProperties DEF Folds
  <2> HIDE DEF c
  <2> QED
    BY <1>0, <1>1, <1>3, <2>1, <2>2 DEF SymTypes
<1>5. SymTypes'
  <2>1. pc' \in [Ranks -> {"out", "put", "barrier", "get", "getting"} \cup Blocked]
        /\ second' \in [Ranks -> BOOLEAN]
    BY <1>0, <1>1 DEF SymTypes
  <2> HIDE DEF c
  <2> QED
    BY <1>0, <1>1, <1>2, <1>4, <2>1 DEF SymTypes
<1>6. Places'
  <2>1. \A q \in Ranks \ {r} : pc'[q] = pc[q]
    BY <1>0, <1>1 DEF SymTypes
  <2>2. pc'[r] = "barrier"
    BY <1>0, <1>1 DEF SymTypes
  <2> HIDE DEF c
  <2> QED
    BY <1>0, <1>1, <1>2, <2>1, <2>2, RanksAre DEF Places
<1>7. BarrierInv'
  BY <1>0, <1>1, QuietStep DEF Blocked
<1> QED
  BY <1>5, <1>6, <1>7 DEF SymInv


\* Folding in one slot: types and places stay.
LEMMA FoldInKept ==
    ASSUME SymInv, NEW r \in Ranks, NEW v \in Folds, FoldIn(r, v), Algo = "naive",
           pc[r] \in {"get", "getting"},
           UNCHANGED <<mode, call, second, heap, tokens, turn, entered, passed>>,
           link' \in [Links -> Seq(Frames)], resp' \in [Links -> Seq(Folds)],
           \A l \in Links : Sent(link'[l]) = Sent(link[l])
    PROVE  SymInv'
<1>0. SymTypes /\ Places /\ BarrierInv
  BY DEF SymInv
<1>1. acc' = [acc EXCEPT ![r] = @ \o v] /\ acc[r] \o v \in Folds
  <2>1. acc[r] \in Folds
    BY <1>0 DEF SymTypes
  <2> QED
    BY <2>1, ConcatProperties DEF FoldIn, Folds
<1>2. Algo' = Algo /\ Net' = Net /\ Chunks' = Chunks
  BY DEF Algo, Net, Chunks
<1>3. acc' \in [Ranks -> Folds] /\ acc'[r] \in Folds
  BY <1>0, <1>1 DEF SymTypes
<1>4. 0 \in Chunks
  BY ChunksAre
<1>5. PICK x \in {"get", "out"} : pc' = [pc EXCEPT ![r] = x]
  BY DEF FoldIn, Goto
<1>6. step[r] \in Ranks /\ step \in [Ranks -> Nat]
  BY <1>0 DEF Places, SymTypes
<1>7. \/ step' = step \/ (step' = [step EXCEPT ![r] = @ + 1] /\ step[r] + 1 \in Ranks)
  BY <1>6, RanksAre DEF FoldIn, Ranks
<1>8. \/ local' = local \/ local' = [local EXCEPT ![r][0] = acc'[r]]
  BY DEF FoldIn
<1>9. SymTypes'
  <2>1. pc' \in [Ranks -> {"out", "put", "barrier", "get", "getting"} \cup Blocked]
    BY <1>0, <1>5 DEF SymTypes
  <2>2. step' \in [Ranks -> Nat]
    BY <1>6, <1>7, RanksAre
  <2>3. local' \in [Ranks -> [Chunks -> Folds]]
    <3>1. local \in [Ranks -> [Chunks -> Folds]]
      BY <1>0 DEF SymTypes
    <3>2. [local[r] EXCEPT ![0] = acc'[r]] \in [Chunks -> Folds]
      BY <1>3, <1>4, <3>1
    <3> QED
      BY <1>8, <3>1, <3>2
  <2> QED
    BY <1>0, <1>2, <1>3, <2>1, <2>2, <2>3 DEF SymTypes
<1>10. Places'
  <2>1. \A q \in Ranks \ {r} : pc'[q] = pc[q] /\ step'[q] = step[q]
    BY <1>0, <1>5, <1>6, <1>7 DEF SymTypes
  <2>2. pc'[r] \in {"get", "out"} /\ step'[r] \in Ranks
    BY <1>0, <1>5, <1>6, <1>7 DEF SymTypes
  <2>3. pc'[0] \in {"collect", "release"} => pc[0] = pc'[0]
    BY <2>1, <2>2, RanksAre
  <2>4. /\ Algo' = "naive" /\ \A q \in Ranks : ~second'[q] /\ step'[q] \in Ranks
    BY <1>0, <1>2, <2>1, <2>2 DEF Places
  <2>5. \A q \in Ranks : pc'[q] = "getting" => Net' /\ step'[q] # q
    BY <1>0, <1>2, <2>1, <2>2 DEF Places
  <2>6. \A q \in Ranks : /\ pc'[q] \in {"collect", "release"} => Net' /\ q = 0
                         /\ pc'[q] = "wait" => ~(Net' /\ q = 0)
    BY <1>0, <1>2, <2>1, <2>2 DEF Places
  <2>7. pc'[0] \in {"collect", "release"} => turn' \in 1..(N - 1)
    BY <1>0, <2>3 DEF Places
  <2> QED
    BY <2>4, <2>5, <2>6, <2>7 DEF Places
<1>11. BarrierInv'
  BY <1>0, <1>5, QuietStep DEF Blocked
<1> QED
  BY <1>9, <1>10, <1>11 DEF SymInv

LEMMA GetSlotKept ==
    ASSUME SymInv, NEW r \in Ranks, GetSlot(r), UNCHANGED mode
    PROVE  SymInv'
<1>0. SymTypes /\ Places /\ BarrierInv
  BY DEF SymInv
<1>1. /\ pc[r] = "get" /\ Algo = "naive"
      /\ UNCHANGED <<call, second, heap, tokens, resp, turn, entered, passed>>
  BY DEF GetSlot, At, barVars
<1>2. step[r] \in Ranks
  BY <1>0, <1>1 DEF Places
<1>3. CASE Net /\ step[r] # r
  <2>1. /\ Sends(<<r, step[r]>>, GetReq) /\ pc' = [pc EXCEPT ![r] = "getting"]
        /\ UNCHANGED <<step, local, acc>>
    BY <1>3 DEF GetSlot, Goto
  <2>2. Algo' = Algo /\ Net' = Net /\ Chunks' = Chunks
    BY DEF Algo, Net, Chunks
  <2>3. <<r, step[r]>> \in Links /\ GetReq \in Frames /\ GetReq.kind # "SEND"
    BY <1>2, <1>3, RanksAre, FramesAre
  <2>4. /\ link' \in [Links -> Seq(Frames)]
        /\ \A l \in Links : Sent(link'[l]) = Sent(link[l]) + 0 /\ Sent(link[l]) \in Nat
    BY <1>0, <2>1, <2>3, SendsIs
  <2>5. \A n \in Nat : n + 0 = n
    OBVIOUS
  <2>6. BarrierInv'
    BY <1>0, <1>1, <2>1, <2>4, <2>5, QuietStep DEF Blocked
  <2>7. SymTypes'
    <3>1. pc' \in [Ranks -> {"out", "put", "barrier", "get", "getting"} \cup Blocked]
      BY <1>0, <2>1 DEF SymTypes
    <3> QED
      BY <1>0, <1>1, <2>1, <2>2, <2>4, <3>1 DEF SymTypes
  <2>8. Places'
    <3>1. \A q \in Ranks \ {r} : pc'[q] = pc[q]
      BY <1>0, <2>1 DEF SymTypes
    <3>2. pc'[r] = "getting"
      BY <1>0, <2>1 DEF SymTypes
    <3> QED
      BY <1>0, <1>1, <1>3, <2>1, <2>2, <3>1, <3>2, RanksAre DEF Places
  <2> QED
    BY <2>6, <2>7, <2>8 DEF SymInv
<1>4. CASE ~(Net /\ step[r] # r)
  <2>1. FoldIn(r, heap[step[r]]) /\ UNCHANGED link
    BY <1>4 DEF GetSlot
  <2>2. heap[step[r]] \in Folds
    BY <1>0, <1>2 DEF SymTypes
  <2> QED
    BY <1>0, <1>1, <2>1, <2>2, FoldInKept DEF SymTypes
<1> QED
  BY <1>3, <1>4

LEMMA GetTakeKept ==
    ASSUME SymInv, NEW r \in Ranks, GetTake(r), UNCHANGED mode
    PROVE  SymInv'
<1> DEFINE l == <<step[r], r>>
<1>0. SymTypes /\ Places /\ BarrierInv
  BY DEF SymInv
<1>1. /\ pc[r] = "getting" /\ resp[l] # << >> /\ FoldIn(r, Head(resp[l]))
      /\ resp' = [resp EXCEPT ![l] = Tail(@)]
      /\ UNCHANGED <<call, second, heap, link, tokens, turn, entered, passed>>
  BY DEF GetTake, At, barVars
<1>2. Algo = "naive" /\ step[r] \in Ranks /\ step[r] # r
  BY <1>0, <1>1 DEF Places
<1>3. l \in Links /\ resp \in [Links -> Seq(Folds)]
  BY <1>0, <1>2, RanksAre DEF SymTypes
<1> HIDE DEF l
<1>4. resp' \in [Links -> Seq(Folds)] /\ Head(resp[l]) \in Folds
  BY <1>1, <1>3, QueueTake
<1> QED
  BY <1>0, <1>1, <1>2, <1>4, FoldInKept DEF SymTypes


\* Leaving a barrier: types and places stay.
LEMMA PassesKept ==
    ASSUME SymInv, NEW r \in Ranks, Passes(r), UNCHANGED <<mode, entered>>,
           r # 0 => UNCHANGED turn, turn' \in Nat,
           link' \in [Links -> Seq(Frames)], tokens' \in [Links -> Nat], UNCHANGED resp
    PROVE  /\ SymTypes' /\ Places'
           /\ passed' = [passed EXCEPT ![r] = @ + 1]
           /\ pc'[r] \notin Blocked
           /\ \A q \in Ranks \ {r} : pc'[q] = pc[q]
<1>0. SymTypes /\ Places
  BY DEF SymInv
<1>1. /\ passed' = [passed EXCEPT ![r] = @ + 1]
      /\ UNCHANGED <<call, second, local, acc, heap>>
  BY DEF Passes, dataVars
<1>2. Algo' = Algo /\ Net' = Net /\ Chunks' = Chunks
  BY DEF Algo, Net, Chunks
<1>3. PICK x \in {"get", "put", "out"} : pc' = [pc EXCEPT ![r] = x]
  BY DEF Passes, Goto
<1>4. /\ step' = step \/ step' = [step EXCEPT ![r] = @ + 1]
      /\ step' # step => second[r] /\ step[r] < Steps - 1
  BY DEF Passes
<1>5. /\ \A q \in Ranks \ {r} : pc'[q] = pc[q] /\ step'[q] = step[q]
      /\ pc'[r] \in {"get", "put", "out"}
      /\ step' \in [Ranks -> Nat]
      /\ step'[r] = step[r] \/ (step'[r] = step[r] + 1 /\ second[r] /\ step[r] < Steps - 1)
  <2>1. pc'[r] \in {"get", "put", "out"} /\ \A q \in Ranks \ {r} : pc'[q] = pc[q]
    BY <1>0, <1>3 DEF SymTypes
  <2>2. step \in [Ranks -> Nat] /\ step[r] \in Nat
    BY <1>0 DEF SymTypes
  <2>3. CASE step' = step
    BY <2>1, <2>2, <2>3
  <2>4. CASE step' # step
    <3>1. step' = [step EXCEPT ![r] = @ + 1] /\ second[r] /\ step[r] < Steps - 1
      BY <1>4, <2>4
    <3>2. step' \in [Ranks -> Nat] /\ step'[r] = step[r] + 1 /\ \A q \in Ranks \ {r} : step'[q] = step[q]
      BY <2>2, <3>1
    <3> QED
      BY <2>1, <3>1, <3>2
  <2> QED
    BY <2>3, <2>4
<1>6. SymTypes'
  <2>1. pc' \in [Ranks -> {"out", "put", "barrier", "get", "getting"} \cup Blocked]
    BY <1>0, <1>3 DEF SymTypes
  <2>2. passed' \in [Ranks -> Nat]
    BY <1>0, <1>1 DEF SymTypes
  <2> QED
    BY <1>0, <1>1, <1>2, <1>5, <2>1, <2>2 DEF SymTypes
<1>7. Places'
  <2>1. Algo' = "naive" => \A q \in Ranks : ~second'[q] /\ step'[q] \in Ranks
    BY <1>0, <1>1, <1>2, <1>5 DEF Places
  <2>2. Algo' = "ring" => \A q \in Ranks : step'[q] \in 0..(Steps - 1)
    <3> SUFFICES ASSUME Algo = "ring", NEW q \in Ranks
                 PROVE  step'[q] \in 0..(Steps - 1)
      BY <1>2
    <3>1. step[q] \in 0..(Steps - 1) /\ Steps \in Int
      BY <1>0, RanksAre DEF Places, Steps
    <3> QED
      BY <1>5, <3>1
  <2>3. \A q \in Ranks : /\ pc'[q] \in {"collect", "release"} => Net' /\ q = 0
                         /\ pc'[q] = "wait" => ~(Net' /\ q = 0)
                         /\ pc'[q] = "getting" => Net' /\ Algo' = "naive" /\ step'[q] # q
    BY <1>0, <1>2, <1>5 DEF Places
  <2>4. pc'[0] \in {"collect", "release"} => turn' \in 1..(N - 1)
    BY <1>0, <1>5, RanksAre DEF Places
  <2> QED
    BY <2>1, <2>2, <2>3, <2>4 DEF Places
<1> QED
  BY <1>1, <1>5, <1>6, <1>7 DEF Blocked

LEMMA BarrierEnterKept ==
    ASSUME SymInv, NEW r \in Ranks, BarrierEnter(r), UNCHANGED mode
    PROVE  SymInv'
<1> DEFINE x == IF Net /\ r = 0 THEN "collect" ELSE "wait"
<1>0. SymTypes /\ Places /\ BarrierInv
  BY DEF SymInv
<1>1. /\ pc[r] = "barrier" /\ pc' = [pc EXCEPT ![r] = x]
      /\ entered' = [entered EXCEPT ![r] = @ + 1]
      /\ turn' = IF r = 0 THEN 1 ELSE turn
      /\ UNCHANGED <<call, step, second, local, acc, heap, tokens, resp, passed>>
  BY DEF BarrierEnter, At, Goto, dataVars
<1>2. Algo' = Algo /\ Net' = Net /\ Chunks' = Chunks
  BY DEF Algo, Net, Chunks
<1>3. /\ link' \in [Links -> Seq(Frames)]
      /\ \A l \in Links : Sent(link[l]) \in Nat
      /\ \A l \in Links : Sent(link'[l]) = Sent(link[l]) + (IF Net /\ r # 0 /\ l = <<r, 0>> THEN 1 ELSE 0)
  <2>1. CASE Net /\ r # 0
    <3>1. Sends(<<r, 0>>, Token)
      BY <2>1 DEF BarrierEnter
    <3>2. <<r, 0>> \in Links
      BY <2>1, RanksAre
    <3> QED
      BY <1>0, <2>1, <3>1, <3>2, SendsIs, FramesAre
  <2>2. CASE ~(Net /\ r # 0)
    <3>1. UNCHANGED link
      BY <2>2 DEF BarrierEnter
    <3>2. \A l \in Links : Sent(link[l]) \in Nat
      BY <1>0, SentAppend, FramesAre DEF SymTypes
    <3>3. \A l \in Links : Sent(link[l]) = Sent(link[l]) + 0
      BY <3>2
    <3> QED
      BY <1>0, <2>2, <3>1, <3>2, <3>3 DEF SymTypes
  <2> QED
    BY <2>1, <2>2
<1>4. /\ pc'[r] = x /\ \A q \in Ranks \ {r} : pc'[q] = pc[q]
      /\ entered'[r] = entered[r] + 1 /\ \A q \in Ranks \ {r} : entered'[q] = entered[q]
  BY <1>0, <1>1 DEF SymTypes
<1>5. SymTypes'
  <2>1. pc' \in [Ranks -> {"out", "put", "barrier", "get", "getting"} \cup Blocked]
    BY <1>0, <1>1 DEF SymTypes, Blocked
  <2>2. entered' \in [Ranks -> Nat] /\ turn' \in Nat
    BY <1>0, <1>1 DEF SymTypes
  <2> QED
    BY <1>0, <1>1, <1>2, <1>3, <2>1, <2>2 DEF SymTypes
<1>6. Places'
  <2>1. 1 \in 1..(N - 1)
    BY RanksAre
  <2>2. \A q \in Ranks : /\ pc'[q] \in {"collect", "release"} => Net' /\ q = 0
                         /\ pc'[q] = "wait" => ~(Net' /\ q = 0)
                         /\ pc'[q] = "getting" => Net' /\ Algo' = "naive" /\ step'[q] # q
    BY <1>0, <1>1, <1>2, <1>4 DEF Places
  <2>3. pc'[0] \in {"collect", "release"} => turn' \in 1..(N - 1)
    BY <1>0, <1>1, <1>4, <2>1, RanksAre DEF Places
  <2> QED
    BY <1>0, <1>1, <1>2, <2>2, <2>3 DEF Places
<1>7. BarrierInv'
  <2>1. \A q \in Ranks : entered'[q] = passed'[q] + IF pc'[q] \in Blocked THEN 1 ELSE 0
    <3> TAKE q \in Ranks
    <3>1. entered[q] = passed[q] + (IF pc[q] \in Blocked THEN 1 ELSE 0) /\ passed[q] \in Nat
      BY <1>0 DEF BarrierInv, SymTypes
    <3>2. CASE q = r
      <4>1. pc[q] \notin Blocked /\ pc'[q] \in Blocked
        BY <1>1, <1>4, <3>2 DEF Blocked
      <4> QED
        BY <1>1, <1>4, <3>1, <3>2, <4>1
    <3>3. CASE q # r
      BY <1>1, <1>4, <3>1, <3>3
    <3> QED
      BY <3>2, <3>3
  <2>2. ASSUME ~Net PROVE BarrierHolds'
    <3>1. \A q \in Ranks : entered'[q] >= entered[q] /\ entered[q] \in Nat /\ entered'[q] \in Nat /\ passed[q] \in Nat
      <4> TAKE q \in Ranks
      <4>1. entered[q] \in Nat /\ passed[q] \in Nat
        BY <1>0 DEF SymTypes
      <4>2. entered'[q] = entered[q] \/ entered'[q] = entered[q] + 1
        BY <1>4
      <4> QED
        BY <4>1, <4>2
    <3>2. \A q, p \in Ranks : passed[q] =< entered[p]
      BY <1>0, <2>2 DEF BarrierInv, BarrierHolds
    <3>3. ASSUME NEW q \in Ranks, NEW p \in Ranks PROVE passed[q] =< entered'[p]
      <4>1. passed[q] =< entered[p] /\ entered'[p] >= entered[p] /\ entered[p] \in Nat /\ entered'[p] \in Nat /\ passed[q] \in Nat
        BY <3>1, <3>2
      <4> QED
        BY <4>1
    <3> QED
      BY <1>1, <3>3 DEF BarrierHolds
  <2>3. ASSUME Net, NEW q \in Others
        PROVE  /\ entered'[q] = Flying(<<q, 0>>)' + Collected(q)'
               /\ passed'[q] + Flying(<<0, q>>)' = Released(q)'
    <3>0. q \in Ranks /\ q # 0 /\ <<q, 0>> \in Links /\ <<0, q>> \in Links /\ <<0, q>> # <<r, 0>> /\ 0 \in Ranks /\ q \in 1..(N - 1)
      BY RanksAre
    <3>1. /\ entered[q] = Flying(<<q, 0>>) + Collected(q)
          /\ passed[q] + Flying(<<0, q>>) = Released(q)
      BY <1>0, <2>3 DEF BarrierInv
    <3>2. Collected(q)' = Collected(q) /\ Released(q)' = Released(q)
      <4>1. CASE r = 0
        <5>1. pc[0] = "barrier" /\ pc'[0] = "collect" /\ turn' = 1 /\ ~(q < 1)
          BY <1>1, <1>4, <2>3, <3>0, <4>1
        <5> QED
          BY <1>1, <5>1 DEF Collected, Released
      <4>2. CASE r # 0
        BY <1>1, <1>4, <3>0, <4>2 DEF Collected, Released
      <4> QED
        BY <4>1, <4>2
    <3>3. /\ Sent(link[<<q, 0>>]) \in Nat /\ tokens[<<q, 0>>] \in Nat
          /\ Sent(link[<<0, q>>]) \in Nat /\ tokens[<<0, q>>] \in Nat
          /\ entered[q] \in Nat /\ Collected(q) \in Nat
      BY <1>0, CountsAre
    <3>4. Flying(<<0, q>>)' = Flying(<<0, q>>)
      BY <1>1, <1>3, <3>0, <3>3 DEF Flying
    <3>5. Flying(<<q, 0>>)' = Flying(<<q, 0>>) + (IF q = r THEN 1 ELSE 0)
      <4>1. <<q, 0>> = <<r, 0>> <=> q = r
        OBVIOUS
      <4>2. Sent(link'[<<q, 0>>]) = Sent(link[<<q, 0>>]) + (IF q = r THEN 1 ELSE 0)
        BY <1>3, <2>3, <3>0, <4>1
      <4> QED
        BY <1>1, <3>3, <4>2 DEF Flying
    <3>6. entered'[q] = entered[q] + (IF q = r THEN 1 ELSE 0)
      <4>1. entered[q] + 0 = entered[q]
        BY <3>3
      <4> QED
        BY <1>4, <3>0, <4>1
    <3>7. Flying(<<q, 0>>) \in Nat
      BY <3>3 DEF Flying
    <3>8. entered'[q] = Flying(<<q, 0>>)' + Collected(q)'
      BY <3>1, <3>2, <3>3, <3>5, <3>6, <3>7
    <3> QED
      BY <1>1, <3>1, <3>2, <3>4, <3>8
  <2> QED
    BY <1>2, <2>1, <2>2, <2>3 DEF BarrierInv
<1> QED
  BY <1>5, <1>6, <1>7 DEF SymInv

\* LocalTransport's barrier: the last to enter lets everyone go.
LEMMA LocalReleaseKept ==
    ASSUME SymInv, NEW r \in Ranks, LocalRelease(r), UNCHANGED mode
    PROVE  SymInv'
<1>0. SymTypes /\ Places /\ BarrierInv
  BY DEF SymInv
<1>1. /\ ~Net /\ pc[r] = "wait" /\ Passes(r)
      /\ \A q \in Ranks : entered[q] >= entered[r]
      /\ UNCHANGED <<link, tokens, resp, turn, entered>>
  BY DEF LocalRelease, At, netVars
<1>2. Net' = Net
  BY DEF Net
<1>3. /\ SymTypes' /\ Places' /\ passed' = [passed EXCEPT ![r] = @ + 1]
      /\ pc'[r] \notin Blocked /\ \A q \in Ranks \ {r} : pc'[q] = pc[q]
  BY <1>0, <1>1, PassesKept DEF SymTypes
<1>4. \A q \in Ranks : passed[q] \in Nat /\ entered[q] \in Nat
  BY <1>0 DEF SymTypes
<1>5. passed'[r] = passed[r] + 1 /\ \A q \in Ranks \ {r} : passed'[q] = passed[q]
  BY <1>0, <1>3 DEF SymTypes
<1>6. entered[r] = passed[r] + 1
  BY <1>0, <1>1 DEF BarrierInv, Blocked
<1>7. \A q \in Ranks : entered'[q] = passed'[q] + IF pc'[q] \in Blocked THEN 1 ELSE 0
  <2> TAKE q \in Ranks
  <2>1. CASE q = r
    <3>1. passed[r] + 1 = (passed[r] + 1) + 0
      BY <1>4
    <3> QED
      BY <1>1, <1>3, <1>5, <1>6, <2>1, <3>1
  <2>2. CASE q # r
    BY <1>0, <1>1, <1>3, <1>5, <2>2 DEF BarrierInv
  <2> QED
    BY <2>1, <2>2
<1>8. BarrierHolds'
  <2>1. ASSUME NEW q \in Ranks, NEW p \in Ranks PROVE passed'[q] =< entered[p]
    <3>1. CASE q = r
      BY <1>1, <1>4, <1>5, <1>6, <3>1
    <3>2. CASE q # r
      BY <1>0, <1>1, <1>5, <3>2 DEF BarrierInv, BarrierHolds
    <3> QED
      BY <3>1, <3>2
  <2> QED
    BY <1>1, <2>1 DEF BarrierHolds
<1> QED
  BY <1>1, <1>2, <1>3, <1>7, <1>8 DEF SymInv, BarrierInv

\* A rank takes its release from rank 0.
LEMMA ReleaseKept ==
    ASSUME SymInv, NEW r \in Ranks, Release(r), UNCHANGED mode
    PROVE  SymInv'
<1>0. SymTypes /\ Places /\ BarrierInv
  BY DEF SymInv
<1>1. /\ Net /\ pc[r] = "wait" /\ r # 0 /\ Passes(r)
      /\ tokens[<<0, r>>] > 0 /\ tokens' = [tokens EXCEPT ![<<0, r>>] = @ - 1]
      /\ UNCHANGED <<link, resp, turn, entered>>
  BY DEF Release, At, TakeToken
<1>2. Net' = Net
  BY DEF Net
<1>3. <<0, r>> \in Links /\ tokens \in [Links -> Nat] /\ 0 \in Ranks
  BY <1>0, <1>1, RanksAre DEF SymTypes
<1>4. tokens' \in [Links -> Nat]
  <2>1. tokens[<<0, r>>] - 1 \in Nat
    BY <1>1, <1>3
  <2> QED
    BY <1>1, <1>3, <2>1
<1>5. /\ SymTypes' /\ Places' /\ passed' = [passed EXCEPT ![r] = @ + 1]
      /\ pc'[r] \notin Blocked /\ \A q \in Ranks \ {r} : pc'[q] = pc[q]
  BY <1>0, <1>1, <1>4, PassesKept DEF SymTypes
<1>6. \A q \in Ranks : passed[q] \in Nat /\ entered[q] \in Nat
  BY <1>0 DEF SymTypes
<1>7. passed'[r] = passed[r] + 1 /\ \A q \in Ranks \ {r} : passed'[q] = passed[q]
  BY <1>0, <1>5 DEF SymTypes
<1>8. entered[r] = passed[r] + 1
  BY <1>0, <1>1 DEF BarrierInv, Blocked
<1>9. \A q \in Ranks : entered'[q] = passed'[q] + IF pc'[q] \in Blocked THEN 1 ELSE 0
  <2> TAKE q \in Ranks
  <2>1. CASE q = r
    <3>1. passed[r] + 1 = (passed[r] + 1) + 0
      BY <1>6
    <3> QED
      BY <1>1, <1>5, <1>7, <1>8, <2>1, <3>1
  <2>2. CASE q # r
    BY <1>0, <1>1, <1>5, <1>7, <2>2 DEF BarrierInv
  <2> QED
    BY <2>1, <2>2
<1>10. ASSUME NEW q \in Others
       PROVE  /\ entered'[q] = Flying(<<q, 0>>)' + Collected(q)'
              /\ passed'[q] + Flying(<<0, q>>)' = Released(q)'
  <2>0. q \in Ranks /\ <<q, 0>> # <<0, r>> /\ <<q, 0>> \in Links /\ <<0, q>> \in Links
    BY RanksAre
  <2>1. /\ entered[q] = Flying(<<q, 0>>) + Collected(q)
        /\ passed[q] + Flying(<<0, q>>) = Released(q)
    BY <1>0, <1>1 DEF BarrierInv
  <2>2. Collected(q)' = Collected(q) /\ Released(q)' = Released(q)
    BY <1>1, <1>3, <1>5, <1>7 DEF Collected, Released
  <2>3. Flying(<<q, 0>>)' = Flying(<<q, 0>>)
    BY <1>1, <1>3, <2>0 DEF Flying
  <2>4. passed'[q] + Flying(<<0, q>>)' = passed[q] + Flying(<<0, q>>)
    <3>0. /\ Sent(link[<<0, q>>]) \in Nat /\ tokens[<<0, q>>] \in Nat /\ passed[q] \in Nat
      BY <1>0, CountsAre
    <3>1. CASE q = r
      <4>1. tokens'[<<0, q>>] = tokens[<<0, q>>] - 1 /\ passed'[q] = passed[q] + 1
        BY <1>1, <1>3, <1>7, <3>1
      <4> QED
        BY <1>1, <3>0, <4>1 DEF Flying
    <3>2. CASE q # r
      <4>1. tokens'[<<0, q>>] = tokens[<<0, q>>] /\ passed'[q] = passed[q]
        BY <1>1, <1>3, <1>7, <2>0, <3>2
      <4> QED
        BY <1>1, <4>1 DEF Flying
    <3> QED
      BY <3>1, <3>2
  <2> QED
    BY <1>1, <2>1, <2>2, <2>3, <2>4
<1> QED
  BY <1>1, <1>2, <1>5, <1>9, <1>10 DEF SymInv, BarrierInv

\* Rank 0 takes the token of the rank its loop is at.
LEMMA RootCollectsKept ==
    ASSUME SymInv, RootCollects, UNCHANGED mode
    PROVE  SymInv'
<1> DEFINE x == IF turn < N - 1 THEN "collect" ELSE "release"
<1>0. SymTypes /\ Places /\ BarrierInv
  BY DEF SymInv
<1>1. /\ pc[0] = "collect" /\ pc' = [pc EXCEPT ![0] = x]
      /\ tokens[<<turn, 0>>] > 0 /\ tokens' = [tokens EXCEPT ![<<turn, 0>>] = @ - 1]
      /\ turn' = IF turn < N - 1 THEN turn + 1 ELSE 1
      /\ UNCHANGED <<call, step, second, local, acc, heap, link, resp, entered, passed>>
  BY DEF RootCollects, At, Goto, TakeToken, dataVars
<1>2. Algo' = Algo /\ Net' = Net /\ Chunks' = Chunks
  BY DEF Algo, Net, Chunks
<1>3. 0 \in Ranks /\ turn \in 1..(N - 1) /\ turn \in Others /\ N \in Nat /\ N > 1 /\ Net
  BY <1>0, <1>1, RanksAre DEF Places
<1>4. <<turn, 0>> \in Links /\ tokens \in [Links -> Nat]
  BY <1>0, <1>3, RanksAre DEF SymTypes
<1>5. tokens' \in [Links -> Nat]
  <2>1. tokens[<<turn, 0>>] - 1 \in Nat
    BY <1>1, <1>4
  <2> QED
    BY <1>1, <1>4, <2>1
<1>6. turn' \in 1..(N - 1)
  BY <1>1, <1>3
<1>7. pc'[0] = x /\ x \in {"collect", "release"} /\ \A q \in Ranks \ {0} : pc'[q] = pc[q]
  BY <1>0, <1>1, <1>3 DEF SymTypes
<1>8. SymTypes'
  <2>1. pc' \in [Ranks -> {"out", "put", "barrier", "get", "getting"} \cup Blocked]
    BY <1>0, <1>1 DEF SymTypes, Blocked
  <2>2. turn' \in Nat
    BY <1>1, <1>3
  <2>3. UNCHANGED <<call, step, second, local, acc, heap, link, resp, entered, passed>>
    BY <1>1
  <2> QED
    BY <1>0, <1>2, <1>5, <2>1, <2>2, <2>3 DEF SymTypes
<1>9. Places'
  <2> HIDE DEF x
  <2> QED
    BY <1>0, <1>1, <1>2, <1>3, <1>6, <1>7 DEF Places
<1>10. \A q \in Ranks : pc'[q] \in Blocked <=> pc[q] \in Blocked
  BY <1>1, <1>7 DEF Blocked
<1>11. ASSUME NEW q \in Others
       PROVE  /\ entered'[q] = Flying(<<q, 0>>)' + Collected(q)'
              /\ passed'[q] + Flying(<<0, q>>)' = Released(q)'
  <2>0. q \in 1..(N - 1) /\ <<q, 0>> \in Links /\ <<0, q>> \in Links /\ <<0, q>> # <<turn, 0>>
    BY <1>3, RanksAre
  <2>1. /\ entered[q] = Flying(<<q, 0>>) + Collected(q)
        /\ passed[q] + Flying(<<0, q>>) = Released(q)
    BY <1>0, <1>3 DEF BarrierInv
  <2>2. /\ Sent(link[<<q, 0>>]) \in Nat /\ tokens[<<q, 0>>] \in Nat /\ passed[0] \in Nat
    BY <1>0, CountsAre
  <2>3. Flying(<<0, q>>)' = Flying(<<0, q>>)
    BY <1>1, <1>4, <2>0 DEF Flying
  <2>4. Released(q)' = Released(q)
    <3>1. ~(pc[0] = "release" /\ q < turn)
      BY <1>1
    <3>2. ~(pc'[0] = "release" /\ q < turn')
      BY <1>1, <1>3, <1>7, <2>0
    <3> QED
      BY <1>1, <3>1, <3>2 DEF Released
  <2>5. Flying(<<q, 0>>)' + Collected(q)' = Flying(<<q, 0>>) + Collected(q)
    <3>1. CASE q = turn
      <4>1. Collected(q) = passed[0] + 0
        BY <1>1, <1>3, <3>1 DEF Collected
      <4>2. Collected(q)' = passed[0] + 1
        BY <1>1, <1>3, <1>7, <3>1 DEF Collected
      <4>3. tokens'[<<q, 0>>] = tokens[<<q, 0>>] - 1
        BY <1>1, <1>4, <3>1
      <4> QED
        BY <1>1, <2>2, <4>1, <4>2, <4>3 DEF Flying
    <3>2. CASE q # turn
      <4>1. Collected(q)' = Collected(q)
        <5>1. (pc[0] = "release" \/ (pc[0] = "collect" /\ q < turn)) <=> q < turn
          BY <1>1
        <5>2. (pc'[0] = "release" \/ (pc'[0] = "collect" /\ q < turn')) <=> q < turn
          BY <1>1, <1>3, <1>7, <2>0, <3>2
        <5> QED
          BY <1>1, <5>1, <5>2 DEF Collected
      <4>2. <<q, 0>> # <<turn, 0>>
        BY <3>2
      <4>3. tokens'[<<q, 0>>] = tokens[<<q, 0>>]
        BY <1>1, <1>4, <2>0, <4>2
      <4> QED
        BY <1>1, <4>1, <4>3 DEF Flying
    <3> QED
      BY <3>1, <3>2
  <2> QED
    BY <1>1, <2>1, <2>3, <2>4, <2>5
<1>12. \A q \in Ranks : entered'[q] = passed'[q] + IF pc'[q] \in Blocked THEN 1 ELSE 0
  BY <1>0, <1>1, <1>10 DEF BarrierInv
<1> QED
  BY <1>2, <1>3, <1>8, <1>9, <1>11, <1>12 DEF SymInv, BarrierInv

\* Rank 0 releases the rank its loop is at; after the last one it passes itself.
LEMMA RootReleasesKept ==
    ASSUME SymInv, RootReleases, UNCHANGED mode
    PROVE  SymInv'
<1>0. SymTypes /\ Places /\ BarrierInv
  BY DEF SymInv
<1>1. /\ pc[0] = "release" /\ Sends(<<0, turn>>, Token) /\ turn' = turn + 1
      /\ UNCHANGED <<tokens, resp, entered>>
  BY DEF RootReleases, At
<1>2. Algo' = Algo /\ Net' = Net /\ Chunks' = Chunks
  BY DEF Algo, Net, Chunks
<1>3. 0 \in Ranks /\ turn \in 1..(N - 1) /\ turn \in Others /\ N \in Nat /\ N > 1 /\ Net
  BY <1>0, <1>1, RanksAre DEF Places
<1>4. /\ link' \in [Links -> Seq(Frames)]
      /\ \A l \in Links : Sent(link[l]) \in Nat
      /\ \A l \in Links : Sent(link'[l]) = Sent(link[l]) + (IF l = <<0, turn>> THEN 1 ELSE 0)
  <2>1. <<0, turn>> \in Links
    BY <1>3, RanksAre
  <2> QED
    BY <1>0, <1>1, <2>1, SendsIs, FramesAre
<1>5. /\ SymTypes' /\ Places'
      /\ \A q \in Ranks : entered'[q] = passed'[q] + IF pc'[q] \in Blocked THEN 1 ELSE 0
      /\ \A q \in Others : passed'[q] = passed[q] /\ Collected(q)' = Collected(q)
      /\ \A q \in Others : Released(q)' = Released(q) + (IF q = turn THEN 1 ELSE 0)
  <2>0. \A q \in Others : q \in Ranks \ {0} /\ q \in 1..(N - 1)
    BY RanksAre
  <2>c. \A q \in Others : Collected(q) = passed[0] + 1
    BY <1>1 DEF Collected
  <2>r. \A q \in Others : Released(q) = passed[0] + IF q < turn THEN 1 ELSE 0
    BY <1>1 DEF Released
  <2>p. passed[0] \in Nat
    BY <1>0, <1>3 DEF SymTypes
  <2>1. CASE turn < N - 1
    <3>1. pc' = [pc EXCEPT ![0] = "release"] /\ UNCHANGED <<call, step, second, local, acc, heap, passed>>
      BY <2>1 DEF RootReleases, Goto, dataVars
    <3>2. pc' = pc
      BY <1>0, <1>1, <3>1 DEF SymTypes
    <3>3. turn' \in 1..(N - 1)
      BY <1>1, <1>3, <2>1
    <3>4. SymTypes'
      <4>1. turn' \in Nat /\ UNCHANGED <<tokens, resp, entered>>
        BY <1>1, <1>3, <3>3
      <4> QED
        BY <1>0, <1>2, <1>4, <3>1, <3>2, <4>1 DEF SymTypes
    <3>5. Places'
      BY <1>0, <1>2, <3>1, <3>2, <3>3 DEF Places
    <3>6. \A q \in Ranks : entered'[q] = passed'[q] + IF pc'[q] \in Blocked THEN 1 ELSE 0
      BY <1>0, <1>1, <3>1, <3>2 DEF BarrierInv
    <3>7. \A q \in Others : Collected(q)' = Collected(q)
      BY <1>1, <2>c, <3>1, <3>2 DEF Collected
    <3>8. ASSUME NEW q \in Others PROVE Released(q)' = Released(q) + (IF q = turn THEN 1 ELSE 0)
      <4>1. Released(q)' = passed[0] + IF q < turn + 1 THEN 1 ELSE 0
        BY <1>1, <3>1, <3>2 DEF Released
      <4> QED
        BY <1>3, <2>0, <2>p, <2>r, <4>1
    <3> QED
      BY <3>1, <3>4, <3>5, <3>6, <3>7, <3>8
  <2>2. CASE ~(turn < N - 1)
    <3>1. Passes(0) /\ turn = N - 1 /\ turn' \in Nat
      BY <1>1, <1>3, <2>2 DEF RootReleases
    <3>2. /\ SymTypes' /\ Places' /\ passed' = [passed EXCEPT ![0] = @ + 1]
          /\ pc'[0] \notin Blocked /\ \A q \in Ranks \ {0} : pc'[q] = pc[q]
      BY <1>0, <1>1, <1>3, <1>4, <3>1, PassesKept DEF SymInv, SymTypes
    <3>3. passed'[0] = passed[0] + 1 /\ \A q \in Ranks \ {0} : passed'[q] = passed[q]
      BY <1>0, <1>3, <3>2 DEF SymTypes
    <3>4. entered[0] = passed[0] + 1
      BY <1>0, <1>1, <1>3 DEF BarrierInv, Blocked
    <3>5. \A q \in Ranks : entered'[q] = passed'[q] + IF pc'[q] \in Blocked THEN 1 ELSE 0
      <4> TAKE q \in Ranks
      <4>1. CASE q = 0
        <5>1. passed[0] + 1 = (passed[0] + 1) + 0
          BY <2>p
        <5> QED
          BY <1>1, <3>2, <3>3, <3>4, <4>1, <5>1
      <4>2. CASE q # 0
        BY <1>0, <1>1, <3>2, <3>3, <4>2 DEF BarrierInv
      <4> QED
        BY <4>1, <4>2
    <3>6. pc'[0] # "release" /\ pc'[0] # "collect" /\ passed[0] + 1 = (passed[0] + 1) + 0
      BY <2>p, <3>2 DEF Blocked
    <3>7. \A q \in Others : Collected(q)' = passed[0] + 1 /\ Released(q)' = passed[0] + 1
      BY <3>3, <3>6 DEF Collected, Released
    <3>8. ASSUME NEW q \in Others PROVE Released(q)' = Released(q) + (IF q = turn THEN 1 ELSE 0)
      BY <1>3, <2>0, <2>p, <2>r, <3>1, <3>7
    <3> QED
      BY <2>0, <2>c, <3>2, <3>3, <3>5, <3>7, <3>8
  <2> QED
    BY <2>1, <2>2
<1>6. ASSUME NEW q \in Others
      PROVE  /\ entered'[q] = Flying(<<q, 0>>)' + Collected(q)'
             /\ passed'[q] + Flying(<<0, q>>)' = Released(q)'
  <2>0. q # 0 /\ <<q, 0>> \in Links /\ <<0, q>> \in Links /\ <<q, 0>> # <<0, turn>>
    BY <1>3, RanksAre
  <2>1. /\ entered[q] = Flying(<<q, 0>>) + Collected(q)
        /\ passed[q] + Flying(<<0, q>>) = Released(q)
    BY <1>0, <1>3 DEF BarrierInv
  <2>2. /\ Sent(link[<<q, 0>>]) \in Nat /\ tokens[<<q, 0>>] \in Nat /\ passed[q] \in Nat
        /\ Sent(link[<<0, q>>]) \in Nat /\ tokens[<<0, q>>] \in Nat
    BY <1>0, CountsAre
  <2>3. Sent(link[<<q, 0>>]) + 0 = Sent(link[<<q, 0>>])
    BY <2>2
  <2>4. Flying(<<q, 0>>)' = Flying(<<q, 0>>)
    BY <1>1, <1>4, <2>0, <2>3 DEF Flying
  <2>5. <<0, q>> = <<0, turn>> <=> q = turn
    OBVIOUS
  <2>6. Sent(link'[<<0, q>>]) = Sent(link[<<0, q>>]) + (IF q = turn THEN 1 ELSE 0)
    BY <1>4, <2>0, <2>5
  <2>7. Flying(<<0, q>>)' = Flying(<<0, q>>) + (IF q = turn THEN 1 ELSE 0)
    BY <1>1, <2>2, <2>6 DEF Flying
  <2>8. Flying(<<0, q>>) \in Nat
    BY <2>2 DEF Flying
  <2>9. passed'[q] + Flying(<<0, q>>)' = Released(q)'
    BY <1>5, <2>1, <2>2, <2>7, <2>8
  <2> QED
    BY <1>1, <1>5, <2>1, <2>4, <2>9
<1> QED
  BY <1>2, <1>3, <1>5, <1>6 DEF SymInv, BarrierInv

\* A reader takes one frame: a token it takes off the link it queues.
LEMMA ReaderKept ==
    ASSUME SymInv, NEW l \in Links, Reader(l)
    PROVE  SymInv'
<1> DEFINE m == Head(link[l])
           back == <<l[2], l[1]>>
           took == [link EXCEPT ![l] = Tail(@)]
<1>0. SymTypes /\ Places /\ BarrierInv
  BY DEF SymInv
<1>1. /\ link[l] # << >>
      /\ UNCHANGED <<mode, pc, call, step, second, local, acc, turn, entered, passed>>
  BY DEF Reader, barVars
<1>2. Algo' = Algo /\ Net' = Net /\ Chunks' = Chunks
  BY <1>1 DEF Algo, Net, Chunks
<1>3. /\ link \in [Links -> Seq(Frames)] /\ tokens \in [Links -> Nat]
      /\ resp \in [Links -> Seq(Folds)] /\ heap \in [Ranks -> Folds]
      /\ l[2] \in Ranks /\ back \in Links /\ back # l
  <2>1. l[1] # l[2] /\ l = <<l[1], l[2]>>
    BY RanksAre DEF Links
  <2> QED
    BY <1>0, <2>1, RanksAre DEF SymTypes
<1>4. took \in [Links -> Seq(Frames)] /\ m \in Frames
  BY <1>1, <1>3, QueueTake
<1>5. Sent(link[l]) = Sent(took[l]) + (IF m.kind = "SEND" THEN 1 ELSE 0)
  <2>1. took[l] = Tail(link[l]) /\ link[l] \in Seq(Frames)
    BY <1>3
  <2> QED
    BY <1>1, <2>1, SentTail
<1>6. \A k \in Links \ {l} : took[k] = link[k]
  BY <1>3
<1>7. \A k \in Links : Sent(took[k]) \in Nat /\ Sent(link[k]) \in Nat /\ tokens[k] \in Nat
  BY <1>3, <1>4, SentAppend, FramesAre
<1> HIDE DEF took
<1>8. /\ link' \in [Links -> Seq(Frames)] /\ tokens' \in [Links -> Nat]
      /\ resp' \in [Links -> Seq(Folds)] /\ heap' \in [Ranks -> Folds]
      /\ \A k \in Links : Flying(k)' = Flying(k)
  <2>1. CASE m.kind = "SEND"
    <3>1. tokens' = [tokens EXCEPT ![l] = @ + 1] /\ link' = took /\ UNCHANGED <<heap, resp>>
      BY <2>1 DEF Reader, took
    <3>2. tokens' \in [Links -> Nat]
      BY <1>3, <3>1
    <3>3. ASSUME NEW k \in Links PROVE Flying(k)' = Flying(k)
      <4>1. CASE k = l
        <5>1. tokens'[l] = tokens[l] + 1
          BY <1>3, <3>1
        <5> QED
          BY <1>5, <1>7, <2>1, <3>1, <4>1, <5>1 DEF Flying
      <4>2. CASE k # l
        <5>1. tokens'[k] = tokens[k] /\ link'[k] = link[k]
          BY <1>3, <1>6, <3>1, <4>2
        <5> QED
          BY <5>1 DEF Flying
      <4> QED
        BY <4>1, <4>2
    <3> QED
      BY <1>3, <1>4, <3>1, <3>2, <3>3
  <2>2. CASE m.kind # "SEND"
    <3>0. \A k \in Links : Sent(took[k]) = Sent(link[k])
      <4> TAKE k \in Links
      <4>1. CASE k = l
        <5>1. Sent(link[l]) = Sent(took[l]) + 0
          BY <1>5, <2>2
        <5> QED
          BY <1>7, <4>1, <5>1
      <4>2. CASE k # l
        BY <1>6, <4>2
      <4> QED
        BY <4>1, <4>2
    <3>1. CASE m.kind = "PUT"
      <4>1. heap' = [heap EXCEPT ![l[2]] = m.val] /\ link' = took /\ UNCHANGED <<tokens, resp>>
        BY <3>1 DEF Reader, took
      <4>2. m.val \in Folds
        BY <1>4, <3>1, FramesAre
      <4>3. heap' \in [Ranks -> Folds]
        BY <1>3, <4>1, <4>2
      <4> QED
        BY <1>3, <1>4, <3>0, <4>1, <4>3 DEF Flying
    <3>2. CASE m.kind = "GETREQ"
      <4>1. /\ link' = [link EXCEPT ![l] = Tail(@), ![back] = Append(@, GetResp(heap[l[2]]))]
            /\ UNCHANGED <<heap, tokens, resp>>
        BY <3>2 DEF Reader
      <4>2. GetResp(heap[l[2]]) \in Frames /\ GetResp(heap[l[2]]).kind # "SEND"
        BY <1>3, FramesAre
      <4>3. link' = [took EXCEPT ![back] = Append(@, GetResp(heap[l[2]]))]
        <5>1. took[back] = link[back]
          BY <1>3, <1>6
        <5> QED
          BY <1>3, <4>1, <5>1 DEF took
      <4>4. link' \in [Links -> Seq(Frames)]
        BY <1>3, <1>4, <4>2, <4>3, QueueAppend
      <4>5. ASSUME NEW k \in Links PROVE Sent(link'[k]) = Sent(link[k])
        <5>1. CASE k = back
          <6>1. link'[k] = Append(took[k], GetResp(heap[l[2]])) /\ took[k] \in Seq(Frames)
            BY <1>3, <1>4, <4>3, <5>1
          <6>2. Sent(link'[k]) = Sent(took[k]) + 0
            BY <4>2, <6>1, SentAppend
          <6> QED
            BY <1>7, <3>0, <6>2
        <5>2. CASE k # back
          <6>1. link'[k] = took[k]
            BY <1>4, <4>3, <5>2
          <6> QED
            BY <3>0, <6>1
        <5> QED
          BY <5>1, <5>2
      <4> QED
        BY <1>3, <4>1, <4>4, <4>5 DEF Flying
    <3>3. CASE m.kind = "GETRESP"
      <4>1. resp' = [resp EXCEPT ![l] = Append(@, m.val)] /\ link' = took /\ UNCHANGED <<heap, tokens>>
        BY <3>3 DEF Reader, took
      <4>2. m.val \in Folds
        BY <1>4, <3>3, FramesAre
      <4>3. resp' \in [Links -> Seq(Folds)]
        BY <1>3, <4>1, <4>2, QueueAppend
      <4> QED
        BY <1>3, <1>4, <3>0, <4>1, <4>3 DEF Flying
    <3> QED
      BY <2>2, <3>1, <3>2, <3>3 DEF Reader
  <2> QED
    BY <2>1, <2>2
<1>9. SymTypes'
  BY <1>0, <1>1, <1>2, <1>8 DEF SymTypes
<1>10. Places'
  BY <1>0, <1>1, <1>2 DEF Places
<1>11. BarrierInv'
  <2>1. /\ BarrierHolds => BarrierHolds'
        /\ \A q \in Ranks : entered'[q] = passed'[q] + IF pc'[q] \in Blocked THEN 1 ELSE 0
    BY <1>0, <1>1 DEF BarrierHolds, BarrierInv
  <2>2. \A q \in Others : Collected(q)' = Collected(q) /\ Released(q)' = Released(q)
    BY <1>1 DEF Collected, Released
  <2>3. \A q \in Others : /\ Flying(<<q, 0>>)' = Flying(<<q, 0>>)
                          /\ Flying(<<0, q>>)' = Flying(<<0, q>>)
    BY <1>8, RanksAre
  <2>4. Net' => \A q \in Others : /\ entered'[q] = Flying(<<q, 0>>)' + Collected(q)'
                                  /\ passed'[q] + Flying(<<0, q>>)' = Released(q)'
    BY <1>0, <1>1, <1>2, <2>2, <2>3 DEF BarrierInv
  <2> QED
    BY <1>0, <1>2, <2>1, <2>4 DEF BarrierInv
<1> QED
  BY <1>9, <1>10, <1>11 DEF SymInv

LEMMA SymStart == Init => SymInv
<1> SUFFICES ASSUME Init PROVE SymInv
  OBVIOUS
<1>1. SymTypes
  <2>1. /\ Empty \in Folds /\ << >> \in Seq(Frames) /\ << >> \in Seq(Folds) /\ 1 \in Nat /\ 0 \in Nat
    BY DEF Empty, Folds
  <2> QED
    BY <2>1 DEF Init, SymTypes
<1>2. Places
  BY RanksAre DEF Init, Places, Steps
<1>3. \A l \in Links : link[l] = << >> /\ tokens[l] = 0
  BY DEF Init
<1>4. Sent(<< >>) = 0
  <2>1. TokensIn(<< >>) = {}
    BY DEF TokensIn
  <2> QED
    BY <2>1, FS_EmptySet DEF Sent
<1>5. \A l \in Links : Flying(l) = 0
  BY <1>3, <1>4 DEF Flying
<1>6. /\ \A r \in Ranks : entered[r] = 0 /\ passed[r] = 0 /\ pc[r] = "out"
      /\ "out" \notin Blocked
  BY DEF Init, Blocked
<1>7. \A r \in Others : Collected(r) = 0 /\ Released(r) = 0
  BY <1>6, RanksAre DEF Collected, Released
<1>8. BarrierHolds
  BY <1>6 DEF BarrierHolds
<1>9. \A r \in Others : /\ entered[r] = Flying(<<r, 0>>) + Collected(r)
                        /\ passed[r] + Flying(<<0, r>>) = Released(r)
  <2> TAKE r \in Others
  <2>1. Flying(<<r, 0>>) = 0 /\ Flying(<<0, r>>) = 0 /\ entered[r] = 0 /\ passed[r] = 0
    BY <1>5, <1>6, RanksAre
  <2> QED
    BY <1>7, <2>1
<1>10. BarrierInv
  BY <1>6, <1>8, <1>9 DEF BarrierInv
<1> QED
  BY <1>1, <1>2, <1>10 DEF SymInv

LEMMA SymStep ==
    ASSUME SymInv, [Next]_vars
    PROVE  SymInv'
<1>1. CASE UNCHANGED vars
  <2>1. UNCHANGED <<mode, pc, call, step, second, local, acc, heap, link, tokens, resp, turn, entered, passed>>
    BY <1>1 DEF vars, dataVars, netVars, barVars
  <2>2. Algo' = Algo /\ Net' = Net /\ Chunks' = Chunks
    BY <2>1 DEF Algo, Net, Chunks
  <2>3. SymTypes' /\ Places'
    BY <2>1, <2>2 DEF SymInv, SymTypes, Places
  <2>4. /\ \A l \in Links : Flying(l)' = Flying(l)
        /\ \A q \in Others : Collected(q)' = Collected(q) /\ Released(q)' = Released(q)
        /\ BarrierHolds' <=> BarrierHolds
    BY <2>1 DEF Flying, Collected, Released, BarrierHolds
  <2>5. BarrierInv'
    BY <2>1, <2>2, <2>4, RanksAre DEF SymInv, BarrierInv
  <2> QED
    BY <2>3, <2>5 DEF SymInv
<1>2. ASSUME NEW r \in Ranks, RankStep(r) PROVE SymInv'
  BY <1>2, EnterKept, DoPutKept, TakeMailboxKept, GetSlotKept, GetTakeKept,
     BarrierEnterKept, LocalReleaseKept, ReleaseKept DEF RankStep
<1>3. CASE Root
  BY <1>3, RootCollectsKept, RootReleasesKept DEF Root
<1>4. ASSUME NEW l \in Links, Reader(l) PROVE SymInv'
  BY <1>4, ReaderKept
<1> QED
  BY <1>1, <1>2, <1>3, <1>4 DEF Next

\* What the counts say: nobody has passed a barrier somebody has not entered.
LEMMA CountsHold ==
    ASSUME SymInv PROVE BarrierHolds
<1>0. SymTypes /\ Places /\ BarrierInv
  BY DEF SymInv
<1>1. CASE ~Net
  BY <1>0, <1>1 DEF BarrierInv
<1>2. CASE Net
  <2>0. 0 \in Ranks /\ passed[0] \in Nat /\ entered[0] \in Nat
    BY <1>0, RanksAre DEF SymTypes
  <2>1. ASSUME NEW q \in Others
        PROVE  /\ passed[q] =< Released(q) /\ Collected(q) =< entered[q]
               /\ passed[0] =< Collected(q) /\ Released(q) =< entered[0]
               /\ passed[q] \in Nat /\ entered[q] \in Nat /\ Released(q) \in Nat /\ Collected(q) \in Nat
               /\ \A p \in Others : Released(p) =< Collected(q)
    <3>1. /\ Flying(<<q, 0>>) \in Nat /\ Flying(<<0, q>>) \in Nat /\ Collected(q) \in Nat
          /\ Released(q) \in Nat /\ passed[q] \in Nat /\ entered[q] \in Nat
      BY <1>0, CountsAre
    <3>2. /\ entered[q] = Flying(<<q, 0>>) + Collected(q)
          /\ passed[q] + Flying(<<0, q>>) = Released(q)
      BY <1>0, <1>2 DEF BarrierInv
    <3>3. entered[0] = passed[0] + IF pc[0] \in Blocked THEN 1 ELSE 0
      BY <1>0, <2>0 DEF BarrierInv
    <3>4. passed[0] =< Collected(q)
      BY <2>0 DEF Collected
    <3>5. Released(q) =< entered[0]
      <4>1. CASE pc[0] = "release"
        BY <2>0, <3>3, <4>1 DEF Released, Blocked
      <4>2. CASE pc[0] # "release"
        <5>1. Released(q) = passed[0] + 0
          BY <4>2 DEF Released
        <5> QED
          BY <2>0, <3>3, <5>1
      <4> QED
        BY <4>1, <4>2
    <3>6. ASSUME NEW p \in Others PROVE Released(p) =< Collected(q)
      <4>1. CASE pc[0] = "release"
        BY <2>0, <4>1 DEF Released, Collected
      <4>2. CASE pc[0] # "release"
        <5>1. Released(p) = passed[0] + 0
          BY <4>2 DEF Released
        <5> QED
          BY <2>0, <3>4, <5>1
      <4> QED
        BY <4>1, <4>2
    <3> QED
      BY <3>1, <3>2, <3>4, <3>5, <3>6
  <2>2. passed[0] =< entered[0]
    <3>1. entered[0] = passed[0] + IF pc[0] \in Blocked THEN 1 ELSE 0
      BY <1>0, <2>0 DEF BarrierInv
    <3> QED
      BY <2>0, <3>1
  <2>3. \A r \in Ranks : r = 0 \/ r \in Others
    BY DEF Others
  <2>4. ASSUME NEW q \in Ranks, NEW r \in Ranks PROVE passed[q] =< entered[r]
    <3>1. CASE q = 0 /\ r = 0
      BY <2>2, <3>1
    <3>2. CASE q = 0 /\ r \in Others
      BY <2>0, <2>1, <3>2
    <3>3. CASE q \in Others /\ r = 0
      BY <2>0, <2>1, <3>3
    <3>4. CASE q \in Others /\ r \in Others
      <4>1. /\ passed[q] =< Released(q) /\ Released(q) =< Collected(r) /\ Collected(r) =< entered[r]
            /\ passed[q] \in Nat /\ Released(q) \in Nat /\ Collected(r) \in Nat /\ entered[r] \in Nat
        BY <2>1, <3>4
      <4> QED
        BY <4>1
    <3> QED
      BY <2>3, <3>1, <3>2, <3>3, <3>4
  <2> QED
    BY <2>4 DEF BarrierHolds
<1> QED
  BY <1>1, <1>2

\* Spec => []BarrierHolds: for every number of ranks, either transport and any number
\* of calls, a rank that has passed its k-th barrier has everybody's k-th entry behind
\* it: default_barrier's tokens are neither lost nor taken by the next barrier.
THEOREM BarriersHold == Spec => []BarrierHolds
<1>1. Init => SymInv
  BY SymStart
<1>2. SymInv /\ [Next]_vars => SymInv'
  BY SymStep
<1>3. SymInv => BarrierHolds
  BY CountsHold
<1> QED
  BY <1>1, <1>2, <1>3, PTL DEF Spec

-----------------------------------------------------------------------------
(* What the buffers hold: around the ring, d ranks back from r is Back(r, d). *)

Back(r, d) == IF d =< r THEN r - d ELSE r + N - d

\* What rank r has folded of a chunk that came d ranks to it, and the whole fold.
Part(r, d, k)  == [i \in 1..(d + 1) |-> <<Back(r, i - 1), k>>]
Whole(c, k) == [i \in 1..N |-> <<(c + N - i) % N, k>>]

\* Rank r's chunk c of call k after t takes from its mailbox: its own input, then the
\* fold of the ranks the chunk has come through, then the whole.
Val(r, k, t, c) ==
    IF t >= N + Back(r, c) THEN Whole(c, k)
    ELSE IF t >= Back(r, c) THEN Part(r, Back(r, c), k) ELSE Part(r, 0, k)

Busy(r) == pc[r] \notin {"put", "out"}

\* The ring's steps a rank has behind it, over all its calls; it has taken from the
\* mailbox in this one; it has passed the first barrier of this one.
Done(r)  == IF pc[r] = "out" THEN call[r] * Steps ELSE (call[r] - 1) * Steps + step[r]
Took(r)  == Busy(r) /\ second[r]
Takes(r) == IF pc[r] = "out" THEN Steps ELSE step[r] + IF Took(r) THEN 1 ELSE 0

\* Where a rank is, from the barriers it has passed, and what its buffer holds there.
RingPlace(r) ==
    /\ passed[r] = 2 * Done(r) + IF Took(r) \/ pc[r] = "get" THEN 1 ELSE 0
    /\ pc[r] # "out" => call[r] > 0
    /\ pc[r] = "get" => ~second[r]

RingBuffer(r) ==
    call[r] > 0 => \A c \in Ranks : local[r][c] = Val(r, call[r], Takes(r), c)

\* What rank r has put, or will, in this step; where it is while rank r is in the step.
Mail(r) == local[r][SendIdx(r, step[r])]
Delivered(r) == Busy(r) => heap[Right(r)] = Mail(r)

\* Over memory the put is in the mailbox at once.
MemoryMail == \A l \in Links : link[l] = << >>

\* Where ring_all_reduce keeps its promise.
Sound == ~Net \/ N = 2

\* Between two ranks the put and the barrier's tokens share a socket.
Underway(r) == PutFrame(Mail(r))
SocketMail(r) ==
    LET k == link[<<r, Right(r)>>] IN
    \/ k \in {<< >>, <<Token>>} /\ Delivered(r)
    \/ /\ k = <<Underway(r)>> \/ (k = <<Token, Underway(r)>> /\ r = 0)
       /\ pc[r] \in {"barrier", "collect", "release"} /\ ~second[r]
    \/ /\ k = <<Underway(r), Token>>
       /\ \/ r # 0 /\ pc[r] = "wait" /\ ~second[r]
          \/ r = 0 /\ (pc[r] = "get" \/ (pc[r] \in {"barrier", "collect"} /\ second[r]))

RingInv ==
    Algo = "ring" =>
        /\ \A r \in Ranks : RingPlace(r)
        /\ Sound => \A r \in Ranks : RingBuffer(r)
        /\ ~Net => MemoryMail /\ \A r \in Ranks : Delivered(r)
        /\ (Net /\ N = 2) => \A r \in Ranks : SocketMail(r)

-----------------------------------------------------------------------------
(* all_reduce, called once.                                                *)

\* The fold of the slots of ranks below n.
Prefix(n) == [i \in 1..n |-> <<i - 1, 1>>]

\* Rank r's input is in its slot.
Posted(r) == pc[r] \in {"barrier", "get", "getting"} \cup Blocked \/ (pc[r] = "out" /\ call[r] = 1)

NaiveRank(r) ==
    /\ call[r] \in {0, 1} /\ (pc[r] # "out" => call[r] = 1)
    /\ pc[r] \in {"put", "barrier"} \cup Blocked \/ (pc[r] = "out" /\ call[r] = 0) => passed[r] = 0
    /\ pc[r] \in {"put", "barrier"} \cup Blocked => acc[r] = Empty /\ step[r] = 0
    /\ pc[r] = "put" => local[r][0] = Input(r, 1)
    /\ Posted(r) => heap[r] = Input(r, 1)
    /\ pc[r] \in {"get", "getting"} => acc[r] = Prefix(step[r]) /\ passed[r] > 0
    /\ pc[r] = "out" /\ call[r] = 1 => local[r][0] = Prefix(N)

\* A request is under way only once its sender, which has passed p barriers, has
\* passed the one, and every answer is the slot's input.
FrameOk(l, m, p) ==
    /\ m.kind # "PUT"
    /\ m.kind = "GETREQ" => p > 0
    /\ m.kind = "GETRESP" => m.val = Input(l[1], 1)

NaiveLink(l) == \A i \in 1..Len(link[l]) : FrameOk(l, link[l][i], passed[l[1]])
NaiveResp(l) == \A i \in 1..Len(resp[l]) : resp[l][i] = Input(l[1], 1)

OnceInv == /\ \A r \in Ranks : NaiveRank(r)
           /\ \A l \in Links : NaiveLink(l) /\ NaiveResp(l)

NaiveInv == Algo = "naive" /\ NCalls = 1 => OnceInv

-----------------------------------------------------------------------------
(* Arithmetic of the ring.                                                 *)

LEMMA BackIs ==
    ASSUME NEW r \in Ranks, NEW d \in 0..(N - 1)
    PROVE  /\ Back(r, d) \in Ranks /\ Back(r, Back(r, d)) = d
           /\ (r + N - d) % N = Back(r, d)
<1>1. N \in Nat /\ N > 1 /\ r \in 0..(N - 1)
  BY RanksAre DEF Ranks
<1>2. Back(r, d) \in Ranks /\ Back(r, Back(r, d)) = d
  BY <1>1 DEF Back, Ranks
<1>3. r + N - d \in 0..(2 * N - 1)
  BY <1>1
<1>4. (r + N - d) % N = IF r + N - d < N THEN r + N - d ELSE r + N - d - N
  BY <1>1, <1>3
<1> QED
  BY <1>1, <1>2, <1>4 DEF Back

LEMMA RightIs ==
    ASSUME NEW r \in Ranks
    PROVE  Right(r) = IF r = N - 1 THEN 0 ELSE r + 1
<1>1. N \in Nat /\ N > 1 /\ r \in 0..(N - 1)
  BY RanksAre DEF Ranks
<1>2. CASE r = N - 1
  BY <1>1, <1>2 DEF Right
<1>3. CASE r # N - 1
  <2>1. r + 1 \in 0..(N - 1)
    BY <1>1, <1>3
  <2>2. (r + 1) % N = r + 1
    BY <1>1, <2>1
  <2> QED
    BY <1>3, <2>2 DEF Right
<1> QED
  BY <1>2, <1>3

\* The chunk a rank receives and the chunk it sends in a step, as distances back.
RecvDist(s) == IF Scatter(s) THEN s + 1 ELSE s - (N - 1)
SendDist(s) == IF Scatter(s) THEN s ELSE IF s = N - 1 THEN N - 1 ELSE s - N

LEMMA IdxIs ==
    ASSUME NEW r \in Ranks, NEW s \in 0..(Steps - 1)
    PROVE  /\ RecvDist(s) \in 0..(N - 1) /\ SendDist(s) \in 0..(N - 1)
           /\ RecvIdx(r, s) = Back(r, RecvDist(s)) /\ SendIdx(r, s) = Back(r, SendDist(s))
           /\ RecvIdx(r, s) \in Ranks /\ SendIdx(r, s) \in Ranks
           /\ SendIdx(r, s) # RecvIdx(r, s)
           /\ RecvIdx(Right(r), s) = SendIdx(r, s)
<1>1. N \in Nat /\ N > 1 /\ r \in 0..(N - 1) /\ s \in 0..(2 * (N - 1) - 1) /\ Right(r) \in Ranks
  BY RanksAre DEF Ranks, Steps
<1>2. RecvDist(s) \in 0..(N - 1) /\ SendDist(s) \in 0..(N - 1)
  BY <1>1 DEF RecvDist, SendDist, Scatter
<1>3. ASSUME NEW q \in Ranks PROVE RecvIdx(q, s) = Back(q, RecvDist(s))
  <2>0. q \in 0..(N - 1)
    BY DEF Ranks
  <2>1. CASE Scatter(s)
    <3>1. q + N - s - 1 = q + N - (s + 1)
      BY <1>1, <2>0
    <3> QED
      BY <1>2, <2>1, <3>1, BackIs DEF RecvIdx, RecvDist
  <2>2. CASE ~Scatter(s)
    BY <1>2, <2>2, BackIs DEF RecvIdx, RecvDist
  <2> QED
    BY <2>1, <2>2
<1>4. SendIdx(r, s) = Back(r, SendDist(s))
  <2>1. CASE Scatter(s)
    BY <1>2, <2>1, BackIs DEF SendIdx, SendDist
  <2>2. CASE ~Scatter(s) /\ s # N - 1
    <3>1. r + N + 1 - (s - (N - 1)) = r + N - (s - N)
      BY <1>1
    <3> QED
      BY <1>2, <2>2, <3>1, BackIs DEF SendIdx, SendDist
  <2>3. CASE ~Scatter(s) /\ s = N - 1
    <3>1. r + N + 1 - (s - (N - 1)) = r + 1 + N
      BY <1>1, <2>3
    <3>2. (r + 1 + N) % N = IF r = N - 1 THEN 0 ELSE r + 1
      <4>1. CASE r = N - 1
        <5>1. r + 1 + N = 2 * N /\ (2 * N) % N = 0
          BY <1>1, <4>1
        <5> QED
          BY <4>1, <5>1
      <4>2. CASE r # N - 1
        <5>1. r + 1 + N \in 0..(2 * N - 1) /\ ~(r + 1 + N < N)
          BY <1>1, <4>2
        <5>2. (r + 1 + N) % N = r + 1 + N - N
          BY <1>1, <5>1
        <5> QED
          BY <1>1, <4>2, <5>2
      <4> QED
        BY <4>1, <4>2
    <3>3. Back(r, N - 1) = IF r = N - 1 THEN 0 ELSE r + 1
      BY <1>1 DEF Back
    <3> QED
      BY <2>3, <3>1, <3>2, <3>3 DEF SendIdx, SendDist
  <2> QED
    BY <2>1, <2>2, <2>3
<1>5. RecvIdx(r, s) = Back(r, RecvDist(s)) /\ RecvIdx(Right(r), s) = Back(Right(r), RecvDist(s))
  BY <1>1, <1>3
<1>6. RecvDist(s) # SendDist(s)
  BY <1>1 DEF RecvDist, SendDist, Scatter
<1>7. Back(r, RecvDist(s)) # Back(r, SendDist(s))
  BY <1>2, <1>6, BackIs
<1>8. Back(Right(r), RecvDist(s)) = Back(r, SendDist(s))
  <2>1. Right(r) = IF r = N - 1 THEN 0 ELSE r + 1
    BY RightIs
  <2> QED
    BY <1>1, <2>1 DEF Back, RecvDist, SendDist, Scatter
<1> QED
  BY <1>2, <1>4, <1>5, <1>7, <1>8, BackIs

\* The folds are sequences.
LEMMA PartIs ==
    ASSUME NEW r \in Ranks, NEW d \in 0..(N - 1), NEW k \in Nat
    PROVE  /\ Part(r, d, k) \in Folds /\ Len(Part(r, d, k)) = d + 1
           /\ \A i \in 1..(d + 1) : Part(r, d, k)[i] = <<Back(r, i - 1), k>>
<1>1. N \in Nat /\ N > 1
  BY RanksAre
<1>2. \A i \in 1..(d + 1) : i - 1 \in 0..(N - 1)
  BY <1>1
<1>3. \A i \in 1..(d + 1) : <<Back(r, i - 1), k>> \in Ranks \X Nat
  BY <1>2, BackIs
<1>4. d + 1 \in Nat
  BY <1>1
<1> QED
  BY <1>3, <1>4 DEF Part, Folds

\* What a fold becomes when the next rank puts its own input before it.
LEMMA PartGrows ==
    ASSUME NEW q \in Ranks, NEW d \in 0..(N - 2), NEW k \in Nat
    PROVE  Part(Right(q), d + 1, k) = Part(Right(q), 0, k) \o Part(q, d, k)
<1> DEFINE r == Right(q)
           f == Part(r, 0, k)
           g == Part(q, d, k)
           h == Part(r, d + 1, k)
<1>1. N \in Nat /\ N > 1 /\ q \in 0..(N - 1) /\ r \in Ranks /\ d \in Nat
      /\ d \in 0..(N - 1) /\ d + 1 \in 0..(N - 1) /\ 0 \in 0..(N - 1)
  <2>1. N \in Nat /\ N > 1 /\ r \in Ranks
    BY RanksAre
  <2>2. q \in 0..(N - 1)
    BY DEF Ranks
  <2> QED
    BY <2>1, <2>2
<1>2. /\ f \in Folds /\ Len(f) = 0 + 1 /\ \A i \in 1..(0 + 1) : f[i] = <<Back(r, i - 1), k>>
      /\ g \in Folds /\ Len(g) = d + 1 /\ \A i \in 1..(d + 1) : g[i] = <<Back(q, i - 1), k>>
      /\ h \in Folds /\ Len(h) = d + 1 + 1 /\ \A i \in 1..(d + 1 + 1) : h[i] = <<Back(r, i - 1), k>>
  BY <1>1, PartIs
<1>3. ASSUME NEW i \in 2..(d + 2) PROVE Back(q, i - 2) = Back(r, i - 1)
  <2>1. r = IF q = N - 1 THEN 0 ELSE q + 1
    BY RightIs
  <2> HIDE DEF r
  <2> QED
    BY <1>1, <2>1 DEF Back
<1> HIDE DEF f, g, h, r
<1>4. /\ f \o g \in Folds /\ Len(f \o g) = Len(f) + Len(g)
      /\ \A i \in 1..Len(f) + Len(g) :
            (f \o g)[i] = IF i =< Len(f) THEN f[i] ELSE g[i - Len(f)]
  BY <1>2, ConcatProperties DEF Folds
<1>5. Len(f) = 1 /\ Len(f) + Len(g) = d + 2 /\ Len(h) = d + 2
  BY <1>1, <1>2
<1>6. ASSUME NEW i \in 1..(d + 2)
      PROVE  (f \o g)[i] = h[i]
  <2>1. CASE i = 1
    <3>1. i =< Len(f) /\ i \in 1..(0 + 1) /\ i \in 1..(d + 1 + 1)
      BY <1>1, <1>5, <2>1
    <3> QED
      BY <1>2, <1>4, <1>5, <3>1
  <2>2. CASE i # 1
    <3>1. ~(i =< Len(f)) /\ i - Len(f) = i - 1 /\ i - 1 \in 1..(d + 1) /\ i \in 2..(d + 2)
          /\ (i - 1) - 1 = i - 2 /\ i \in 1..(d + 1 + 1)
      BY <1>1, <1>5, <2>2
    <3>2. (f \o g)[i] = g[i - 1]
      BY <1>4, <1>5, <3>1
    <3>3. g[i - 1] = <<Back(q, i - 2), k>>
      BY <1>2, <3>1
    <3> QED
      BY <1>2, <1>3, <3>1, <3>2, <3>3
  <2> QED
    BY <2>1, <2>2
<1>7. f \o g = h
  BY <1>2, <1>4, <1>5, <1>6, SeqEqual DEF Folds
<1> QED
  BY <1>7 DEF f, g, h, r

\* The rank before a chunk's first has folded the whole of it.
LEMMA PartWhole ==
    ASSUME NEW r \in Ranks, NEW k \in Nat
    PROVE  Part(r, N - 1, k) = Whole(Back(r, N - 1), k)
<1> DEFINE c == Back(r, N - 1)
<1>1. N \in Nat /\ N > 1 /\ r \in 0..(N - 1) /\ N - 1 \in 0..(N - 1) /\ N - 1 + 1 = N
  BY RanksAre DEF Ranks
<1>2. c \in 0..(N - 1) /\ c = IF r = N - 1 THEN 0 ELSE r + 1
  BY <1>1 DEF Back
<1> HIDE DEF c
<1>3. ASSUME NEW i \in 1..N
      PROVE  (c + N - i) % N = Back(r, i - 1)
  <2>1. c + N - i \in 0..(2 * N - 1)
    BY <1>1, <1>2
  <2>2. (c + N - i) % N = IF c + N - i < N THEN c + N - i ELSE c + N - i - N
    BY <1>1, <1>2, <2>1
  <2> QED
    BY <1>1, <1>2, <2>2 DEF Back
<1>4. Part(r, N - 1, k) = [i \in 1..N |-> <<Back(r, i - 1), k>>]
  BY <1>1 DEF Part
<1>5. Part(r, N - 1, k) = Whole(c, k)
  BY <1>3, <1>4 DEF Whole
<1> QED
  BY <1>5 DEF c

LEMMA ValStart ==
    ASSUME NEW r \in Ranks, NEW c \in Ranks, NEW k \in Nat
    PROVE  Val(r, k, 0, c) = Input(r, k)
<1>1. N \in Nat /\ N > 1 /\ r \in 0..(N - 1) /\ c \in 0..(N - 1) /\ 0 \in 0..(N - 1)
  BY RanksAre DEF Ranks
<1>2. Back(r, c) \in 0..(N - 1)
  BY <1>1, BackIs DEF Ranks
<1>3. Val(r, k, 0, c) = Part(r, 0, k)
  <2>1. ~(0 >= N + Back(r, c)) /\ (0 >= Back(r, c) => Back(r, c) = 0)
    BY <1>1, <1>2
  <2> QED
    BY <2>1 DEF Val
<1>4. Part(r, 0, k) \in Folds /\ Len(Part(r, 0, k)) = 1 /\ Part(r, 0, k)[1] = <<r, k>>
  <2>1. Back(r, 1 - 1) = r
    BY <1>1 DEF Back
  <2>2. /\ Part(r, 0, k) \in Folds /\ Len(Part(r, 0, k)) = 0 + 1
        /\ \A i \in 1..(0 + 1) : Part(r, 0, k)[i] = <<Back(r, i - 1), k>>
    BY <1>1, PartIs
  <2>3. 1 \in 1..(0 + 1) /\ 0 + 1 = 1
    OBVIOUS
  <2> QED
    BY <2>1, <2>2, <2>3
<1>5. Input(r, k) \in Folds /\ Len(Input(r, k)) = 1 /\ Input(r, k)[1] = <<r, k>>
  BY <1>1 DEF Input, Folds
<1>6. \A i \in 1..1 : Part(r, 0, k)[i] = Input(r, k)[i]
  BY <1>4, <1>5
<1>7. Part(r, 0, k) = Input(r, k)
  BY <1>4, <1>5, <1>6, SeqEqual DEF Folds
<1> QED
  BY <1>3, <1>7

\* A take changes one chunk only.
LEMMA ValKept ==
    ASSUME NEW r \in Ranks, NEW c \in Ranks, NEW k \in Nat, NEW s \in 0..(Steps - 1),
           c # RecvIdx(r, s)
    PROVE  Val(r, k, s + 1, c) = Val(r, k, s, c)
<1>1. N \in Nat /\ N > 1 /\ r \in 0..(N - 1) /\ c \in 0..(N - 1) /\ s \in 0..(2 * (N - 1) - 1)
  BY RanksAre DEF Ranks, Steps
<1>2. Back(r, c) \in 0..(N - 1) /\ Back(r, Back(r, c)) = c
  BY <1>1, BackIs DEF Ranks
<1>3. Back(r, c) # RecvDist(s)
  BY <1>2, IdxIs
<1> DEFINE d == Back(r, c)
<1>4. (s + 1 >= N + d <=> s >= N + d) /\ (s + 1 >= N + d \/ (s + 1 >= d <=> s >= d))
  <2> HIDE DEF d
  <2>1. d \in 0..(N - 1) /\ d # RecvDist(s)
    BY <1>2, <1>3 DEF d
  <2> QED
    BY <1>1, <2>1 DEF RecvDist, Scatter
<1> QED
  BY <1>4 DEF Val

\* A take: what the receiving rank makes of the sending rank's chunk.
LEMMA ValTaken ==
    ASSUME NEW q \in Ranks, NEW k \in Nat, NEW s \in 0..(Steps - 1)
    PROVE  LET c == SendIdx(q, s) IN
           Val(Right(q), k, s + 1, c) =
               IF Scatter(s) THEN Val(Right(q), k, s, c) \o Val(q, k, s, c) ELSE Val(q, k, s, c)
<1> DEFINE c == SendIdx(q, s)
           r == Right(q)
<1>1. N \in Nat /\ N > 1 /\ s \in 0..(2 * (N - 1) - 1) /\ r \in Ranks
  BY RanksAre DEF Steps
<1>2. c = Back(q, SendDist(s)) /\ c = Back(r, RecvDist(s)) /\ RecvDist(s) \in 0..(N - 1) /\ SendDist(s) \in 0..(N - 1)
  BY <1>1, IdxIs
<1> HIDE DEF c, r
<1>3. Back(q, c) = SendDist(s) /\ Back(r, c) = RecvDist(s)
  BY <1>1, <1>2, BackIs
<1>4. CASE Scatter(s)
  <2>1. /\ RecvDist(s) = s + 1 /\ SendDist(s) = s /\ s \in 0..(N - 2)
        /\ ~(s + 1 >= N + RecvDist(s)) /\ s + 1 >= RecvDist(s)
        /\ ~(s >= N + RecvDist(s)) /\ ~(s >= RecvDist(s))
        /\ ~(s >= N + SendDist(s)) /\ s >= SendDist(s)
    BY <1>1, <1>4 DEF RecvDist, SendDist, Scatter
  <2>2. /\ Val(r, k, s + 1, c) = Part(r, s + 1, k) /\ Val(r, k, s, c) = Part(r, 0, k)
        /\ Val(q, k, s, c) = Part(q, s, k)
    BY <1>3, <2>1 DEF Val
  <2>3. Part(r, s + 1, k) = Part(r, 0, k) \o Part(q, s, k)
    BY <2>1, PartGrows DEF r
  <2> QED
    BY <1>4, <2>2, <2>3 DEF c, r
<1>5. CASE ~Scatter(s)
  <2>1. Val(r, k, s + 1, c) = Whole(c, k)
    <3>1. s + 1 >= N + RecvDist(s)
      BY <1>1, <1>5 DEF RecvDist, Scatter
    <3> QED
      BY <1>3, <3>1 DEF Val
  <2>2. Val(q, k, s, c) = Whole(c, k)
    <3>1. CASE s = N - 1
      <4>1. SendDist(s) = N - 1 /\ s >= SendDist(s) /\ ~(s >= N + SendDist(s))
        BY <1>1, <1>5, <3>1 DEF SendDist
      <4>2. Val(q, k, s, c) = Part(q, N - 1, k)
        BY <1>3, <4>1 DEF Val
      <4> QED
        BY <1>2, <4>1, <4>2, PartWhole
    <3>2. CASE s # N - 1
      <4>1. s >= N + SendDist(s)
        BY <1>1, <1>5, <3>2 DEF SendDist, Scatter
      <4> QED
        BY <1>3, <4>1 DEF Val
    <3> QED
      BY <3>1, <3>2
  <2> QED
    BY <1>5, <2>1, <2>2 DEF c, r
<1> QED
  BY <1>4, <1>5

LEMMA ValEnd ==
    ASSUME NEW r \in Ranks, NEW c \in Ranks, NEW k \in Nat
    PROVE  Val(r, k, Steps, c) = Whole(c, k)
<1>1. N \in Nat /\ N > 1 /\ c \in 0..(N - 1) /\ Steps = 2 * (N - 1)
  BY RanksAre DEF Ranks, Steps
<1>2. Back(r, c) \in 0..(N - 1) /\ Back(r, Back(r, c)) = c
  BY <1>1, BackIs DEF Ranks
<1>3. CASE Back(r, c) = N - 1
  <2>1. Val(r, k, Steps, c) = Part(r, N - 1, k)
    <3>1. Steps >= N - 1 /\ ~(Steps >= N + (N - 1))
      BY <1>1
    <3> QED
      BY <1>3, <3>1 DEF Val
  <2> QED
    BY <1>2, <1>3, <2>1, PartWhole
<1>4. CASE Back(r, c) # N - 1
  <2>1. Steps >= N + Back(r, c)
    BY <1>1, <1>2, <1>4
  <2> QED
    BY <2>1 DEF Val
<1> QED
  BY <1>3, <1>4

\* A rank's place tells its call and its step.
LEMMA PlaceIs ==
    ASSUME NEW a \in Nat \ {0}, NEW b \in Nat \ {0}, NEW x \in 0..(Steps - 1), NEW y \in 0..(Steps - 1),
           (a - 1) * Steps + x = (b - 1) * Steps + y
    PROVE  a = b /\ x = y
<1>1. Steps \in Nat /\ Steps > 1
  BY RanksAre DEF Steps
<1> HIDE DEF Steps
<1>2. ASSUME NEW i \in Nat \ {0}, NEW j \in Nat \ {0}, NEW u \in 0..(Steps - 1), NEW v \in 0..(Steps - 1),
             (i - 1) * Steps + u = (j - 1) * Steps + v, i < j
      PROVE  FALSE
  <2>1. i - 1 \in Nat /\ j - 1 \in Nat /\ i =< j - 1 /\ (i - 1) + 1 = i
    BY <1>2
  <2>2. i * Steps =< (j - 1) * Steps
    BY <1>1, <2>1
  <2>3. i * Steps = (i - 1) * Steps + Steps /\ (i - 1) * Steps \in Nat /\ (j - 1) * Steps \in Nat
    BY <1>1, <2>1
  <2> QED
    BY <1>1, <1>2, <2>2, <2>3
<1>3. ~(a < b) /\ ~(b < a)
  BY <1>2
<1>4. a = b
  BY <1>3
<1>5. (a - 1) * Steps \in Nat
  BY <1>1
<1> QED
  BY <1>4, <1>5

-----------------------------------------------------------------------------
(* all_reduce, step by step.                                               *)

LEMMA PrefixIs ==
    ASSUME NEW n \in Ranks
    PROVE  /\ Prefix(0) = Empty
           /\ Prefix(n) \in Folds /\ Input(n, 1) \in Folds
           /\ Prefix(n) \o Input(n, 1) = Prefix(n + 1)
<1>1. N \in Nat /\ N > 1 /\ n \in 0..(N - 1) /\ n \in Nat
  BY RanksAre DEF Ranks
<1>2. ASSUME NEW m \in Nat, m =< N
      PROVE  Prefix(m) \in Folds /\ Len(Prefix(m)) = m /\ \A i \in 1..m : Prefix(m)[i] = <<i - 1, 1>>
  <2>1. \A i \in 1..m : i - 1 \in Ranks
    BY <1>1, <1>2 DEF Ranks
  <2> QED
    BY <2>1 DEF Prefix, Folds
<1>3. Prefix(0) = Empty
  BY DEF Prefix, Empty
<1>4. Input(n, 1) \in Folds /\ Len(Input(n, 1)) = 1 /\ Input(n, 1)[1] = <<n, 1>>
  BY DEF Input, Folds
<1> DEFINE f == Prefix(n)
           g == Input(n, 1)
           h == Prefix(n + 1)
<1>5. /\ f \in Folds /\ Len(f) = n /\ \A i \in 1..n : f[i] = <<i - 1, 1>>
      /\ h \in Folds /\ Len(h) = n + 1 /\ \A i \in 1..(n + 1) : h[i] = <<i - 1, 1>>
  <2>1. n \in Nat /\ n =< N /\ n + 1 \in Nat /\ n + 1 =< N
    BY <1>1
  <2> QED
    BY <1>2, <2>1
<1>6. g \in Folds /\ Len(g) = 1 /\ g[1] = <<n, 1>>
  BY <1>4
<1> HIDE DEF f, g, h
<1>7. /\ f \o g \in Folds /\ Len(f \o g) = Len(f) + Len(g)
      /\ \A i \in 1..Len(f) + Len(g) :
            (f \o g)[i] = IF i =< Len(f) THEN f[i] ELSE g[i - Len(f)]
  BY <1>5, <1>6, ConcatProperties DEF Folds
<1>8. ASSUME NEW i \in 1..(n + 1) PROVE (f \o g)[i] = h[i]
  <2>1. CASE i =< n
    <3>1. i \in 1..n /\ i =< Len(f) /\ i \in 1..Len(f) + Len(g)
      BY <1>1, <1>5, <1>6, <2>1
    <3> QED
      BY <1>5, <1>7, <3>1
  <2>2. CASE ~(i =< n)
    <3>1. i = n + 1 /\ i - Len(f) = 1 /\ ~(i =< Len(f)) /\ i \in 1..Len(f) + Len(g) /\ i - 1 = n
      BY <1>1, <1>5, <1>6, <2>2
    <3>2. (f \o g)[i] = g[1]
      BY <1>7, <3>1
    <3> QED
      BY <1>5, <1>6, <3>1, <3>2
  <2> QED
    BY <2>1, <2>2
<1>9. f \o g = h
  <2>1. Len(f \o g) = n + 1
    BY <1>5, <1>6, <1>7
  <2> QED
    BY <1>5, <1>7, <1>8, <2>1, SeqEqual DEF Folds
<1> QED
  BY <1>3, <1>4, <1>5, <1>9 DEF f, g, h

\* A rank a step does not touch.
LEMMA NaiveOther ==
    ASSUME NEW q \in Ranks, NaiveRank(q),
           pc'[q] = pc[q], call'[q] = call[q], step'[q] = step[q], acc'[q] = acc[q],
           local'[q] = local[q], heap'[q] = heap[q], passed'[q] = passed[q]
    PROVE  NaiveRank(q)'
BY DEF NaiveRank, Posted

\* Links and answers when at most one frame is written and barriers are passed.
LEMMA NaiveSends ==
    ASSUME SymTypes, \A l \in Links : NaiveLink(l) /\ NaiveResp(l),
           passed' \in [Ranks -> Nat], \A q \in Ranks : passed'[q] >= passed[q],
           UNCHANGED resp,
           NEW k \in Links, NEW m \in Frames, FrameOk(k, m, passed'[k[1]]),
           UNCHANGED link \/ Sends(k, m)
    PROVE  \A l \in Links : (NaiveLink(l) /\ NaiveResp(l))'
<1> SUFFICES ASSUME NEW l \in Links
             PROVE  NaiveLink(l)' /\ NaiveResp(l)'
  OBVIOUS
<1>1. /\ link \in [Links -> Seq(Frames)] /\ passed \in [Ranks -> Nat] /\ l[1] \in Ranks
      /\ NaiveLink(l) /\ NaiveResp(l)
  BY RanksAre DEF SymTypes
<1>2. passed'[l[1]] \in Nat /\ passed[l[1]] \in Nat /\ passed'[l[1]] >= passed[l[1]]
  BY <1>1
<1>3. \A i \in 1..Len(link[l]) : FrameOk(l, link[l][i], passed'[l[1]])
  <2>1. passed[l[1]] > 0 => passed'[l[1]] > 0
    BY <1>2
  <2> QED
    BY <1>1, <2>1 DEF NaiveLink, FrameOk
<1>4. CASE link'[l] = link[l]
  BY <1>1, <1>3, <1>4 DEF NaiveLink, NaiveResp
<1>5. CASE link'[l] # link[l]
  <2>1. l = k /\ link'[l] = Append(link[l], m)
    BY <1>1, <1>5 DEF Sends
  <2>2. /\ Len(link'[l]) = Len(link[l]) + 1 /\ Len(link[l]) \in Nat
        /\ \A i \in 1..Len(link[l]) : link'[l][i] = link[l][i]
        /\ link'[l][Len(link[l]) + 1] = m
    BY <1>1, <2>1, QueueAppend
  <2>3. ASSUME NEW i \in 1..Len(link'[l]) PROVE FrameOk(l, link'[l][i], passed'[l[1]])
    <3>1. i \in 1..Len(link[l]) \/ i = Len(link[l]) + 1
      BY <2>2
    <3> QED
      BY <1>3, <2>1, <2>2, <3>1
  <2> QED
    BY <1>1, <2>3 DEF NaiveLink, NaiveResp
<1> QED
  BY <1>4, <1>5

LEMMA TokenOk == ASSUME NEW l, NEW p PROVE FrameOk(l, Token, p)
BY DEF FrameOk, Token

LEMMA NaiveEnter ==
    ASSUME SymInv, OnceInv, Algo = "naive", NCalls = 1, NEW r \in Ranks, Enter(r), UNCHANGED mode
    PROVE  OnceInv'
<1>0. SymTypes /\ NaiveRank(r)
  BY DEF SymInv, OnceInv
<1>1. /\ pc[r] = "out" /\ call[r] < 1 /\ pc' = [pc EXCEPT ![r] = "put"]
      /\ call' = [call EXCEPT ![r] = @ + 1] /\ step' = [step EXCEPT ![r] = 0]
      /\ local' = [local EXCEPT ![r] = [c \in Chunks |-> Input(r, call[r] + 1)]]
      /\ acc' = [acc EXCEPT ![r] = Empty]
      /\ UNCHANGED <<second, heap, link, tokens, resp, turn, entered, passed>>
  BY DEF Enter, At, Goto, netVars, barVars
<1>2. call[r] = 0 /\ 0 \in Chunks
  BY <1>0, <1>1, ChunksAre DEF NaiveRank
<1>3. /\ pc'[r] = "put" /\ call'[r] = 1 /\ step'[r] = 0 /\ acc'[r] = Empty /\ local'[r][0] = Input(r, 1)
      /\ passed'[r] = 0
  BY <1>0, <1>1, <1>2 DEF SymTypes, NaiveRank
<1>4. NaiveRank(r)'
  BY <1>3 DEF NaiveRank, Posted, Blocked
<1>5. ASSUME NEW q \in Ranks, q # r PROVE NaiveRank(q)'
  <2>1. /\ pc'[q] = pc[q] /\ call'[q] = call[q] /\ step'[q] = step[q] /\ acc'[q] = acc[q]
        /\ local'[q] = local[q] /\ heap'[q] = heap[q] /\ passed'[q] = passed[q]
    BY <1>0, <1>1, <1>5 DEF SymTypes
  <2> QED
    BY <2>1, NaiveOther DEF OnceInv
<1>6. ASSUME NEW l \in Links PROVE NaiveLink(l)' /\ NaiveResp(l)'
  BY <1>1 DEF OnceInv, NaiveLink, NaiveResp
<1> QED
  BY <1>4, <1>5, <1>6 DEF OnceInv

LEMMA NaivePut ==
    ASSUME SymInv, OnceInv, Algo = "naive", NCalls = 1, NEW r \in Ranks, DoPut(r), UNCHANGED mode
    PROVE  OnceInv'
<1>0. SymTypes /\ NaiveRank(r)
  BY DEF SymInv, OnceInv
<1>1. /\ pc[r] = "put" /\ pc' = [pc EXCEPT ![r] = "barrier"]
      /\ heap' = [heap EXCEPT ![r] = local[r][0]]
      /\ UNCHANGED <<call, step, local, acc, link, tokens, resp, turn, entered, passed>>
  BY DEF DoPut, At, Goto, barVars
<1>2. pc'[r] = "barrier" /\ heap'[r] = Input(r, 1)
  BY <1>0, <1>1 DEF SymTypes, NaiveRank
<1>3. NaiveRank(r)'
  BY <1>0, <1>1, <1>2 DEF NaiveRank, Posted
<1>5. ASSUME NEW q \in Ranks, q # r PROVE NaiveRank(q)'
  <2>1. pc'[q] = pc[q] /\ heap'[q] = heap[q]
    BY <1>0, <1>1, <1>5 DEF SymTypes
  <2> QED
    BY <1>1, <2>1, NaiveOther DEF OnceInv
<1>6. ASSUME NEW l \in Links PROVE NaiveLink(l)' /\ NaiveResp(l)'
  BY <1>1 DEF OnceInv, NaiveLink, NaiveResp
<1> QED
  BY <1>3, <1>5, <1>6 DEF OnceInv

LEMMA NaiveBarrier ==
    ASSUME SymInv, OnceInv, Algo = "naive", NEW r \in Ranks, BarrierEnter(r), UNCHANGED mode
    PROVE  OnceInv'
<1> DEFINE x == IF Net /\ r = 0 THEN "collect" ELSE "wait"
<1>0. SymTypes /\ NaiveRank(r)
  BY DEF SymInv, OnceInv
<1>1. /\ pc[r] = "barrier" /\ pc' = [pc EXCEPT ![r] = x] /\ x \in Blocked
      /\ UNCHANGED <<call, step, second, local, acc, heap, tokens, resp, passed>>
  BY DEF BarrierEnter, At, Goto, dataVars, Blocked
<1>2. pc'[r] \in Blocked
  BY <1>0, <1>1 DEF SymTypes
<1>3. NaiveRank(r)'
  BY <1>0, <1>1, <1>2 DEF NaiveRank, Posted, Blocked
<1>5. ASSUME NEW q \in Ranks, q # r PROVE NaiveRank(q)'
  <2>1. pc'[q] = pc[q]
    BY <1>0, <1>1, <1>5 DEF SymTypes
  <2> QED
    BY <1>1, <2>1, NaiveOther DEF OnceInv
<1>6. \A l \in Links : (NaiveLink(l) /\ NaiveResp(l))'
  <2>1. PICK k \in Links : UNCHANGED link \/ Sends(k, Token)
    <3>1. CASE Net /\ r # 0
      BY <3>1, RanksAre DEF BarrierEnter
    <3>2. CASE ~(Net /\ r # 0)
      <4>1. UNCHANGED link
        BY <3>2 DEF BarrierEnter
      <4>2. <<0, Right(0)>> \in Links
        BY RanksAre
      <4> QED
        BY <4>1, <4>2
    <3> QED
      BY <3>1, <3>2
  <2>2. passed' \in [Ranks -> Nat] /\ \A q \in Ranks : passed'[q] >= passed[q]
    BY <1>0, <1>1 DEF SymTypes
  <2> QED
    BY <1>0, <1>1, <2>1, <2>2, TokenOk, FramesAre, NaiveSends DEF OnceInv
<1> QED
  BY <1>3, <1>5, <1>6 DEF OnceInv

\* Leaving the barrier.
LEMMA NaivePasses ==
    ASSUME SymInv, OnceInv, Algo = "naive", NEW r \in Ranks, Passes(r), pc[r] \in Blocked,
           UNCHANGED resp,
           NEW k \in Links, UNCHANGED link \/ Sends(k, Token)
    PROVE  OnceInv'
<1>0. SymTypes /\ Places /\ NaiveRank(r)
  BY DEF SymInv, OnceInv
<1>1. ~second[r]
  BY <1>0 DEF Places
<1>2. /\ pc' = [pc EXCEPT ![r] = "get"] /\ passed' = [passed EXCEPT ![r] = @ + 1]
      /\ UNCHANGED <<call, step, second, local, acc, heap>>
  BY <1>1 DEF Passes, Goto, dataVars
<1>3. pc'[r] = "get" /\ passed'[r] = passed[r] + 1 /\ passed[r] \in Nat
  BY <1>0, <1>2 DEF SymTypes
<1>4. acc[r] = Prefix(step[r])
  BY <1>0, RanksAre, PrefixIs DEF NaiveRank
<1>4a. passed'[r] > 0
  BY <1>3
<1>4b. heap[r] = Input(r, 1) /\ call[r] = 1
  BY <1>0 DEF NaiveRank, Posted, Blocked
<1>4c. NaiveRank(r)'
  BY <1>2, <1>3, <1>4, <1>4a, <1>4b DEF NaiveRank, Posted, Blocked
<1>5. ASSUME NEW q \in Ranks, q # r PROVE NaiveRank(q)'
  <2>1. pc'[q] = pc[q] /\ passed'[q] = passed[q]
    BY <1>0, <1>2, <1>5 DEF SymTypes
  <2> QED
    BY <1>2, <2>1, NaiveOther DEF OnceInv
<1>6. passed' \in [Ranks -> Nat] /\ \A q \in Ranks : passed'[q] >= passed[q]
  BY <1>0, <1>2 DEF SymTypes
<1>7. \A l \in Links : (NaiveLink(l) /\ NaiveResp(l))'
  BY <1>0, <1>6, TokenOk, FramesAre, NaiveSends DEF OnceInv
<1> QED
  BY <1>4c, <1>5, <1>7 DEF OnceInv

LEMMA NaiveReleases ==
    ASSUME SymInv, OnceInv, Algo = "naive", UNCHANGED mode,
           \/ \E r \in Ranks : LocalRelease(r) \/ Release(r)
           \/ RootCollects \/ RootReleases
    PROVE  OnceInv'
<1>0. SymTypes /\ Places /\ 0 \in Ranks /\ <<0, Right(0)>> \in Links
  BY RanksAre DEF SymInv
<1>1. ASSUME NEW r \in Ranks, LocalRelease(r) \/ Release(r) PROVE OnceInv'
  <2>1. Passes(r) /\ pc[r] \in Blocked /\ UNCHANGED <<link, resp>>
    BY <1>1 DEF LocalRelease, Release, At, Blocked, netVars
  <2> QED
    BY <1>0, <2>1, NaivePasses
<1>2. ASSUME UNCHANGED <<call, step, second, local, acc, heap, resp, passed>>,
             NEW x \in Blocked, pc[0] \in Blocked, pc' = [pc EXCEPT ![0] = x],
             NEW k \in Links, UNCHANGED link \/ Sends(k, Token)
      PROVE  OnceInv'
  <2>1. pc'[0] \in Blocked /\ \A q \in Ranks : q # 0 => pc'[q] = pc[q]
    BY <1>0, <1>2 DEF SymTypes
  <2>2. NaiveRank(0)
    BY <1>0 DEF OnceInv
  <2>3. NaiveRank(0)'
    BY <1>2, <2>1, <2>2 DEF NaiveRank, Posted, Blocked
  <2>4. ASSUME NEW q \in Ranks, q # 0 PROVE NaiveRank(q)'
    BY <1>2, <2>1, <2>4, NaiveOther DEF OnceInv
  <2>5. passed' \in [Ranks -> Nat] /\ \A q \in Ranks : passed'[q] >= passed[q]
    BY <1>0, <1>2 DEF SymTypes
  <2>6. \A l \in Links : (NaiveLink(l) /\ NaiveResp(l))'
    BY <1>0, <1>2, <2>5, TokenOk, FramesAre, NaiveSends DEF OnceInv
  <2> QED
    BY <2>3, <2>4, <2>6 DEF OnceInv
<1>3. CASE RootCollects
  <2>1. PICK x \in Blocked : pc' = [pc EXCEPT ![0] = x]
    BY <1>3 DEF RootCollects, Goto, Blocked
  <2>2. pc[0] \in Blocked /\ UNCHANGED <<call, step, second, local, acc, heap, link, resp, passed>>
    BY <1>3 DEF RootCollects, At, Blocked, dataVars
  <2> QED
    BY <1>0, <1>2, <2>1, <2>2
<1>4. CASE RootReleases
  <2>1. pc[0] \in Blocked /\ pc[0] = "release" /\ Sends(<<0, turn>>, Token) /\ UNCHANGED resp
    BY <1>4 DEF RootReleases, At, Blocked
  <2>2. <<0, turn>> \in Links
    BY <1>0, <2>1, RanksAre DEF Places
  <2>3. CASE turn < N - 1
    <3>1. pc' = [pc EXCEPT ![0] = "release"] /\ UNCHANGED <<call, step, second, local, acc, heap, passed>>
      BY <1>4, <2>3 DEF RootReleases, Goto, dataVars
    <3>2. "release" \in Blocked
      BY DEF Blocked
    <3> QED
      BY <1>2, <2>1, <2>2, <3>1, <3>2
  <2>4. CASE ~(turn < N - 1)
    <3>1. Passes(0)
      BY <1>4, <2>4 DEF RootReleases
    <3> QED
      BY <1>0, <2>1, <2>2, <3>1, NaivePasses
  <2> QED
    BY <2>3, <2>4
<1> QED
  BY <1>1, <1>3, <1>4

\* Once somebody has passed the barrier every input is in its slot.
LEMMA AllPosted ==
    ASSUME SymInv, BarrierHolds, OnceInv, NEW q \in Ranks, passed[q] > 0, NEW r \in Ranks
    PROVE  heap[r] = Input(r, 1)
<1>0. SymTypes /\ BarrierInv /\ NaiveRank(r)
  BY DEF SymInv, OnceInv
<1>1. passed[q] =< entered[r] /\ passed[q] \in Nat /\ entered[r] \in Nat /\ passed[r] \in Nat
  BY <1>0 DEF BarrierHolds, SymTypes
<1>2. entered[r] = passed[r] + IF pc[r] \in Blocked THEN 1 ELSE 0
  BY <1>0 DEF BarrierInv
<1>3. pc[r] \in Blocked \/ passed[r] # 0
  BY <1>1, <1>2
<1>4. pc[r] \in {"out", "put", "barrier", "get", "getting"} \cup Blocked
  BY <1>0 DEF SymTypes
<1>5. Posted(r)
  BY <1>0, <1>3, <1>4 DEF NaiveRank, Posted
<1> QED
  BY <1>0, <1>5 DEF NaiveRank

\* One more slot folded in.
LEMMA NaiveFold ==
    ASSUME SymInv, OnceInv, Algo = "naive", NEW r \in Ranks, pc[r] \in {"get", "getting"},
           FoldIn(r, Input(step[r], 1)), UNCHANGED <<call, heap, passed>>
    PROVE  \A q \in Ranks : NaiveRank(q)'
<1>0. SymTypes /\ Places /\ NaiveRank(r)
  BY DEF SymInv, OnceInv
<1>1. step[r] \in Ranks /\ N \in Nat /\ step[r] \in 0..(N - 1) /\ 0 \in Chunks
  BY <1>0, RanksAre, ChunksAre DEF Places, Ranks
<1>2. acc' = [acc EXCEPT ![r] = @ \o Input(step[r], 1)]
  BY DEF FoldIn
<1>3. acc'[r] = Prefix(step[r] + 1)
  <2>1. acc'[r] = acc[r] \o Input(step[r], 1) /\ acc[r] = Prefix(step[r])
    BY <1>0, <1>2 DEF SymTypes, NaiveRank
  <2> QED
    BY <1>1, <2>1, PrefixIs
<1>4. call[r] = 1 /\ passed[r] > 0 /\ heap[r] = Input(r, 1)
  BY <1>0 DEF NaiveRank, Posted
<1>5. NaiveRank(r)'
  <2>1. CASE step[r] < N - 1
    <3>1. pc' = [pc EXCEPT ![r] = "get"] /\ step' = [step EXCEPT ![r] = @ + 1]
      BY <2>1 DEF FoldIn, Goto
    <3>2. pc'[r] = "get" /\ step'[r] = step[r] + 1
      BY <1>0, <3>1 DEF SymTypes
    <3> QED
      BY <1>3, <1>4, <3>2 DEF NaiveRank, Posted, Blocked
  <2>2. CASE ~(step[r] < N - 1)
    <3>1. pc' = [pc EXCEPT ![r] = "out"] /\ local' = [local EXCEPT ![r][0] = acc'[r]]
      BY <2>2 DEF FoldIn, Goto
    <3>2. pc'[r] = "out" /\ local'[r][0] = acc'[r]
      BY <1>0, <1>1, <3>1 DEF SymTypes
    <3>3. step[r] + 1 = N
      BY <1>1, <2>2
    <3> QED
      BY <1>3, <1>4, <3>2, <3>3 DEF NaiveRank, Posted, Blocked
  <2> QED
    BY <2>1, <2>2
<1>6. ASSUME NEW q \in Ranks, q # r PROVE NaiveRank(q)'
  <2>1. pc'[q] = pc[q]
    BY <1>0, <1>6 DEF SymTypes, FoldIn, Goto
  <2>2. step'[q] = step[q]
    BY <1>0, <1>6 DEF SymTypes, FoldIn
  <2>3. acc'[q] = acc[q]
    BY <1>0, <1>2, <1>6 DEF SymTypes
  <2>4. local'[q] = local[q]
    BY <1>0, <1>6 DEF SymTypes, FoldIn
  <2> QED
    BY <2>1, <2>2, <2>3, <2>4, NaiveOther DEF OnceInv
<1> QED
  BY <1>5, <1>6

LEMMA NaiveSlot ==
    ASSUME SymInv, BarrierHolds, OnceInv, Algo = "naive", NEW r \in Ranks, GetSlot(r)
    PROVE  OnceInv'
<1>0. SymTypes /\ Places /\ NaiveRank(r)
  BY DEF SymInv, OnceInv
<1>1. pc[r] = "get" /\ UNCHANGED <<call, heap, tokens, resp, passed>> /\ passed[r] > 0 /\ step[r] \in Ranks
  BY <1>0 DEF GetSlot, At, barVars, NaiveRank, Places
<1>2. passed' \in [Ranks -> Nat] /\ \A q \in Ranks : passed'[q] >= passed[q]
  BY <1>0, <1>1 DEF SymTypes
<1>3. CASE Net /\ step[r] # r
  <2>1. /\ Sends(<<r, step[r]>>, GetReq) /\ pc' = [pc EXCEPT ![r] = "getting"]
        /\ UNCHANGED <<step, local, acc>>
    BY <1>3 DEF GetSlot, Goto
  <2>2. pc'[r] = "getting" /\ \A q \in Ranks : q # r => pc'[q] = pc[q]
    BY <1>0, <2>1 DEF SymTypes
  <2>3. NaiveRank(r)'
    BY <1>0, <1>1, <2>1, <2>2 DEF NaiveRank, Posted, Blocked
  <2>4. ASSUME NEW q \in Ranks, q # r PROVE NaiveRank(q)'
    BY <1>1, <2>1, <2>2, <2>4, NaiveOther DEF OnceInv
  <2>5. <<r, step[r]>> \in Links /\ GetReq \in Frames
    BY <1>1, <1>3, RanksAre, FramesAre
  <2>6. FrameOk(<<r, step[r]>>, GetReq, passed'[r])
    BY <1>1 DEF FrameOk, GetReq
  <2>7. \A l \in Links : (NaiveLink(l) /\ NaiveResp(l))'
    BY <1>0, <1>1, <1>2, <2>1, <2>5, <2>6, NaiveSends DEF OnceInv
  <2> QED
    BY <2>3, <2>4, <2>7 DEF OnceInv
<1>4. CASE ~(Net /\ step[r] # r)
  <2>1. FoldIn(r, heap[step[r]]) /\ UNCHANGED link
    BY <1>4 DEF GetSlot
  <2>2. heap[step[r]] = Input(step[r], 1)
    BY <1>1, AllPosted
  <2>3. \A q \in Ranks : NaiveRank(q)'
    BY <1>1, <2>1, <2>2, NaiveFold
  <2>4. ASSUME NEW l \in Links PROVE NaiveLink(l)' /\ NaiveResp(l)'
    BY <1>1, <2>1 DEF OnceInv, NaiveLink, NaiveResp
  <2> QED
    BY <2>3, <2>4 DEF OnceInv
<1> QED
  BY <1>3, <1>4

LEMMA NaiveTake ==
    ASSUME SymInv, OnceInv, Algo = "naive", NEW r \in Ranks, GetTake(r)
    PROVE  OnceInv'
<1>0. SymTypes /\ Places /\ NaiveRank(r)
  BY DEF SymInv, OnceInv
<1> DEFINE l == <<step[r], r>>
<1>1. /\ pc[r] = "getting" /\ resp[l] # << >> /\ FoldIn(r, Head(resp[l]))
      /\ resp' = [resp EXCEPT ![l] = Tail(@)]
      /\ UNCHANGED <<call, second, heap, link, tokens, turn, entered, passed>>
  BY DEF GetTake, At, barVars
<1>2. l \in Links /\ resp \in [Links -> Seq(Folds)] /\ l[1] = step[r]
  BY <1>0, <1>1, RanksAre DEF SymTypes, Places
<1> HIDE DEF l
<1>3. /\ Head(resp[l]) = resp[l][1] /\ Len(resp[l]) \in Nat \ {0}
      /\ Len(Tail(resp[l])) = Len(resp[l]) - 1
      /\ \A i \in 1..Len(Tail(resp[l])) : Tail(resp[l])[i] = resp[l][i + 1]
  BY <1>1, <1>2, QueueTake
<1>4. NaiveResp(l)
  BY <1>2 DEF OnceInv
<1>5. Head(resp[l]) = Input(step[r], 1)
  <2>1. 1 \in 1..Len(resp[l])
    BY <1>3
  <2> QED
    BY <1>2, <1>3, <1>4, <2>1 DEF NaiveResp
<1>6. \A q \in Ranks : NaiveRank(q)'
  BY <1>1, <1>5, NaiveFold
<1>7. ASSUME NEW k \in Links PROVE NaiveLink(k)' /\ NaiveResp(k)'
  <2>1. NaiveLink(k)'
    BY <1>1 DEF OnceInv, NaiveLink
  <2>2. CASE k # l
    <3>1. resp'[k] = resp[k]
      BY <1>1, <1>2, <2>2
    <3> QED
      BY <2>1, <3>1 DEF OnceInv, NaiveResp
  <2>3. CASE k = l
    <3>1. resp'[k] = Tail(resp[l])
      BY <1>1, <1>2, <2>3
    <3>2. \A i \in 1..Len(Tail(resp[l])) : i + 1 \in 1..Len(resp[l])
      BY <1>3
    <3> QED
      BY <1>3, <1>4, <2>1, <2>3, <3>1, <3>2 DEF NaiveResp
  <2> QED
    BY <2>2, <2>3
<1> QED
  BY <1>6, <1>7 DEF OnceInv

LEMMA NaiveReader ==
    ASSUME SymInv, BarrierHolds, OnceInv, Algo = "naive", NEW l \in Links, Reader(l)
    PROVE  OnceInv'
<1> DEFINE m == Head(link[l])
           back == <<l[2], l[1]>>
           took == [link EXCEPT ![l] = Tail(@)]
<1>0. SymTypes
  BY DEF SymInv
<1>1. /\ link[l] # << >>
      /\ UNCHANGED <<mode, pc, call, step, second, local, acc, turn, entered, passed>>
  BY DEF Reader, barVars
<1>2. /\ link \in [Links -> Seq(Frames)] /\ heap \in [Ranks -> Folds] /\ resp \in [Links -> Seq(Folds)]
      /\ l[1] \in Ranks /\ l[2] \in Ranks /\ back \in Links /\ back # l /\ back[1] = l[2]
  <2>1. l[1] # l[2]
    BY DEF Links
  <2> QED
    BY <1>0, <2>1, RanksAre DEF SymTypes
<1>3. /\ took \in [Links -> Seq(Frames)] /\ m \in Frames /\ m = link[l][1]
      /\ Len(link[l]) \in Nat \ {0} /\ Len(Tail(link[l])) = Len(link[l]) - 1
      /\ \A i \in 1..Len(Tail(link[l])) : Tail(link[l])[i] = link[l][i + 1]
  BY <1>1, <1>2, QueueTake
<1>4. NaiveLink(l) /\ NaiveResp(l)
  BY DEF OnceInv
<1>5. FrameOk(l, m, passed[l[1]])
  <2>1. 1 \in 1..Len(link[l])
    BY <1>3
  <2> QED
    BY <1>3, <1>4, <2>1 DEF NaiveLink
<1>6. \A i \in 1..Len(took[l]) : FrameOk(l, took[l][i], passed[l[1]])
  <2>1. took[l] = Tail(link[l])
    BY <1>2
  <2>2. \A i \in 1..Len(Tail(link[l])) : i + 1 \in 1..Len(link[l])
    BY <1>3
  <2> QED
    BY <1>3, <1>4, <2>1, <2>2 DEF NaiveLink
<1>7. ASSUME NEW k \in Links PROVE \A i \in 1..Len(took[k]) : FrameOk(k, took[k][i], passed[k[1]])
  <2>1. CASE k = l
    BY <1>6, <2>1
  <2>2. CASE k # l
    <3>1. took[k] = link[k]
      BY <1>2, <2>2
    <3> QED
      BY <3>1 DEF OnceInv, NaiveLink
  <2> QED
    BY <2>1, <2>2
<1>8. m.kind \in {"SEND", "GETREQ", "GETRESP"}
  BY <1>5 DEF Reader, FrameOk
<1>9. UNCHANGED heap
  BY <1>8 DEF Reader
<1>10. ASSUME NEW q \in Ranks PROVE NaiveRank(q)'
  BY <1>1, <1>9, NaiveOther DEF OnceInv
<1> HIDE DEF took, back, m
<1>11. CASE m.kind = "SEND"
  <2>1. link' = took /\ UNCHANGED resp
    BY <1>11 DEF Reader, took, m
  <2> QED
    BY <1>1, <1>7, <1>10, <2>1 DEF OnceInv, NaiveLink, NaiveResp
<1>12. CASE m.kind = "GETREQ"
  <2> DEFINE e == GetResp(heap[l[2]])
  <2>1. UNCHANGED resp /\ link' = [link EXCEPT ![l] = Tail(@), ![back] = Append(@, e)]
    BY <1>12 DEF Reader, back, m
  <2>2. e \in Frames /\ e.kind = "GETRESP" /\ e.val = heap[l[2]]
    BY <1>2, FramesAre DEF GetResp
  <2>3. heap[l[2]] = Input(l[2], 1)
    BY <1>2, <1>5, <1>12, AllPosted DEF FrameOk
  <2>4. FrameOk(back, e, passed[back[1]])
    BY <1>2, <2>2, <2>3 DEF FrameOk
  <2> HIDE DEF e
  <2>5. link' = [took EXCEPT ![back] = Append(@, e)]
    <3>1. took[back] = link[back]
      BY <1>2 DEF took
    <3> QED
      BY <1>2, <2>1, <3>1 DEF took
  <2>6. ASSUME NEW k \in Links PROVE NaiveLink(k)'
    <3>1. CASE k # back
      <4>1. link'[k] = took[k]
        BY <1>3, <2>5, <3>1
      <4> QED
        BY <1>1, <1>7, <4>1 DEF NaiveLink
    <3>2. CASE k = back
      <4>1. link'[k] = Append(took[k], e) /\ took[k] \in Seq(Frames)
        BY <1>3, <2>5, <3>2
      <4>2. /\ Len(link'[k]) = Len(took[k]) + 1 /\ Len(took[k]) \in Nat
            /\ \A i \in 1..Len(took[k]) : link'[k][i] = took[k][i]
            /\ link'[k][Len(took[k]) + 1] = e
        BY <2>2, <4>1, AppendProperties
      <4>3. ASSUME NEW i \in 1..Len(link'[k]) PROVE FrameOk(k, link'[k][i], passed[k[1]])
        <5>1. i \in 1..Len(took[k]) \/ i = Len(took[k]) + 1
          BY <4>2
        <5> QED
          BY <1>7, <2>4, <3>2, <4>2, <5>1
      <4> QED
        BY <1>1, <4>3 DEF NaiveLink
    <3> QED
      BY <3>1, <3>2
  <2> QED
    BY <1>10, <2>1, <2>6 DEF OnceInv, NaiveResp
<1>13. CASE m.kind = "GETRESP"
  <2>1. link' = took /\ resp' = [resp EXCEPT ![l] = Append(@, m.val)]
    BY <1>13 DEF Reader, took, m
  <2>2. m.val = Input(l[1], 1) /\ m.val \in Folds
    BY <1>3, <1>5, <1>13, FramesAre DEF FrameOk
  <2>3. ASSUME NEW k \in Links PROVE NaiveResp(k)'
    <3>1. CASE k # l
      <4>1. resp'[k] = resp[k]
        BY <1>2, <2>1, <3>1
      <4> QED
        BY <4>1 DEF OnceInv, NaiveResp
    <3>2. CASE k = l
      <4>1. resp'[k] = Append(resp[k], m.val) /\ resp[k] \in Seq(Folds)
        BY <1>2, <2>1, <3>2
      <4>2. /\ Len(resp'[k]) = Len(resp[k]) + 1 /\ Len(resp[k]) \in Nat
            /\ \A i \in 1..Len(resp[k]) : resp'[k][i] = resp[k][i]
            /\ resp'[k][Len(resp[k]) + 1] = m.val
        BY <2>2, <4>1, AppendProperties
      <4>3. ASSUME NEW i \in 1..Len(resp'[k]) PROVE resp'[k][i] = Input(k[1], 1)
        <5>1. i \in 1..Len(resp[k]) \/ i = Len(resp[k]) + 1
          BY <4>2
        <5> QED
          BY <1>4, <2>2, <3>2, <4>2, <5>1 DEF NaiveResp
      <4> QED
        BY <4>3 DEF NaiveResp
    <3> QED
      BY <3>1, <3>2
  <2>4. ASSUME NEW k \in Links PROVE NaiveLink(k)'
    BY <1>1, <1>7, <2>1 DEF NaiveLink
  <2> QED
    BY <1>10, <2>3, <2>4 DEF OnceInv
<1> QED
  BY <1>8, <1>11, <1>12, <1>13

LEMMA NaiveStep ==
    ASSUME SymInv, NaiveInv, [Next]_vars
    PROVE  NaiveInv'
<1>0. BarrierHolds
  BY CountsHold
<1>1. UNCHANGED mode
  BY DEF Next, RankStep, Root, Reader, vars
<1>2. Algo' = Algo /\ NCalls' = NCalls
  BY <1>1 DEF Algo, NCalls
<1> SUFFICES ASSUME Algo = "naive", NCalls = 1, OnceInv
             PROVE  OnceInv'
  BY <1>2 DEF NaiveInv
<1>3. CASE UNCHANGED vars
  <2>1. UNCHANGED <<mode, pc, call, step, second, local, acc, heap, link, tokens, resp, turn, entered, passed>>
    BY <1>3 DEF vars, dataVars, netVars, barVars
  <2> QED
    BY <2>1 DEF OnceInv, NaiveRank, NaiveLink, NaiveResp, Posted
<1>4. ASSUME NEW r \in Ranks, RankStep(r) PROVE OnceInv'
  <2>1. ~TakeMailbox(r)
    BY DEF TakeMailbox
  <2>2. \/ Enter(r) \/ DoPut(r) \/ GetSlot(r) \/ GetTake(r)
        \/ BarrierEnter(r) \/ LocalRelease(r) \/ Release(r)
    BY <1>4, <2>1 DEF RankStep
  <2> QED
    BY <1>0, <1>1, <2>2, NaiveEnter, NaivePut, NaiveSlot, NaiveTake, NaiveBarrier, NaiveReleases
<1>5. CASE Root
  BY <1>1, <1>5, NaiveReleases DEF Root
<1>6. ASSUME NEW l \in Links, Reader(l) PROVE OnceInv'
  BY <1>0, <1>6, NaiveReader
<1> QED
  BY <1>3, <1>4, <1>5, <1>6 DEF Next

LEMMA NaiveStart == Init => NaiveInv
<1> SUFFICES ASSUME Init PROVE OnceInv
  BY DEF NaiveInv
<1>1. ASSUME NEW r \in Ranks PROVE NaiveRank(r)
  <2>1. pc[r] = "out" /\ call[r] = 0 /\ passed[r] = 0
    BY DEF Init
  <2> QED
    BY <2>1 DEF NaiveRank, Posted, Blocked
<1>2. ASSUME NEW l \in Links PROVE NaiveLink(l) /\ NaiveResp(l)
  <2>1. link[l] = << >> /\ resp[l] = << >> /\ 1..Len(<< >>) = {}
    BY DEF Init
  <2> QED
    BY <2>1 DEF NaiveLink, NaiveResp
<1> QED
  BY <1>1, <1>2 DEF OnceInv

-----------------------------------------------------------------------------
(* ring_all_reduce: places and buffers.                                    *)

LEMMA DoneIs ==
    ASSUME SymInv, Algo = "ring", NEW r \in Ranks
    PROVE  /\ Done(r) \in Int /\ Steps \in Nat /\ Steps > 1
           /\ step[r] \in 0..(Steps - 1) /\ call[r] \in Nat /\ passed[r] \in Nat
<1>1. SymTypes /\ Places /\ N \in Nat /\ N > 1
  BY RanksAre DEF SymInv
<1>2. Steps \in Nat /\ Steps > 1
  BY <1>1 DEF Steps
<1>3. step[r] \in 0..(Steps - 1) /\ call[r] \in Nat /\ passed[r] \in Nat
  BY <1>1 DEF SymTypes, Places
<1> HIDE DEF Steps
<1>4. call[r] * Steps \in Int /\ (call[r] - 1) * Steps + step[r] \in Int
  BY <1>2, <1>3
<1> QED
  BY <1>2, <1>3, <1>4 DEF Done

\* A rank a step does not touch, or moves within its barrier.
LEMMA RingOther ==
    ASSUME NEW q \in Ranks,
           pc'[q] = pc[q] \/ (pc[q] \in {"barrier"} \cup Blocked /\ pc'[q] \in {"barrier"} \cup Blocked),
           call'[q] = call[q], step'[q] = step[q],
           second'[q] = second[q], local'[q] = local[q], passed'[q] = passed[q]
    PROVE  /\ RingPlace(q) => RingPlace(q)'
           /\ RingBuffer(q) => RingBuffer(q)'
<1>1. /\ (pc'[q] = "out") = (pc[q] = "out") /\ (pc'[q] = "get") = (pc[q] = "get")
      /\ (pc'[q] = "put") = (pc[q] = "put")
  BY DEF Blocked
<1>2. Busy(q)' = Busy(q)
  BY <1>1 DEF Busy
<1>3. Took(q)' = Took(q)
  BY <1>2 DEF Took
<1>4. Done(q)' = Done(q) /\ Takes(q)' = Takes(q)
  BY <1>1, <1>3 DEF Done, Takes
<1>5. RingPlace(q) => RingPlace(q)'
  BY <1>1, <1>3, <1>4 DEF RingPlace
<1>6. RingBuffer(q) => RingBuffer(q)'
  BY <1>4 DEF RingBuffer
<1> QED
  BY <1>5, <1>6

LEMMA RingEnter ==
    ASSUME SymInv, Algo = "ring", NEW r \in Ranks, Enter(r), RingPlace(r)
    PROVE  RingPlace(r)' /\ RingBuffer(r)'
<1>0. SymTypes
  BY DEF SymInv
<1>1. /\ pc[r] = "out" /\ pc' = [pc EXCEPT ![r] = "put"]
      /\ call' = [call EXCEPT ![r] = @ + 1] /\ step' = [step EXCEPT ![r] = 0]
      /\ local' = [local EXCEPT ![r] = [c \in Chunks |-> Input(r, call[r] + 1)]]
      /\ UNCHANGED <<second, passed>>
  BY DEF Enter, At, Goto, netVars, barVars
<1>2. /\ pc'[r] = "put" /\ call'[r] = call[r] + 1 /\ step'[r] = 0
      /\ local'[r] = [c \in Chunks |-> Input(r, call[r] + 1)]
  BY <1>0, <1>1 DEF SymTypes
<1>3. Steps \in Nat /\ Steps > 1 /\ call[r] \in Nat /\ Chunks = Ranks
  BY DoneIs DEF Chunks, Ranks
<1> HIDE DEF Steps
<1>4. ~Took(r) /\ ~Took(r)'
  BY <1>1, <1>2 DEF Took, Busy
<1>5. Takes(r)' = 0
  <2>1. Takes(r)' = 0 + 0
    BY <1>2, <1>4 DEF Takes
  <2> QED
    BY <2>1
<1>6. Done(r)' = Done(r)
  <2>1. Done(r)' = (call'[r] - 1) * Steps + step'[r] /\ Done(r) = call[r] * Steps
    BY <1>1, <1>2 DEF Done
  <2>2. call'[r] - 1 = call[r] /\ step'[r] = 0 /\ call[r] * Steps \in Int
    BY <1>2, <1>3
  <2>1a. Done(r)' = call[r] * Steps + 0
    BY <2>1, <2>2
  <2>3. \A x \in Int : x + 0 = x
    OBVIOUS
  <2> QED
    BY <2>1, <2>1a, <2>2, <2>3
<1>7. RingPlace(r)'
  <2>1. call'[r] > 0
    BY <1>2, <1>3
  <2> QED
    BY <1>1, <1>2, <1>4, <1>6, <2>1 DEF RingPlace
<1>8. RingBuffer(r)'
  <2>1. call'[r] \in Nat
    BY <1>2, <1>3
  <2>2. \A c \in Ranks : local'[r][c] = Input(r, call'[r])
    BY <1>2, <1>3
  <2> QED
    BY <1>5, <2>1, <2>2, ValStart DEF RingBuffer
<1> QED
  BY <1>7, <1>8

LEMMA RingPut ==
    ASSUME SymInv, Algo = "ring", NEW r \in Ranks, DoPut(r)
    PROVE  RingPlace(r) => RingPlace(r)' /\ (RingBuffer(r) => RingBuffer(r)')
<1> SUFFICES ASSUME RingPlace(r) PROVE RingPlace(r)' /\ (RingBuffer(r) => RingBuffer(r)')
  OBVIOUS
<1>0. SymTypes
  BY DEF SymInv
<1>1. /\ pc[r] = "put" /\ pc' = [pc EXCEPT ![r] = "barrier"]
      /\ second' = [second EXCEPT ![r] = FALSE]
      /\ UNCHANGED <<call, step, local, passed>>
  BY DEF DoPut, At, Goto, barVars
<1>2. pc'[r] = "barrier" /\ ~second'[r]
  BY <1>0, <1>1 DEF SymTypes
<1>3. ~Took(r) /\ ~Took(r)'
  BY <1>1, <1>2 DEF Took, Busy
<1>4. Done(r)' = Done(r) /\ Takes(r)' = Takes(r)
  BY <1>1, <1>2, <1>3 DEF Done, Takes
<1>5. RingPlace(r)'
  BY <1>1, <1>2, <1>3, <1>4 DEF RingPlace
<1>6. RingBuffer(r) => RingBuffer(r)'
  BY <1>1, <1>4 DEF RingBuffer
<1> QED
  BY <1>5, <1>6

LEMMA RingPasses ==
    ASSUME SymInv, Algo = "ring", NEW r \in Ranks, Passes(r), pc[r] \in Blocked, RingPlace(r)
    PROVE  RingPlace(r)' /\ (RingBuffer(r) => RingBuffer(r)')
<1>0. SymTypes
  BY DEF SymInv
<1>1. /\ passed' = [passed EXCEPT ![r] = @ + 1] /\ UNCHANGED <<call, second, local, acc, heap>>
  BY DEF Passes, dataVars
<1>2. /\ passed'[r] = passed[r] + 1 /\ Busy(r) /\ pc[r] # "out" /\ pc[r] # "get"
  BY <1>0, <1>1 DEF SymTypes, Busy, Blocked
<1>3. /\ Done(r) \in Int /\ Steps \in Nat /\ Steps > 1 /\ step[r] \in 0..(Steps - 1)
      /\ call[r] \in Nat /\ passed[r] \in Nat /\ call[r] > 0
  BY <1>2, DoneIs DEF RingPlace
<1>4. Done(r) = (call[r] - 1) * Steps + step[r] /\ (call[r] - 1) * Steps \in Int
  <2> HIDE DEF Steps
  <2> QED
    BY <1>2, <1>3 DEF Done
<1>5. passed[r] = 2 * Done(r) + IF second[r] THEN 1 ELSE 0
  BY <1>2 DEF RingPlace, Took
<1>6. Takes(r) = step[r] + IF second[r] THEN 1 ELSE 0
  BY <1>2 DEF Takes, Took
<1> HIDE DEF Steps
<1>7. CASE ~second[r]
  <2>1. pc' = [pc EXCEPT ![r] = "get"] /\ UNCHANGED step
    BY <1>7 DEF Passes, Goto
  <2>2. pc'[r] = "get" /\ ~second'[r]
    BY <1>0, <1>1, <1>7, <2>1 DEF SymTypes
  <2>3. Done(r)' = Done(r) /\ ~Took(r)'
    BY <1>1, <1>2, <2>1, <2>2 DEF Done, Took
  <2>4. Takes(r)' = Takes(r)
    BY <1>6, <1>7, <2>1, <2>2, <2>3 DEF Takes
  <2>5. passed'[r] = 2 * Done(r) + 1
    BY <1>2, <1>3, <1>5, <1>7
  <2>6. RingPlace(r)'
    BY <1>1, <1>3, <2>2, <2>3, <2>5 DEF RingPlace
  <2> QED
    BY <1>1, <2>4, <2>6 DEF RingBuffer
<1>8. CASE second[r] /\ step[r] < Steps - 1
  <2>1. pc' = [pc EXCEPT ![r] = "put"] /\ step' = [step EXCEPT ![r] = @ + 1]
    <3>1. step[r] # Steps - 1
      BY <1>3, <1>8
    <3> QED
      BY <1>8, <3>1 DEF Passes, Goto
  <2>2. pc'[r] = "put" /\ step'[r] = step[r] + 1
    BY <1>0, <2>1 DEF SymTypes
  <2>3. ~Took(r)'
    BY <2>2 DEF Took, Busy
  <2>4. Done(r)' = (call[r] - 1) * Steps + (step[r] + 1) /\ Takes(r)' = step[r] + 1 + 0
    BY <1>1, <2>2, <2>3 DEF Done, Takes
  <2>5. Takes(r)' = Takes(r)
    BY <1>3, <1>6, <1>8, <2>4
  <2>6. Done(r)' = Done(r) + 1
    BY <1>3, <1>4, <2>4
  <2>7. passed'[r] = 2 * Done(r)' + 0
    <3>1. PICK D \in Int : D = Done(r)
      BY <1>3
    <3> QED
      BY <1>2, <1>3, <1>5, <1>8, <2>6, <3>1
  <2>8. RingPlace(r)'
    BY <1>1, <1>3, <2>2, <2>3, <2>7 DEF RingPlace
  <2> QED
    BY <1>1, <2>5, <2>8 DEF RingBuffer
<1>9. CASE second[r] /\ ~(step[r] < Steps - 1)
  <2>0. step[r] = Steps - 1
    BY <1>3, <1>9
  <2>1. pc' = [pc EXCEPT ![r] = "out"] /\ step' = step
    BY <1>9 DEF Passes, Goto
  <2>2. pc'[r] = "out"
    BY <1>0, <2>1 DEF SymTypes
  <2>3. ~Took(r)'
    BY <2>2 DEF Took, Busy
  <2>4. Done(r)' = call[r] * Steps /\ Takes(r)' = Steps
    BY <1>1, <2>2, <2>3 DEF Done, Takes
  <2>5. Takes(r)' = Takes(r)
    BY <1>3, <1>6, <1>9, <2>0, <2>4
  <2>6. Done(r)' = Done(r) + 1
    <3>1. call[r] * Steps = (call[r] - 1) * Steps + Steps
      BY <1>3
    <3> QED
      BY <1>3, <1>4, <2>0, <2>4, <3>1
  <2>7. passed'[r] = 2 * Done(r)' + 0
    <3>1. PICK D \in Int : D = Done(r)
      BY <1>3
    <3> QED
      BY <1>2, <1>3, <1>5, <1>9, <2>6, <3>1
  <2>8. RingPlace(r)'
    BY <1>1, <1>3, <2>2, <2>3, <2>7 DEF RingPlace
  <2> QED
    BY <1>1, <2>5, <2>8 DEF RingBuffer
<1> QED
  BY <1>7, <1>8, <1>9

\* When a rank reads its mailbox its left neighbour is in the same step of the same
\* call, and has put its chunk.
LEMMA Together ==
    ASSUME SymInv, BarrierHolds, Algo = "ring", NEW q \in Ranks, NEW r \in Ranks,
           RingPlace(q), RingPlace(r), pc[r] = "get"
    PROVE  Busy(q) /\ call[q] = call[r] /\ step[q] = step[r]
<1>0. SymTypes /\ Places /\ BarrierInv
  BY DEF SymInv
<1>1. /\ Done(r) \in Int /\ Done(q) \in Int /\ passed[r] \in Nat /\ passed[q] \in Nat
      /\ call[r] \in Nat /\ call[q] \in Nat /\ step[r] \in 0..(Steps - 1) /\ step[q] \in 0..(Steps - 1)
  BY DoneIs
<1>2. passed[r] = 2 * Done(r) + 1 /\ call[r] > 0 /\ entered[r] = passed[r] + 0
  BY <1>0 DEF RingPlace, BarrierInv, Blocked
<1>3. passed[r] =< entered[q] /\ passed[q] =< entered[r]
  BY DEF BarrierHolds
<1>4. PICK h \in {0, 1} : passed[q] = 2 * Done(q) + h /\ (~Busy(q) => h = 0)
  BY DEF RingPlace, Took, Busy
<1>5. PICK b \in {0, 1} : entered[q] = passed[q] + b /\ (~Busy(q) => b = 0)
  BY <1>0 DEF BarrierInv, Blocked, Busy
<1>6. PICK D \in Int, E \in Int : D = Done(r) /\ E = Done(q)
  BY <1>1
<1>7. E = D /\ Busy(q)
  <2>1. 2 * D + 1 =< 2 * E + h + b /\ 2 * E + h =< 2 * D + 1
    BY <1>1, <1>2, <1>3, <1>4, <1>5, <1>6
  <2>2. E = D /\ ~(h = 0 /\ b = 0)
    BY <2>1
  <2> QED
    BY <1>4, <1>5, <2>2
<1>8. pc[q] # "out" /\ pc[r] # "out" /\ call[q] > 0
  BY <1>7 DEF Busy, RingPlace
<1>9. (call[q] - 1) * Steps + step[q] = (call[r] - 1) * Steps + step[r]
  BY <1>6, <1>7, <1>8 DEF Done
<1> QED
  BY <1>1, <1>2, <1>7, <1>8, <1>9, PlaceIs

\* The take, given that the mailbox holds the left neighbour's chunk.
LEMMA RingTake ==
    ASSUME SymInv, BarrierHolds, Algo = "ring", NEW q \in Ranks, TakeMailbox(Right(q)),
           RingPlace(q), RingPlace(Right(q))
    PROVE  /\ RingPlace(Right(q))'
           /\ (RingBuffer(q) /\ RingBuffer(Right(q)) /\ heap[Right(q)] = Mail(q)) => RingBuffer(Right(q))'
<1>a. PICK r \in Ranks : r = Right(q)
  BY RanksAre
<1>b. RingPlace(r) /\ TakeMailbox(r)
  BY <1>a
<1>0. SymTypes
  BY DEF SymInv
<1> DEFINE s == step[r]
           c == RecvIdx(r, s)
           v == IF Scatter(s) THEN local[r][c] \o heap[r] ELSE heap[r]
<1>1. /\ pc[r] = "get" /\ pc' = [pc EXCEPT ![r] = "barrier"]
      /\ second' = [second EXCEPT ![r] = TRUE]
      /\ local' = [local EXCEPT ![r][c] = v]
      /\ UNCHANGED <<call, step, acc, heap, passed>>
  BY <1>b DEF TakeMailbox, At, Goto, barVars
<1>2. Busy(q) /\ call[q] = call[r] /\ step[q] = s
  BY <1>b, <1>1, Together
<1>3. Done(r) \in Int /\ s \in 0..(Steps - 1) /\ call[r] \in Nat /\ Chunks = Ranks /\ s \in Nat
  BY DoneIs DEF Chunks, Ranks
<1>4. c \in Ranks /\ c = SendIdx(q, s) /\ c # RecvIdx(q, s)
  BY <1>3, <1>a, IdxIs
<1> HIDE DEF c, v
<1>5. pc'[r] = "barrier" /\ second'[r] /\ local'[r][c] = v /\ \A d \in Ranks : d # c => local'[r][d] = local[r][d]
  BY <1>0, <1>1, <1>3, <1>4 DEF SymTypes
<1>6. Took(r)' /\ ~Took(r) /\ Done(r)' = Done(r)
  BY <1>b, <1>1, <1>5 DEF Took, Busy, Done, RingPlace
<1>7. RingPlace(r)'
  BY <1>b, <1>1, <1>5, <1>6 DEF RingPlace
<1>8. Takes(r)' = s + 1 /\ Takes(r) = s + 0
  BY <1>1, <1>5, <1>6 DEF Takes
<1>9. ASSUME RingBuffer(q), RingBuffer(r), heap[r] = Mail(q) PROVE RingBuffer(r)'
  <2> DEFINE k == call[r]
  <2>1. k > 0 /\ call'[r] = k /\ k \in Nat
    BY <1>b, <1>1, <1>3 DEF RingPlace
  <2>2. Takes(r) = s
    BY <1>3, <1>8
  <2>3. \A d \in Ranks : local[r][d] = Val(r, k, s, d)
    BY <1>9, <2>1, <2>2 DEF RingBuffer
  <2>4. local[q][c] = Val(q, k, s, c)
    <3>1. local[q][c] = Val(q, k, Takes(q), c)
      BY <1>2, <1>4, <1>9, <2>1 DEF RingBuffer
    <3>2. Takes(q) = s + 0 \/ Takes(q) = s + 1
      BY <1>2 DEF Takes, Busy
    <3>3. Takes(q) = s \/ Takes(q) = s + 1
      BY <1>3, <3>2
    <3>4. Val(q, k, s + 1, c) = Val(q, k, s, c)
      BY <1>3, <1>4, <2>1, ValKept
    <3> QED
      BY <3>1, <3>3, <3>4
  <2>5. heap[r] = Val(q, k, s, c)
    BY <1>2, <1>4, <1>9, <2>4 DEF Mail
  <2>6. v = Val(r, k, s + 1, c)
    <3>1. Val(r, k, s + 1, c) = IF Scatter(s) THEN Val(r, k, s, c) \o Val(q, k, s, c) ELSE Val(q, k, s, c)
      BY <1>a, <1>3, <1>4, <2>1, ValTaken
    <3> QED
      BY <1>4, <2>3, <2>5, <3>1 DEF v
  <2>7. ASSUME NEW d \in Ranks PROVE local'[r][d] = Val(r, k, s + 1, d)
    <3>1. CASE d = c
      BY <1>5, <2>6, <3>1
    <3>2. CASE d # c
      <4>1. Val(r, k, s + 1, d) = Val(r, k, s, d)
        BY <1>3, <2>1, <3>2, ValKept DEF c
      <4> QED
        BY <1>5, <2>3, <3>2, <4>1
    <3> QED
      BY <3>1, <3>2
  <2> QED
    BY <1>8, <2>1, <2>7 DEF RingBuffer
<1> QED
  BY <1>a, <1>7, <1>9

-----------------------------------------------------------------------------
(* ring_all_reduce: the mailboxes.                                         *)

\* A rank's mail is not what it takes.
LEMMA MailKept ==
    ASSUME SymInv, Algo = "ring", NEW r \in Ranks, TakeMailbox(r), NEW q \in Ranks
    PROVE  Mail(q)' = Mail(q)
<1>0. SymTypes /\ Chunks = Ranks
  BY DEF SymInv, Chunks, Ranks
<1>1. PICK v : local' = [local EXCEPT ![r][RecvIdx(r, step[r])] = v] /\ UNCHANGED step
  BY DEF TakeMailbox
<1>2. step[r] \in 0..(Steps - 1)
  BY DoneIs
<1>3. SendIdx(r, step[r]) # RecvIdx(r, step[r]) /\ SendIdx(r, step[r]) \in Ranks /\ RecvIdx(r, step[r]) \in Ranks
  BY <1>2, IdxIs
<1>4. CASE q = r
  <2>1. local'[r][SendIdx(r, step[r])] = local[r][SendIdx(r, step[r])]
    BY <1>0, <1>1, <1>3 DEF SymTypes
  <2> QED
    BY <1>1, <1>4, <2>1 DEF Mail
<1>5. CASE q # r
  <2>1. local'[q] = local[q]
    BY <1>0, <1>1, <1>5 DEF SymTypes
  <2> QED
    BY <1>1, <2>1 DEF Mail
<1> QED
  BY <1>4, <1>5

LEMMA DeliveredKept ==
    ASSUME NEW q \in Ranks, Busy(q)' => Busy(q), Mail(q)' = Mail(q),
           heap'[Right(q)] = heap[Right(q)], Delivered(q)
    PROVE  Delivered(q)'
BY DEF Delivered

\* Over memory.
LEMMA MemoryStep ==
    ASSUME SymInv, Algo = "ring", ~Net, MemoryMail, \A q \in Ranks : Delivered(q), Next
    PROVE  MemoryMail' /\ \A q \in Ranks : Delivered(q)'
<1>0. SymTypes /\ Places /\ Chunks = Ranks
  BY DEF SymInv, Chunks, Ranks
<1>1. ~Root
  BY <1>0, RanksAre DEF Root, RootCollects, RootReleases, At, Places
<1>2. ASSUME NEW l \in Links PROVE ~Reader(l)
  BY DEF Reader, MemoryMail
<1>3. PICK r \in Ranks : RankStep(r)
  BY <1>1, <1>2 DEF Next
<1>4. \/ Enter(r) \/ DoPut(r) \/ TakeMailbox(r) \/ BarrierEnter(r) \/ LocalRelease(r)
  <2>1. ~GetSlot(r) /\ ~GetTake(r) /\ ~Release(r)
    BY <1>0 DEF GetSlot, GetTake, Release, Places, At
  <2> QED
    BY <1>3, <2>1 DEF RankStep
<1>5. CASE Enter(r)
  <2>1. /\ pc' = [pc EXCEPT ![r] = "put"] /\ step' = [step EXCEPT ![r] = 0] /\ UNCHANGED <<heap, link>>
    BY <1>5 DEF Enter, Goto, netVars
  <2>2. PICK v : local' = [local EXCEPT ![r] = v]
    BY <1>5 DEF Enter
  <2>3. ASSUME NEW q \in Ranks PROVE Delivered(q)'
    <3>1. CASE q = r
      <4>1. ~Busy(q)'
        BY <1>0, <2>1, <3>1 DEF SymTypes, Busy
      <4> QED
        BY <4>1 DEF Delivered
    <3>2. CASE q # r
      <4>1. pc'[q] = pc[q] /\ step'[q] = step[q] /\ local'[q] = local[q]
        BY <1>0, <2>1, <2>2, <3>2 DEF SymTypes
      <4> QED
        BY <2>1, <4>1, DeliveredKept DEF Busy, Mail
    <3> QED
      BY <3>1, <3>2
  <2> QED
    BY <2>1, <2>3 DEF MemoryMail
<1>6. CASE DoPut(r)
  <2>1. /\ pc' = [pc EXCEPT ![r] = "barrier"] /\ heap' = [heap EXCEPT ![Right(r)] = Mail(r)]
        /\ UNCHANGED <<step, local, link>>
    BY <1>6 DEF DoPut, Goto, Mail
  <2>2. ASSUME NEW q \in Ranks PROVE Delivered(q)'
    <3>1. CASE q = r
      <4>1. heap'[Right(q)] = Mail(q)
        BY <1>0, <2>1, <3>1, RanksAre DEF SymTypes
      <4> QED
        BY <2>1, <4>1 DEF Delivered, Mail
    <3>2. CASE q # r
      <4>1. Right(q) # Right(r)
        <5>1. q \in 0..(N - 1) /\ r \in 0..(N - 1) /\ N \in Nat
          BY RanksAre DEF Ranks
        <5> QED
          BY <3>2, <5>1, RightIs
      <4>2. heap'[Right(q)] = heap[Right(q)] /\ pc'[q] = pc[q]
        BY <1>0, <2>1, <3>2, <4>1, RanksAre DEF SymTypes
      <4> QED
        BY <2>1, <4>2, DeliveredKept DEF Busy, Mail
    <3> QED
      BY <3>1, <3>2
  <2> QED
    BY <2>1, <2>2 DEF MemoryMail
<1>7. CASE TakeMailbox(r)
  <2>1. pc[r] = "get" /\ pc' = [pc EXCEPT ![r] = "barrier"] /\ UNCHANGED <<heap, link>>
    BY <1>7 DEF TakeMailbox, At, Goto, netVars
  <2>2. ASSUME NEW q \in Ranks PROVE Delivered(q)'
    <3>1. Busy(q)' => Busy(q)
      BY <1>0, <2>1 DEF SymTypes, Busy
    <3> QED
      BY <1>7, <2>1, <3>1, MailKept, DeliveredKept
  <2> QED
    BY <2>1, <2>2 DEF MemoryMail
<1>8. CASE BarrierEnter(r)
  <2>1. pc[r] = "barrier" /\ pc' = [pc EXCEPT ![r] = "wait"] /\ UNCHANGED <<step, local, heap, link>>
    BY <1>8 DEF BarrierEnter, At, Goto, dataVars
  <2>2. ASSUME NEW q \in Ranks PROVE Delivered(q)'
    <3>1. Busy(q)' => Busy(q)
      BY <1>0, <2>1 DEF SymTypes, Busy
    <3> QED
      BY <2>1, <3>1, DeliveredKept DEF Mail
  <2> QED
    BY <2>1, <2>2 DEF MemoryMail
<1>9. CASE LocalRelease(r)
  <2>1. Passes(r) /\ pc[r] = "wait" /\ UNCHANGED <<local, heap, link>>
    BY <1>9 DEF LocalRelease, Passes, At, dataVars, netVars
  <2>2. ASSUME NEW q \in Ranks PROVE Delivered(q)'
    <3>1. CASE q # r
      <4>1. pc'[q] = pc[q] /\ step'[q] = step[q]
        BY <1>0, <2>1, <3>1 DEF SymTypes, Passes, Goto
      <4> QED
        BY <2>1, <4>1, DeliveredKept DEF Busy, Mail
    <3>2. CASE q = r /\ Busy(q)'
      <4>1. step'[q] = step[q] /\ Busy(q)
        <5>1. ~(pc' = [pc EXCEPT ![r] = "put"]) /\ ~(pc' = [pc EXCEPT ![r] = "out"])
          BY <1>0, <3>2 DEF SymTypes, Busy
        <5>2. step' = step
          BY <2>1, <5>1 DEF Passes, Goto
        <5> QED
          BY <2>1, <3>2, <5>2 DEF Busy
      <4> QED
        BY <2>1, <4>1, DeliveredKept DEF Mail
    <3>3. CASE ~Busy(q)'
      BY <3>3 DEF Delivered
    <3> QED
      BY <3>1, <3>2, <3>3
  <2> QED
    BY <2>1, <2>2 DEF MemoryMail
<1> QED
  BY <1>4, <1>5, <1>6, <1>7, <1>8, <1>9

\* Between two ranks.
LEMMA TwoRanks ==
    ASSUME N = 2
    PROVE  /\ Ranks = {0, 1} /\ Right(0) = 1 /\ Right(1) = 0 /\ 1 \in Others
           /\ \A l \in Links : l = <<0, 1>> \/ l = <<1, 0>>
           /\ <<0, 1>> \in Links /\ <<1, 0>> \in Links
<1>1. Ranks = {0, 1}
  BY DEF Ranks
<1>2. Right(0) = 1 /\ Right(1) = 0
  BY DEF Right
<1> QED
  BY <1>1, <1>2 DEF Others, Links

\* What the counts of the tokens say of two ranks.
LEMMA TwoCounts ==
    ASSUME SymInv, Net, N = 2
    PROVE  /\ Sent(link[<<1, 0>>]) \in Nat /\ Sent(link[<<0, 1>>]) \in Nat
           /\ pc[1] \notin Blocked => Sent(link[<<1, 0>>]) = 0 /\ Sent(link[<<0, 1>>]) = 0 /\ passed[0] = passed[1]
           /\ Sent(link[<<1, 0>>]) > 0 => passed[0] = passed[1]
           /\ tokens[<<0, 1>>] > 0 => Sent(link[<<1, 0>>]) = 0
           /\ tokens[<<1, 0>>] > 0 => Sent(link[<<0, 1>>]) = 0
           /\ pc[0] = "release" => Sent(link[<<0, 1>>]) = 0
           /\ pc[0] \in {"collect", "release"} => turn = 1
<1>0. SymTypes /\ Places /\ BarrierInv /\ 1 \in Others /\ 1 \in Ranks /\ 0 \in Ranks
  BY TwoRanks DEF SymInv
<1>1. /\ Sent(link[<<1, 0>>]) \in Nat /\ tokens[<<1, 0>>] \in Nat
      /\ Sent(link[<<0, 1>>]) \in Nat /\ tokens[<<0, 1>>] \in Nat
      /\ entered[1] \in Nat /\ passed[1] \in Nat /\ passed[0] \in Nat
  BY <1>0, CountsAre
<1>2. pc[0] \in {"collect", "release"} => turn = 1
  <2>1. pc[0] \in {"collect", "release"} => turn \in 1..1
    BY <1>0 DEF Places
  <2> QED
    BY <2>1
<1>3. /\ entered[1] = Flying(<<1, 0>>) + Collected(1) /\ passed[1] + Flying(<<0, 1>>) = Released(1)
  BY <1>0 DEF BarrierInv
<1>4. Collected(1) = passed[0] + IF pc[0] = "release" THEN 1 ELSE 0
  <2>1. ~(pc[0] = "collect" /\ 1 < turn)
    BY <1>2
  <2> QED
    BY <2>1 DEF Collected
<1>5. Released(1) = passed[0] + 0
  <2>1. ~(pc[0] = "release" /\ 1 < turn)
    BY <1>2
  <2> QED
    BY <2>1 DEF Released
<1>6. PICK c \in {0, 1} : /\ entered[1] = Sent(link[<<1, 0>>]) + tokens[<<1, 0>>] + (passed[0] + c)
                          /\ pc[0] = "release" => c = 1
  BY <1>3, <1>4 DEF Flying
<1>7. passed[1] + (Sent(link[<<0, 1>>]) + tokens[<<0, 1>>]) = passed[0]
  BY <1>1, <1>3, <1>5 DEF Flying
<1>8. PICK b \in {0, 1} : entered[1] = passed[1] + b /\ (pc[1] \notin Blocked => b = 0)
  BY <1>0 DEF BarrierInv
<1> QED
  BY <1>1, <1>2, <1>6, <1>7, <1>8

\* Queues of one and of two frames.
LEMMA ShortQueues ==
    ASSUME NEW S, NEW t \in S, NEW p \in S
    PROVE  /\ Append(<< >>, t) = <<t>> /\ Append(<<t>>, p) = <<t, p>>
           /\ Head(<<t>>) = t /\ Tail(<<t>>) = << >>
           /\ Head(<<t, p>>) = t /\ Tail(<<t, p>>) = <<p>>
           /\ << >> # <<t>> /\ << >> # <<t, p>>
<1>0. << >> \in Seq(S) /\ <<t>> \in Seq(S) /\ <<t, p>> \in Seq(S)
  OBVIOUS
<1>1. PICK e \in Seq(S) : e = << >>
  BY <1>0
<1>1a. PICK o \in Seq(S) : o = <<t>>
  BY <1>0
<1>1b. PICK w \in Seq(S) : w = <<t, p>>
  BY <1>0
<1>2. /\ Len(e) = 0 /\ Len(o) = 1 /\ o[1] = t /\ Len(w) = 2 /\ w[1] = t /\ w[2] = p
  BY <1>1, <1>1a, <1>1b
<1>3. /\ Append(e, t) \in Seq(S) /\ Len(Append(e, t)) = Len(e) + 1 /\ Append(e, t)[Len(e) + 1] = t
      /\ Append(o, p) \in Seq(S) /\ Len(Append(o, p)) = Len(o) + 1 /\ Append(o, p)[Len(o) + 1] = p
      /\ \A i \in 1..Len(o) : Append(o, p)[i] = o[i]
  BY AppendProperties
<1>4. Append(e, t) = o
  <2>1. \A i \in 1..1 : Append(e, t)[i] = o[i]
    BY <1>2, <1>3
  <2> QED
    BY <1>2, <1>3, <2>1, SeqEqual
<1>5. Append(o, p) = w
  <2>1. \A i \in 1..2 : Append(o, p)[i] = w[i]
    BY <1>2, <1>3
  <2> QED
    BY <1>2, <1>3, <2>1, SeqEqual
<1>6. Head(<<t>>) = t /\ Tail(<<t>>) = << >> /\ Head(<<t, p>>) = t /\ Tail(<<t, p>>) = <<p>>
  OBVIOUS
<1>7. e # o /\ e # w
  <2>1. Len(e) # Len(o) /\ Len(e) # Len(w)
    BY <1>2
  <2> QED
    BY <2>1, Zenon
<1>8. Append(<< >>, t) = <<t>> /\ << >> # <<t>>
  BY <1>1, <1>1a, <1>4, <1>7, Zenon
<1>9. Append(<<t>>, p) = <<t, p>> /\ << >> # <<t, p>>
  BY <1>1, <1>1a, <1>1b, <1>5, <1>7, Zenon
<1> QED
  BY <1>6, <1>8, <1>9

\* The tokens in what a link between two ranks may hold.
LEMMA SentIs ==
    ASSUME NEW v \in Folds
    PROVE  /\ Sent(<< >>) = 0 /\ Sent(<<Token>>) = 1 /\ Sent(<<PutFrame(v)>>) = 0
           /\ Sent(<<Token, PutFrame(v)>>) = 1 /\ Sent(<<PutFrame(v), Token>>) = 1
<1>1. PICK t \in Frames, p \in Frames : t = Token /\ p = PutFrame(v)
  BY FramesAre
<1>2. t.kind = "SEND" /\ p.kind # "SEND"
  BY <1>1, FramesAre
<1>0. << >> \in Seq(Frames) /\ <<t>> \in Seq(Frames) /\ <<p>> \in Seq(Frames)
  OBVIOUS
<1>3a. PICK e \in Seq(Frames) : e = << >>
  BY <1>0
<1>3b. PICK s1 \in Seq(Frames) : s1 = <<t>>
  BY <1>0
<1>3c. PICK s2 \in Seq(Frames) : s2 = <<p>>
  BY <1>0
<1>3. e = << >> /\ s1 = <<t>> /\ s2 = <<p>>
  BY <1>3a, <1>3b, <1>3c
<1>4. Sent(<< >>) = 0
  <2>1. TokensIn(<< >>) = {}
    BY DEF TokensIn
  <2> QED
    BY <2>1, FS_EmptySet DEF Sent
<1>5. Append(e, t) = <<t>> /\ Append(e, p) = <<p>> /\ Append(s1, p) = <<t, p>> /\ Append(s2, t) = <<p, t>>
  BY <1>3, ShortQueues
<1>6. Sent(s1) = 1 /\ Sent(s2) = 0
  <2>1. Sent(Append(e, t)) = Sent(e) + 1 /\ Sent(Append(e, p)) = Sent(e) + 0
    BY <1>2, SentAppend
  <2> QED
    BY <1>3, <1>4, <1>5, <2>1
<1>7. Sent(<<t, p>>) = 1 /\ Sent(<<p, t>>) = 1
  <2>1. Sent(Append(s1, p)) = Sent(s1) + 0 /\ Sent(Append(s2, t)) = Sent(s2) + 1
    BY <1>2, SentAppend
  <2> QED
    BY <1>5, <1>6, <2>1
<1> QED
  BY <1>1, <1>3, <1>4, <1>6, <1>7

LEMMA MailIs ==
    ASSUME SymInv, Algo = "ring", NEW r \in Ranks
    PROVE  Mail(r) \in Folds
<1>1. step[r] \in 0..(Steps - 1) /\ Chunks = Ranks /\ SymTypes
  BY DoneIs DEF Chunks, Ranks, SymInv
<1>2. SendIdx(r, step[r]) \in Ranks
  BY <1>1, IdxIs
<1> QED
  BY <1>1, <1>2 DEF Mail, SymTypes

\* The mailbox a rank reads holds its left neighbour's chunk of this step.
LEMMA MailHere ==
    ASSUME SymInv, BarrierHolds, RingInv, Algo = "ring", Sound, NEW q \in Ranks, pc[Right(q)] = "get"
    PROVE  heap[Right(q)] = Mail(q)
<1>1. Right(q) \in Ranks /\ RingPlace(q) /\ RingPlace(Right(q))
  BY RanksAre DEF RingInv
<1>2. Busy(q)
  BY <1>1, Together
<1>3. CASE ~Net
  BY <1>2, <1>3 DEF RingInv, Delivered
<1>4. CASE Net
  <2>1. N = 2 /\ SocketMail(q)
    BY <1>4 DEF RingInv, Sound
  <2>2. Ranks = {0, 1} /\ Right(0) = 1 /\ Right(1) = 0
    BY <2>1, TwoRanks
  <2>3. /\ Sent(<< >>) = 0 /\ Sent(<<Token>>) = 1 /\ Sent(<<Underway(q)>>) = 0
        /\ Sent(<<Token, Underway(q)>>) = 1 /\ Sent(<<Underway(q), Token>>) = 1
    BY MailIs, SentIs DEF Underway
  <2>4. /\ Done(q) \in Int /\ Done(Right(q)) \in Int
    BY <1>1, DoneIs
  <2>5. passed[Right(q)] = 2 * Done(Right(q)) + 1
    BY <1>1 DEF RingPlace
  <2>6. ASSUME passed[0] = passed[1] PROVE second[q] \/ pc[q] = "get"
    <3>1. passed[q] = passed[Right(q)]
      BY <2>2, <2>6
    <3>2. CASE ~Took(q) /\ pc[q] # "get"
      <4>1. passed[q] = 2 * Done(q) + 0
        BY <1>1, <3>2 DEF RingPlace
      <4>2. PICK D \in Int, E \in Int : D = Done(q) /\ E = Done(Right(q))
        BY <2>4
      <4>3. 2 * D + 0 # 2 * E + 1
        OBVIOUS
      <4> QED
        BY <2>5, <3>1, <4>1, <4>2, <4>3
    <3> QED
      BY <3>2 DEF Took
  <2>7. CASE q = 0
    <3>1. pc[1] = "get" /\ Right(q) = 1
      BY <2>2, <2>7
    <3>2. Sent(link[<<0, 1>>]) = 0 /\ passed[0] = passed[1]
      BY <1>4, <2>1, <3>1, TwoCounts DEF Blocked
    <3>3. link[<<q, Right(q)>>] # <<Underway(q), Token>> /\ link[<<q, Right(q)>>] # <<Token, Underway(q)>>
      BY <2>3, <2>7, <3>1, <3>2
    <3>4. second[q] \/ pc[q] = "get"
      BY <2>6, <3>2
    <3>5. Delivered(q)
      BY <2>1, <3>3, <3>4 DEF SocketMail
    <3> QED
      BY <1>2, <3>5 DEF Delivered
  <2>8. CASE q = 1
    <3>1. pc[0] = "get" /\ Right(q) = 0 /\ q # 0
      BY <2>2, <2>8
    <3>2. pc[1] \notin Blocked => passed[0] = passed[1]
      BY <1>4, <2>1, TwoCounts
    <3>3. link[<<q, Right(q)>>] = <<Underway(q), Token>> => passed[0] = passed[1]
      <4>1. Sent(link[<<1, 0>>]) > 0 => passed[0] = passed[1]
        BY <1>4, <2>1, TwoCounts
      <4> QED
        BY <2>3, <2>8, <3>1, <4>1
    <3>4. pc[q] \notin {"collect", "release"}
      BY <3>1 DEF SymInv, Places
    <3>5. Delivered(q)
      BY <2>1, <2>6, <2>8, <3>1, <3>2, <3>3, <3>4 DEF SocketMail, Blocked
    <3> QED
      BY <1>2, <3>5 DEF Delivered
  <2> QED
    BY <2>2, <2>7, <2>8
<1> QED
  BY <1>3, <1>4

LEMMA SocketOther ==
    ASSUME NEW q \in Ranks, SocketMail(q), pc'[q] = pc[q], second'[q] = second[q], Mail(q)' = Mail(q),
           link'[<<q, Right(q)>>] = link[<<q, Right(q)>>], heap'[Right(q)] = heap[Right(q)]
    PROVE  SocketMail(q)'
<1>1. Underway(q)' = Underway(q) /\ (Delivered(q) => Delivered(q)')
  BY DEF Underway, Delivered, Busy
<1> QED
  BY <1>1 DEF SocketMail

\* A link a rank does not write.
LEMMA OtherLink ==
    ASSUME SymTypes, N = 2, NEW r \in Ranks, NEW q \in Ranks, q # r, NEW m,
           UNCHANGED link \/ Sends(<<r, Right(r)>>, m)
    PROVE  link'[<<q, Right(q)>>] = link[<<q, Right(q)>>]
<1>1. <<r, Right(r)>> \in Links /\ <<q, Right(q)>> \in Links /\ <<r, Right(r)>> # <<q, Right(q)>>
  BY RanksAre
<1> QED
  BY <1>1 DEF Sends, SymTypes

LEMMA SocketEnter ==
    ASSUME SymInv, Algo = "ring", N = 2, NEW r \in Ranks, Enter(r), \A q \in Ranks : SocketMail(q)
    PROVE  \A q \in Ranks : SocketMail(q)'
<1>0. SymTypes
  BY DEF SymInv
<1>1. /\ pc[r] = "out" /\ pc' = [pc EXCEPT ![r] = "put"] /\ step' = [step EXCEPT ![r] = 0]
      /\ UNCHANGED <<heap, link, second>>
  BY DEF Enter, At, Goto, netVars
<1>2. PICK v : local' = [local EXCEPT ![r] = v]
  BY DEF Enter
<1>3. ASSUME NEW q \in Ranks, q # r PROVE SocketMail(q)'
  <2>1. pc'[q] = pc[q] /\ step'[q] = step[q] /\ local'[q] = local[q]
    BY <1>0, <1>1, <1>2, <1>3 DEF SymTypes
  <2>2. Mail(q)' = Mail(q)
    BY <2>1 DEF Mail
  <2> QED
    BY <1>1, <2>1, <2>2, SocketOther
<1>4. SocketMail(r)'
  <2>1. link[<<r, Right(r)>>] \in {<< >>, <<Token>>}
    BY <1>1 DEF SocketMail
  <2>2. ~Busy(r)'
    BY <1>0, <1>1 DEF SymTypes, Busy
  <2> QED
    BY <1>1, <2>1, <2>2 DEF SocketMail, Delivered
<1> QED
  BY <1>3, <1>4

LEMMA SocketPut ==
    ASSUME SymInv, Algo = "ring", Net, N = 2, NEW r \in Ranks, DoPut(r), \A q \in Ranks : SocketMail(q)
    PROVE  \A q \in Ranks : SocketMail(q)'
<1>0. SymTypes
  BY DEF SymInv
<1>1. /\ pc[r] = "put" /\ pc' = [pc EXCEPT ![r] = "barrier"] /\ second' = [second EXCEPT ![r] = FALSE]
      /\ UNCHANGED <<step, local>>
  BY DEF DoPut, At, Goto
<1>2. Sends(<<r, Right(r)>>, Underway(r)) /\ UNCHANGED heap
  BY RanksAre DEF DoPut, Underway, Mail
<1>3. \A q \in Ranks : Mail(q)' = Mail(q)
  BY <1>1 DEF Mail
<1>4. ASSUME NEW q \in Ranks, q # r PROVE SocketMail(q)'
  <2>1. pc'[q] = pc[q] /\ second'[q] = second[q]
    BY <1>0, <1>1, <1>4 DEF SymTypes
  <2>2. link'[<<q, Right(q)>>] = link[<<q, Right(q)>>]
    BY <1>0, <1>2, <1>4, OtherLink
  <2> QED
    BY <1>2, <1>3, <2>1, <2>2, SocketOther
<1>5. SocketMail(r)'
  <2>1. link[<<r, Right(r)>>] \in {<< >>, <<Token>>}
    BY <1>1 DEF SocketMail
  <2>2. r # 0 => link[<<r, Right(r)>>] = << >>
    <3> SUFFICES ASSUME r # 0 PROVE link[<<r, Right(r)>>] # <<Token>>
      BY <2>1
    <3>1. r = 1 /\ Right(r) = 0
      BY TwoRanks
    <3>2. Sent(link[<<1, 0>>]) = 0
      BY <1>1, <3>1, TwoCounts DEF Blocked
    <3>3. Sent(<<Token>>) = 1
      BY MailIs, SentIs
    <3> QED
      BY <3>1, <3>2, <3>3
  <2>3. link'[<<r, Right(r)>>] = Append(link[<<r, Right(r)>>], Underway(r))
    BY <1>0, <1>2, RanksAre DEF Sends, SymTypes
  <2>4. Append(<< >>, Underway(r)) = <<Underway(r)>> /\ Append(<<Token>>, Underway(r)) = <<Token, Underway(r)>>
    <3>1. Underway(r) \in Frames /\ Token \in Frames
      BY MailIs, FramesAre DEF Underway
    <3> QED
      BY <3>1, ShortQueues
  <2>5. pc'[r] = "barrier" /\ ~second'[r] /\ Underway(r)' = Underway(r)
    BY <1>0, <1>1, <1>3 DEF SymTypes, Underway
  <2>6. \/ link'[<<r, Right(r)>>] = <<Underway(r)>>
        \/ link'[<<r, Right(r)>>] = <<Token, Underway(r)>> /\ r = 0
    BY <2>1, <2>2, <2>3, <2>4
  <2> QED
    BY <2>5, <2>6 DEF SocketMail
<1> QED
  BY <1>4, <1>5

LEMMA SocketTake ==
    ASSUME SymInv, Algo = "ring", NEW r \in Ranks, TakeMailbox(r), \A q \in Ranks : SocketMail(q)
    PROVE  \A q \in Ranks : SocketMail(q)'
<1>0. SymTypes
  BY DEF SymInv
<1>1. /\ pc[r] = "get" /\ pc' = [pc EXCEPT ![r] = "barrier"] /\ second' = [second EXCEPT ![r] = TRUE]
      /\ UNCHANGED <<heap, link>>
  BY DEF TakeMailbox, At, Goto, netVars
<1>2. \A q \in Ranks : Mail(q)' = Mail(q)
  BY MailKept
<1>3. ASSUME NEW q \in Ranks, q # r PROVE SocketMail(q)'
  <2>1. pc'[q] = pc[q] /\ second'[q] = second[q]
    BY <1>0, <1>1, <1>3 DEF SymTypes
  <2> QED
    BY <1>1, <1>2, <2>1, SocketOther
<1>4. SocketMail(r)'
  <2>1. pc'[r] = "barrier" /\ second'[r] /\ Underway(r)' = Underway(r)
    BY <1>0, <1>1, <1>2 DEF SymTypes, Underway
  <2>2. Delivered(r) => Delivered(r)'
    BY <1>1, <1>2 DEF Delivered, Busy
  <2>3. SocketMail(r)
    OBVIOUS
  <2> QED
    BY <1>1, <2>1, <2>2, <2>3 DEF SocketMail
<1> QED
  BY <1>3, <1>4

LEMMA SocketBarrier ==
    ASSUME SymInv, Algo = "ring", Net, N = 2, NEW r \in Ranks, BarrierEnter(r), \A q \in Ranks : SocketMail(q)
    PROVE  \A q \in Ranks : SocketMail(q)'
<1>0. SymTypes /\ Right(0) = 1 /\ Right(1) = 0 /\ Ranks = {0, 1}
  BY TwoRanks DEF SymInv
<1>1. /\ pc[r] = "barrier" /\ pc' = [pc EXCEPT ![r] = IF r = 0 THEN "collect" ELSE "wait"]
      /\ UNCHANGED <<step, local, heap, second>>
  BY DEF BarrierEnter, At, Goto, dataVars
<1>2. IF r = 0 THEN UNCHANGED link ELSE Sends(<<r, Right(r)>>, Token)
  BY <1>0 DEF BarrierEnter
<1>3. \A q \in Ranks : Mail(q)' = Mail(q)
  BY <1>1 DEF Mail
<1>4. ASSUME NEW q \in Ranks, q # r PROVE SocketMail(q)'
  <2>1. pc'[q] = pc[q]
    BY <1>0, <1>1, <1>4 DEF SymTypes
  <2>2. link'[<<q, Right(q)>>] = link[<<q, Right(q)>>]
    BY <1>0, <1>2, <1>4, OtherLink
  <2> QED
    BY <1>1, <1>3, <2>1, <2>2, SocketOther
<1>5. SocketMail(r)'
  <2>1. Underway(r)' = Underway(r) /\ SocketMail(r) /\ pc'[r] = IF r = 0 THEN "collect" ELSE "wait"
    BY <1>0, <1>1, <1>3 DEF SymTypes, Underway
  <2>2. Delivered(r) => Delivered(r)'
    BY <1>1, <1>3 DEF Delivered, Busy
  <2>3. CASE r = 0
    <3>1. pc'[r] = "collect" /\ UNCHANGED link
      BY <1>2, <2>1, <2>3
    <3> QED
      BY <1>1, <2>1, <2>2, <2>3, <3>1 DEF SocketMail
  <2>4. CASE r # 0
    <3>1. r = 1 /\ Right(r) = 0 /\ pc'[r] = "wait"
      BY <1>0, <2>1, <2>4
    <3>2. link'[<<r, Right(r)>>] = Append(link[<<r, Right(r)>>], Token)
      BY <1>0, <1>2, <2>4, RanksAre DEF Sends, SymTypes
    <3>3. Sent(link[<<1, 0>>]) = 0
      BY <1>1, <3>1, TwoCounts DEF Blocked
    <3>4. Sent(<<Token>>) = 1 /\ Sent(<<Token, Underway(r)>>) = 1 /\ Sent(<<Underway(r), Token>>) = 1
      BY MailIs, SentIs DEF Underway
    <3>5. \/ link[<<r, Right(r)>>] = << >> /\ Delivered(r)
          \/ link[<<r, Right(r)>>] = <<Underway(r)>> /\ ~second[r]
      BY <1>1, <2>1, <3>1, <3>3, <3>4 DEF SocketMail
    <3>6. Append(<< >>, Token) = <<Token>> /\ Append(<<Underway(r)>>, Token) = <<Underway(r), Token>>
      <4>1. Underway(r) \in Frames /\ Token \in Frames
        BY MailIs, FramesAre DEF Underway
      <4> QED
        BY <4>1, ShortQueues
    <3>7. \/ link'[<<r, Right(r)>>] = <<Token>> /\ Delivered(r)'
          \/ link'[<<r, Right(r)>>] = <<Underway(r), Token>> /\ ~second'[r]
      BY <1>1, <2>2, <3>2, <3>5, <3>6
    <3> QED
      BY <2>1, <2>4, <3>1, <3>7 DEF SocketMail
  <2> QED
    BY <2>3, <2>4
<1> QED
  BY <1>4, <1>5

\* Rank 1 leaves a barrier: its put has gone before its token.
LEMMA SocketRelease ==
    ASSUME SymInv, Algo = "ring", Net, N = 2, NEW r \in Ranks, Release(r), \A q \in Ranks : SocketMail(q)
    PROVE  \A q \in Ranks : SocketMail(q)'
<1>0. SymTypes /\ Right(0) = 1 /\ Right(1) = 0 /\ Ranks = {0, 1}
  BY TwoRanks DEF SymInv
<1>1. /\ pc[r] = "wait" /\ r = 1 /\ tokens[<<0, 1>>] > 0 /\ Passes(r)
      /\ UNCHANGED <<local, heap, second, link>>
  BY <1>0 DEF Release, Passes, At, dataVars, TakeToken
<1>2. Sent(link[<<1, 0>>]) = 0
  BY <1>1, TwoCounts
<1>3. Sent(<<Token>>) = 1 /\ Sent(<<Token, Underway(r)>>) = 1 /\ Sent(<<Underway(r), Token>>) = 1
  BY MailIs, SentIs DEF Underway
<1>4. link[<<1, 0>>] = << >> /\ Delivered(1)
  <2>1. SocketMail(r)
    OBVIOUS
  <2> QED
    BY <1>0, <1>1, <1>2, <1>3, <2>1 DEF SocketMail
<1>5. SocketMail(0)'
  <2>1. pc'[0] = pc[0] /\ step'[0] = step[0]
    BY <1>0, <1>1 DEF SymTypes, Passes, Goto
  <2> QED
    BY <1>0, <1>1, <2>1, SocketOther DEF Mail
<1>6. SocketMail(1)'
  <2>1. Delivered(1)'
    <3>1. CASE Busy(1)'
      <4>1. ~(pc' = [pc EXCEPT ![1] = "put"]) /\ ~(pc' = [pc EXCEPT ![1] = "out"])
        BY <1>0, <3>1 DEF SymTypes, Busy
      <4>2. step' = step
        BY <1>1, <4>1 DEF Passes, Goto
      <4> QED
        BY <1>1, <1>4, <4>2 DEF Delivered, Busy, Mail
    <3>2. CASE ~Busy(1)'
      BY <3>2 DEF Delivered
    <3> QED
      BY <3>1, <3>2
  <2> QED
    BY <1>0, <1>1, <1>4, <2>1 DEF SocketMail
<1> QED
  BY <1>0, <1>5, <1>6

LEMMA SocketRoot ==
    ASSUME SymInv, Algo = "ring", Net, N = 2, RootCollects \/ RootReleases, \A q \in Ranks : SocketMail(q)
    PROVE  \A q \in Ranks : SocketMail(q)'
<1>0. SymTypes /\ Right(0) = 1 /\ Right(1) = 0 /\ Ranks = {0, 1} /\ <<0, 1>> \in Links /\ <<1, 0>> \in Links
  BY TwoRanks DEF SymInv
<1>1. pc[0] \in {"collect", "release"} /\ turn = 1 /\ ~(turn < N - 1)
  <2>1. pc[0] \in {"collect", "release"}
    BY DEF RootCollects, RootReleases, At
  <2>2. turn = 1
    BY <2>1, TwoCounts
  <2> QED
    BY <2>1, <2>2
<1>2. Sent(<<Token>>) = 1 /\ Sent(<<Token, Underway(0)>>) = 1 /\ Sent(<<Underway(0), Token>>) = 1
  BY <1>0, MailIs, SentIs DEF Underway
<1>3. SocketMail(0) /\ SocketMail(1)
  BY <1>0
<1>4. CASE RootCollects
  <2>1. /\ pc[0] = "collect" /\ tokens[<<1, 0>>] > 0 /\ pc' = [pc EXCEPT ![0] = "release"]
        /\ UNCHANGED <<step, local, heap, second, link>>
    BY <1>1, <1>4 DEF RootCollects, At, Goto, TakeToken, dataVars
  <2>2. Sent(link[<<0, 1>>]) = 0
    BY <2>1, TwoCounts
  <2>3. pc'[0] = "release" /\ pc'[1] = pc[1]
    BY <1>0, <2>1 DEF SymTypes
  <2>4. SocketMail(1)'
    BY <1>0, <1>3, <2>1, <2>3, SocketOther DEF Mail
  <2>5. link[<<0, 1>>] # <<Underway(0), Token>>
    BY <1>2, <2>2
  <2>6. Underway(0)' = Underway(0) /\ (Delivered(0) => Delivered(0)')
    BY <2>1 DEF Underway, Mail, Delivered, Busy
  <2>7. SocketMail(0)'
    BY <1>0, <1>3, <2>1, <2>3, <2>5, <2>6 DEF SocketMail
  <2> QED
    BY <1>0, <2>4, <2>7
<1>5. CASE RootReleases
  <2>1. /\ pc[0] = "release" /\ Sends(<<0, 1>>, Token) /\ Passes(0)
        /\ UNCHANGED <<local, heap, second>>
    BY <1>1, <1>5 DEF RootReleases, At, Passes, dataVars
  <2>2. Sent(link[<<0, 1>>]) = 0
    BY <2>1, TwoCounts
  <2>3. pc'[1] = pc[1] /\ step'[1] = step[1]
    BY <1>0, <2>1 DEF SymTypes, Passes, Goto
  <2>4. link'[<<0, 1>>] = Append(link[<<0, 1>>], Token) /\ link'[<<1, 0>>] = link[<<1, 0>>]
    BY <1>0, <2>1 DEF SymTypes, Sends
  <2>5. SocketMail(1)'
    BY <1>0, <1>3, <2>1, <2>3, <2>4, SocketOther DEF Mail
  <2>6. \/ link[<<0, 1>>] = << >> /\ Delivered(0)
        \/ link[<<0, 1>>] = <<Underway(0)>> /\ ~second[0]
    BY <1>0, <1>2, <1>3, <2>1, <2>2 DEF SocketMail
  <2>7. Append(<< >>, Token) = <<Token>> /\ Append(<<Underway(0)>>, Token) = <<Underway(0), Token>>
    <3>1. Underway(0) \in Frames /\ Token \in Frames
      BY <1>0, MailIs, FramesAre DEF Underway
    <3> QED
      BY <3>1, ShortQueues
  <2>8. CASE link[<<0, 1>>] = << >> /\ Delivered(0)
    <3>1. link'[<<0, 1>>] = <<Token>>
      BY <2>4, <2>7, <2>8
    <3>2. Delivered(0)'
      <4>1. CASE Busy(0)'
        <5>1. ~(pc' = [pc EXCEPT ![0] = "put"]) /\ ~(pc' = [pc EXCEPT ![0] = "out"])
          BY <1>0, <4>1 DEF SymTypes, Busy
        <5>2. step' = step
          BY <2>1, <5>1 DEF Passes, Goto
        <5> QED
          BY <2>1, <2>8, <5>2 DEF Delivered, Busy, Mail
      <4>2. CASE ~Busy(0)'
        BY <4>2 DEF Delivered
      <4> QED
        BY <4>1, <4>2
    <3> QED
      BY <1>0, <2>5, <3>1, <3>2 DEF SocketMail
  <2>9. CASE link[<<0, 1>>] = <<Underway(0)>> /\ ~second[0]
    <3>1. pc' = [pc EXCEPT ![0] = "get"] /\ UNCHANGED step
      BY <2>1, <2>9 DEF Passes, Goto
    <3>2. pc'[0] = "get" /\ Underway(0)' = Underway(0)
      BY <1>0, <2>1, <3>1 DEF SymTypes, Underway, Mail
    <3>3. link'[<<0, 1>>] = <<Underway(0), Token>>
      BY <2>4, <2>7, <2>9
    <3> QED
      BY <1>0, <2>5, <3>2, <3>3 DEF SocketMail
  <2> QED
    BY <2>6, <2>8, <2>9
<1> QED
  BY <1>4, <1>5

LEMMA SocketReader ==
    ASSUME SymInv, Algo = "ring", N = 2, NEW l \in Links, Reader(l), \A q \in Ranks : SocketMail(q)
    PROVE  \A q \in Ranks : SocketMail(q)'
<1>0. SymTypes /\ Right(0) = 1 /\ Right(1) = 0 /\ Ranks = {0, 1}
  BY TwoRanks DEF SymInv
<1>1. PICK r \in Ranks : l = <<r, Right(r)>>
  BY <1>0, TwoRanks
<1>2. /\ link[l] # << >>
      /\ UNCHANGED <<pc, step, second, local>>
  BY DEF Reader
<1>3. \A q \in Ranks : Mail(q)' = Mail(q) /\ Underway(q)' = Underway(q)
  BY <1>2 DEF Mail, Underway
<1>4. Underway(r) \in Frames /\ Underway(r).kind = "PUT" /\ Underway(r).val = Mail(r)
      /\ Token \in Frames /\ Token.kind = "SEND"
  BY MailIs, FramesAre DEF Underway, PutFrame
<1>5. PICK P \in Frames, T \in Frames : P = Underway(r) /\ T = Token
  BY <1>4
<1>6. /\ Head(<<T>>) = T /\ Tail(<<T>>) = << >> /\ Head(<<P>>) = P /\ Tail(<<P>>) = << >>
      /\ Head(<<T, P>>) = T /\ Tail(<<T, P>>) = <<P>> /\ Head(<<P, T>>) = P /\ Tail(<<P, T>>) = <<T>>
  BY ShortQueues
<1>7. link[l] \in {<<T>>, <<P>>, <<T, P>>, <<P, T>>}
  <2>1. SocketMail(r)
    OBVIOUS
  <2> QED
    BY <1>1, <1>2, <1>5, <2>1 DEF SocketMail
<1>8. l[1] = r /\ l[2] = Right(r) /\ Right(r) \in Ranks
  BY <1>1, RanksAre
<1>9. /\ link' = [link EXCEPT ![l] = Tail(@)]
      /\ \/ Head(link[l]) = P /\ heap' = [heap EXCEPT ![Right(r)] = Mail(r)]
         \/ Head(link[l]) = T /\ UNCHANGED heap
  <2>1. Head(link[l]) = P \/ Head(link[l]) = T
    BY <1>6, <1>7
  <2>2. P.kind = "PUT" /\ P.val = Mail(r) /\ T.kind = "SEND"
    BY <1>4, <1>5
  <2>3. CASE Head(link[l]) = P
    BY <1>8, <2>2, <2>3 DEF Reader
  <2>4. CASE Head(link[l]) = T
    BY <2>2, <2>4 DEF Reader
  <2> QED
    BY <2>1, <2>3, <2>4
<1>10. ASSUME NEW q \in Ranks, q # r PROVE SocketMail(q)'
  <2>1. <<q, Right(q)>> # l /\ <<q, Right(q)>> \in Links /\ Right(q) # Right(r) /\ Right(q) \in Ranks
    BY <1>0, <1>1, <1>10, RanksAre
  <2>2. link'[<<q, Right(q)>>] = link[<<q, Right(q)>>] /\ heap'[Right(q)] = heap[Right(q)]
    BY <1>0, <1>9, <2>1 DEF SymTypes
  <2> QED
    BY <1>2, <1>3, <2>2, SocketOther
<1>11. SocketMail(r)'
  <2>1. link'[l] = Tail(link[l])
    BY <1>0, <1>9 DEF SymTypes
  <2>2. SocketMail(r) /\ (P = T => FALSE)
    BY <1>4, <1>5
  <2>3. Head(link[l]) = P => Delivered(r)'
    <3>1. Head(link[l]) = P => heap'[Right(r)] = Mail(r)
      BY <1>0, <1>8, <1>9, <2>2 DEF SymTypes
    <3> QED
      BY <1>3, <3>1 DEF Delivered
  <2>4. Head(link[l]) = T => (Delivered(r) => Delivered(r)')
    BY <1>2, <1>3, <1>9, <2>2 DEF Delivered, Busy
  <2>5. CASE link[l] = <<T>>
    <3>0. <<T>> # <<P>> /\ <<T>> # <<P, T>> /\ <<T>> # <<T, P>>
      BY <2>2
    <3>1. Delivered(r)
      BY <1>1, <1>5, <2>2, <2>5, <3>0 DEF SocketMail
    <3> QED
      BY <1>1, <1>6, <2>1, <2>4, <2>5, <3>1 DEF SocketMail
  <2>6. CASE link[l] = <<P>>
    BY <1>1, <1>6, <2>1, <2>3, <2>6 DEF SocketMail
  <2>7. CASE link[l] = <<T, P>>
    <3>0. <<T, P>> # <<P>> /\ <<T, P>> # <<P, T>> /\ <<T, P>> # <<T>> /\ <<T, P>> # << >>
      BY <2>2
    <3>1. pc[r] \in {"barrier", "collect", "release"} /\ ~second[r]
      BY <1>1, <1>5, <2>2, <2>7, <3>0 DEF SocketMail
    <3> QED
      BY <1>1, <1>2, <1>3, <1>5, <1>6, <2>1, <2>7, <3>1 DEF SocketMail
  <2>8. CASE link[l] = <<P, T>>
    BY <1>1, <1>5, <1>6, <2>1, <2>3, <2>8 DEF SocketMail
  <2> QED
    BY <1>7, <2>5, <2>6, <2>7, <2>8
<1> QED
  BY <1>10, <1>11

-----------------------------------------------------------------------------
(* The results.                                                            *)

LEMMA RingStart == Init => RingInv
<1> SUFFICES ASSUME Init, Algo = "ring" PROVE RingInv
  BY DEF RingInv
<1>1. ASSUME NEW r \in Ranks PROVE RingPlace(r) /\ RingBuffer(r) /\ Delivered(r) /\ SocketMail(r)
  <2>1. pc[r] = "out" /\ call[r] = 0 /\ passed[r] = 0 /\ link[<<r, Right(r)>>] = << >>
    BY RanksAre DEF Init
  <2>2. ~Busy(r) /\ ~Took(r)
    BY <2>1 DEF Busy, Took
  <2>3. Done(r) = 0
    <3>1. Steps \in Int
      BY RanksAre DEF Steps
    <3>2. Done(r) = 0 * Steps
      BY <2>1 DEF Done
    <3> HIDE DEF Steps
    <3> QED
      BY <3>1, <3>2
  <2>4. RingPlace(r)
    BY <2>1, <2>2, <2>3 DEF RingPlace
  <2>5. RingBuffer(r)
    BY <2>1 DEF RingBuffer
  <2> QED
    BY <2>1, <2>2, <2>4, <2>5 DEF Delivered, SocketMail
<1>2. MemoryMail
  BY DEF Init, MemoryMail
<1> QED
  BY <1>1, <1>2 DEF RingInv

\* The places and the buffers, over any step.
LEMMA RingRanks ==
    ASSUME SymInv, RingInv, Algo = "ring", Next, NEW q \in Ranks
    PROVE  RingPlace(q)' /\ (Sound => RingBuffer(q)')
<1>0. SymTypes /\ Places /\ BarrierHolds /\ 0 \in Ranks
  BY CountsHold, RanksAre DEF SymInv
<1>1. RingPlace(q) /\ (Sound => RingBuffer(q))
  BY DEF RingInv
<1>2. ASSUME NEW r \in Ranks, Passes(r), pc[r] \in Blocked PROVE RingPlace(q)' /\ (Sound => RingBuffer(q)')
  <2>1. CASE q = r
    BY <1>1, <1>2, <2>1, RingPasses
  <2>2. CASE q # r
    <3>1. /\ call'[q] = call[q] /\ second'[q] = second[q] /\ local'[q] = local[q]
      BY <1>2 DEF Passes, dataVars
    <3>2. pc'[q] = pc[q] /\ step'[q] = step[q] /\ passed'[q] = passed[q]
      BY <1>0, <1>2, <2>2 DEF SymTypes, Passes, Goto
    <3> QED
      BY <1>1, <3>1, <3>2, RingOther
  <2> QED
    BY <2>1, <2>2
<1>3. ASSUME NEW r \in Ranks, RankStep(r) PROVE RingPlace(q)' /\ (Sound => RingBuffer(q)')
  <2>1. \/ Enter(r) \/ DoPut(r) \/ TakeMailbox(r) \/ BarrierEnter(r) \/ LocalRelease(r) \/ Release(r)
    <3>1. ~GetSlot(r) /\ ~GetTake(r)
      BY <1>0 DEF GetSlot, GetTake, Places, At
    <3> QED
      BY <1>3, <3>1 DEF RankStep
  <2>2. CASE Enter(r)
    <3>1. CASE q = r
      BY <1>1, <2>2, <3>1, RingEnter
    <3>2. CASE q # r
      <4>1. /\ pc'[q] = pc[q] /\ call'[q] = call[q] /\ step'[q] = step[q] /\ local'[q] = local[q]
        BY <1>0, <2>2, <3>2 DEF SymTypes, Enter, Goto
      <4>2. second'[q] = second[q] /\ passed'[q] = passed[q]
        BY <2>2 DEF Enter, barVars
      <4> QED
        BY <1>1, <4>1, <4>2, RingOther
    <3> QED
      BY <3>1, <3>2
  <2>3. CASE DoPut(r)
    <3>1. CASE q = r
      BY <1>1, <2>3, <3>1, RingPut
    <3>2. CASE q # r
      <4>1. pc'[q] = pc[q] /\ second'[q] = second[q]
        BY <1>0, <2>3, <3>2 DEF SymTypes, DoPut, Goto
      <4>2. call'[q] = call[q] /\ step'[q] = step[q] /\ local'[q] = local[q] /\ passed'[q] = passed[q]
        BY <2>3 DEF DoPut, barVars
      <4> QED
        BY <1>1, <4>1, <4>2, RingOther
    <3> QED
      BY <3>1, <3>2
  <2>4. CASE TakeMailbox(r)
    <3>1. CASE q = r
      <4>1. PICK p \in Ranks : r = Right(p)
        <5>1. N \in Nat /\ N > 1 /\ r \in 0..(N - 1)
          BY RanksAre DEF Ranks
        <5>2. PICK p \in Ranks : p = IF r = 0 THEN N - 1 ELSE r - 1
          BY <5>1 DEF Ranks
        <5>3. Right(p) = r
          BY <5>1, <5>2, RightIs
        <5> QED
          BY <5>3
      <4>2. RingPlace(p) /\ RingPlace(r) /\ (Sound => RingBuffer(p) /\ RingBuffer(r)) /\ pc[r] = "get"
        BY <2>4 DEF RingInv, TakeMailbox, At
      <4>3. Sound => heap[r] = Mail(p)
        BY <1>0, <4>1, <4>2, MailHere
      <4> QED
        BY <1>0, <2>4, <3>1, <4>1, <4>2, <4>3, RingTake
    <3>2. CASE q # r
      <4>1. pc'[q] = pc[q] /\ second'[q] = second[q] /\ local'[q] = local[q]
        BY <1>0, <2>4, <3>2 DEF SymTypes, TakeMailbox, Goto
      <4>2. call'[q] = call[q] /\ step'[q] = step[q] /\ passed'[q] = passed[q]
        BY <2>4 DEF TakeMailbox, barVars
      <4> QED
        BY <1>1, <4>1, <4>2, RingOther
    <3> QED
      BY <3>1, <3>2
  <2>5. CASE BarrierEnter(r)
    <3>1. /\ call'[q] = call[q] /\ step'[q] = step[q] /\ second'[q] = second[q]
          /\ local'[q] = local[q] /\ passed'[q] = passed[q]
      BY <2>5 DEF BarrierEnter, dataVars
    <3>2. PICK x \in Blocked : pc[r] = "barrier" /\ pc' = [pc EXCEPT ![r] = x]
      BY <2>5 DEF BarrierEnter, At, Goto, Blocked
    <3>3. pc'[q] = pc[q] \/ (pc[q] \in {"barrier"} \cup Blocked /\ pc'[q] \in {"barrier"} \cup Blocked)
      BY <1>0, <3>2 DEF SymTypes
    <3> QED
      BY <1>1, <3>1, <3>3, RingOther
  <2>6. CASE LocalRelease(r) \/ Release(r)
    <3>1. Passes(r) /\ pc[r] \in Blocked
      BY <2>6 DEF LocalRelease, Release, At, Blocked
    <3> QED
      BY <1>2, <3>1
  <2> QED
    BY <2>1, <2>2, <2>3, <2>4, <2>5, <2>6
<1>4. CASE Root
  <2>1. pc[0] \in Blocked
    BY <1>4 DEF Root, RootCollects, RootReleases, At, Blocked
  <2>2. CASE Passes(0)
    BY <1>0, <1>2, <2>1, <2>2
  <2>3. CASE ~Passes(0)
    <3>1. /\ call'[q] = call[q] /\ step'[q] = step[q] /\ second'[q] = second[q]
          /\ local'[q] = local[q] /\ passed'[q] = passed[q]
      BY <1>4, <2>3 DEF Root, RootCollects, RootReleases, dataVars
    <3>2. PICK x \in Blocked : pc' = [pc EXCEPT ![0] = x]
      BY <1>4, <2>3 DEF Root, RootCollects, RootReleases, Goto, Blocked
    <3>3. pc'[q] = pc[q] \/ (pc[q] \in {"barrier"} \cup Blocked /\ pc'[q] \in {"barrier"} \cup Blocked)
      BY <1>0, <2>1, <3>2 DEF SymTypes
    <3> QED
      BY <1>1, <3>1, <3>3, RingOther
  <2> QED
    BY <2>2, <2>3
<1>5. ASSUME NEW l \in Links, Reader(l) PROVE RingPlace(q)' /\ (Sound => RingBuffer(q)')
  <2>1. UNCHANGED <<pc, call, step, second, local, passed>>
    BY <1>5 DEF Reader, barVars
  <2> QED
    BY <1>1, <2>1, RingOther
<1> QED
  BY <1>3, <1>4, <1>5 DEF Next

LEMMA RingStep ==
    ASSUME SymInv, RingInv, [Next]_vars
    PROVE  RingInv'
<1>1. UNCHANGED mode
  BY DEF Next, RankStep, Root, Reader, vars
<1>2. Algo' = Algo /\ Net' = Net /\ (Sound' <=> Sound)
  BY <1>1 DEF Algo, Net, Sound
<1> SUFFICES ASSUME Algo = "ring" PROVE RingInv'
  BY <1>2 DEF RingInv
<1>3. CASE UNCHANGED vars
  <2>1. UNCHANGED <<mode, pc, call, step, second, local, acc, heap, link, tokens, resp, turn, entered, passed>>
    BY <1>3 DEF vars, dataVars, netVars, barVars
  <2>2. ASSUME NEW q \in Ranks
        PROVE  /\ RingPlace(q) => RingPlace(q)'
               /\ RingBuffer(q) => RingBuffer(q)'
               /\ Delivered(q) => Delivered(q)'
               /\ SocketMail(q) => SocketMail(q)'
    BY <2>1, RingOther, SocketOther DEF Delivered, Busy, Mail
  <2>3. MemoryMail => MemoryMail'
    BY <2>1 DEF MemoryMail
  <2> QED
    BY <1>2, <2>2, <2>3 DEF RingInv
<1>4. CASE Next
  <2>1. \A q \in Ranks : RingPlace(q)' /\ (Sound => RingBuffer(q)')
    BY <1>4, RingRanks
  <2>2. ~Net => MemoryMail' /\ \A q \in Ranks : Delivered(q)'
    BY <1>4, MemoryStep DEF RingInv
  <2>3. ASSUME Net, N = 2 PROVE \A q \in Ranks : SocketMail(q)'
    <3>0. \A q \in Ranks : SocketMail(q)
      BY <2>3 DEF RingInv
    <3>1. ASSUME NEW r \in Ranks, RankStep(r) PROVE \A q \in Ranks : SocketMail(q)'
      <4>1. ~GetSlot(r) /\ ~GetTake(r) /\ ~LocalRelease(r)
        BY <2>3 DEF GetSlot, GetTake, LocalRelease, SymInv, Places, At
      <4>2. Enter(r) \/ DoPut(r) \/ TakeMailbox(r) \/ BarrierEnter(r) \/ Release(r)
        BY <3>1, <4>1 DEF RankStep
      <4> QED
        BY <2>3, <3>0, <4>2, SocketEnter, SocketPut, SocketTake, SocketBarrier, SocketRelease
    <3>2. CASE Root
      BY <2>3, <3>0, <3>2, SocketRoot DEF Root
    <3>3. ASSUME NEW l \in Links, Reader(l) PROVE \A q \in Ranks : SocketMail(q)'
      BY <2>3, <3>0, <3>3, SocketReader
    <3> QED
      BY <1>4, <3>1, <3>2, <3>3 DEF Next
  <2> QED
    BY <1>2, <2>1, <2>2, <2>3 DEF RingInv
<1> QED
  BY <1>3, <1>4

LEMMA InvResults ==
    ASSUME SymInv, RingInv, NaiveInv
    PROVE  ResultsRight
<1>0. SymTypes /\ N \in Nat
  BY RanksAre DEF SymInv
<1>1. CASE Algo = "ring"
  <2> SUFFICES ASSUME Sound, NEW r \in Ranks, pc[r] = "out", call[r] > 0
               PROVE  local[r] = Reduced(call[r])
    BY <1>1 DEF ResultsRight, Sound, ReturnsReduced, At
  <2>1. RingBuffer(r) /\ Takes(r) = Steps /\ Chunks = Ranks /\ call[r] \in Nat
    BY <1>0, <1>1 DEF RingInv, Takes, Chunks, Ranks, SymTypes
  <2>2. \A c \in Ranks : local[r][c] = Whole(c, call[r])
    BY <2>1, ValEnd DEF RingBuffer
  <2>3. local[r] \in [Ranks -> Folds]
    BY <1>0, <2>1 DEF SymTypes
  <2>4. Reduced(call[r]) = [c \in Ranks |-> Whole(c, call[r])]
    BY <1>1, <2>1 DEF Reduced, Whole
  <2> QED
    BY <2>2, <2>3, <2>4
<1>2. CASE Algo # "ring"
  <2>1. Algo = "naive" /\ Chunks = {0}
    BY <1>0, <1>2, ModeIs DEF Chunks
  <2> SUFFICES ASSUME NCalls = 1, NEW r \in Ranks, pc[r] = "out", call[r] > 0
               PROVE  local[r] = Reduced(call[r])
    BY <1>2 DEF ResultsRight, ReturnsReduced, At
  <2>2. NaiveRank(r)
    BY <2>1 DEF NaiveInv, OnceInv
  <2>3. call[r] = 1 /\ local[r][0] = Prefix(N)
    BY <2>2 DEF NaiveRank
  <2>4. local[r] \in [{0} -> Folds]
    BY <1>0, <2>1 DEF SymTypes
  <2>5. Reduced(1) = [c \in {0} |-> Prefix(N)]
    BY <1>2, <2>1 DEF Reduced, Prefix
  <2> QED
    BY <2>3, <2>4, <2>5
<1> QED
  BY <1>1, <1>2

\* Spec => []ResultsRight: for every number of ranks and of calls, ring_all_reduce over
\* memory, or over sockets between two ranks, leaves every rank's input of the call in
\* the buffer, and so does all_reduce called once over either transport.
THEOREM SymmetricResults == Spec => []ResultsRight
<1>1. Init => SymInv /\ RingInv /\ NaiveInv
  BY SymStart, RingStart, NaiveStart
<1>2. (SymInv /\ RingInv /\ NaiveInv) /\ [Next]_vars => (SymInv /\ RingInv /\ NaiveInv)'
  <2> SUFFICES ASSUME SymInv, RingInv, NaiveInv, [Next]_vars
               PROVE  SymInv' /\ RingInv' /\ NaiveInv'
    OBVIOUS
  <2> QED
    BY SymStep, RingStep, NaiveStep
<1>3. SymInv /\ RingInv /\ NaiveInv => ResultsRight
  BY InvResults
<1> QED
  BY <1>1, <1>2, <1>3, PTL DEF Spec

=============================================================================
