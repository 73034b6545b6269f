----------------------------- MODULE Peers_proofs ----------------------------
(***************************************************************************)
(* How a process finds its peers and reaches one: the rendezvous over UDP  *)
(* and over TCP, discovery by broadcast, and an edge of the QUIC           *)
(* transport.  The rendezvous is proved for any set of workers, whatever   *)
(* they ask for and whatever the network does with the datagrams;          *)
(* discovery for any jobs and processes on one port; the edge for any      *)
(* number of threads, frames, redials and failures.                        *)
(***************************************************************************)
EXTENDS MC_Rendezvous, Discovery, IrohEdge, DataLemmas

-----------------------------------------------------------------------------
(* What Roster::admit does to the roster: an address that has a rank keeps *)
(* it, another gets a rank nobody has.                                     *)

\* The map of a roster has no gap it could not fill: an open roster hands out its
\* ranks in turn, one of a known world only ranks of that world.
Sound(ro) ==
    /\ IsRoster(ro)
    /\ 0 \in Ranks(ro)
    /\ ro.world = Open => \E n \in Nat : Ranks(ro) = 0..(n - 1)
    /\ ro.world # Open => Ranks(ro) \subseteq 0..(ro.world - 1)

\* A nonempty set of ranks has a least one.
LEMMA LeastIsIn ==
    ASSUME NEW S, S \subseteq Nat, S # {}
    PROVE  Least(S) \in S
BY LeastNat DEF Least

\* A full roster of a known world has every rank of it.
LEMMA FullMeansAll ==
    ASSUME NEW ro, Sound(ro), ro.world # Open, Full(ro)
    PROVE  Ranks(ro) = 0..(ro.world - 1)
<1>1. ro.world \in Nat
  BY DEF Sound, IsRoster
<1>2. IsFiniteSet(0..(ro.world - 1)) /\ Cardinality(0..(ro.world - 1)) = ro.world
  BY <1>1, Interval
<1>3. Ranks(ro) \in SUBSET (0..(ro.world - 1))
  BY DEF Sound
<1>4. Cardinality(0..(ro.world - 1)) = Cardinality(Ranks(ro)) => 0..(ro.world - 1) = Ranks(ro)
  BY <1>2, <1>3, FS_Subset
<1> QED
  BY <1>2, <1>4 DEF Full

\* The rank of an admitted registration: its own if the address has one, else one
\* that nobody has.
LEMMA AdmittedRankIs ==
    ASSUME NEW ro, Sound(ro), NEW reg \in Reg, ~Refuses(ro, reg)
    PROVE  /\ AdmittedRank(ro, reg) \in Nat
           /\ RanksOf(ro, reg.addr) # {} => AdmittedRank(ro, reg) \in RanksOf(ro, reg.addr)
           /\ RanksOf(ro, reg.addr) = {} =>
                 /\ AdmittedRank(ro, reg) \notin Ranks(ro)
                 /\ ro.world # Open => AdmittedRank(ro, reg) \in FreeRanks(ro)
                 /\ ro.world = Open => AdmittedRank(ro, reg) = Cardinality(Ranks(ro))
<1>1. Ranks(ro) \subseteq Nat
  BY DEF Sound, IsRoster, RankMap, Ranks
<1>2. CASE RanksOf(ro, reg.addr) # {}
  <2>1. RanksOf(ro, reg.addr) \subseteq Nat
    BY <1>1 DEF RanksOf
  <2>2. AdmittedRank(ro, reg) = Least(RanksOf(ro, reg.addr))
    BY <1>2 DEF AdmittedRank
  <2>3. AdmittedRank(ro, reg) \in RanksOf(ro, reg.addr)
    BY <1>2, <2>1, <2>2, LeastIsIn
  <2> QED
    BY <1>2, <2>1, <2>3
<1>3. CASE RanksOf(ro, reg.addr) = {} /\ ro.world = Open
  <2>1. AdmittedRank(ro, reg) = Cardinality(Ranks(ro))
    BY <1>3 DEF AdmittedRank
  <2>2. PICK n \in Nat : Ranks(ro) = 0..(n - 1)
    BY <1>3 DEF Sound
  <2>3. Cardinality(Ranks(ro)) = n
    BY <2>2, Interval
  <2>4. n \notin 0..(n - 1)
    OBVIOUS
  <2> QED
    BY <1>3, <2>1, <2>2, <2>3, <2>4
<1>4. CASE RanksOf(ro, reg.addr) = {} /\ ro.world # Open
  <2>1. FreeRanks(ro) \subseteq Nat /\ FreeRanks(ro) \cap Ranks(ro) = {}
    BY DEF FreeRanks, Sound, IsRoster
  <2>2. AdmittedRank(ro, reg) = IF reg.rank = NoOpt THEN Least(FreeRanks(ro)) ELSE reg.rank
    BY <1>4 DEF AdmittedRank
  <2>3. CASE reg.rank = NoOpt
    <3>1. FreeRanks(ro) # {}
      BY <1>4, <2>3 DEF Refuses, NoRankFor
    <3>2. AdmittedRank(ro, reg) \in FreeRanks(ro)
      BY <2>1, <2>2, <2>3, <3>1, LeastIsIn
    <3> QED
      BY <1>4, <2>1, <3>2
  <2>4. CASE reg.rank # NoOpt
    <3>1. reg.rank \in FreeRanks(ro)
      BY <1>4, <2>4 DEF Refuses, NoRankFor
    <3> QED
      BY <1>4, <2>1, <2>2, <2>4, <3>1
  <2> QED
    BY <2>3, <2>4
<1> QED
  BY <1>2, <1>3, <1>4


\* admit changes nobody's rank, and changes nothing for an address that has one.
LEMMA AdmitIs ==
    ASSUME NEW ro, Sound(ro), NEW reg \in Reg, ~Refuses(ro, reg)
    PROVE  /\ Ranks(Admit(ro, reg)) = Ranks(ro) \cup {AdmittedRank(ro, reg)}
           /\ Admit(ro, reg).world = ro.world
           /\ \A r \in Ranks(ro) : Admit(ro, reg).peers[r] = ro.peers[r]
           /\ Admit(ro, reg).peers[AdmittedRank(ro, reg)] = reg.addr
           /\ RanksOf(ro, reg.addr) # {} => Admit(ro, reg) = ro
<1> DEFINE r0 == AdmittedRank(ro, reg)
           f  == [q \in Ranks(ro) \cup {r0} |-> IF q = r0 THEN reg.addr ELSE ro.peers[q]]
<1>1. ro = [world |-> ro.world, peers |-> ro.peers]
  BY DEF Sound, IsRoster
<1>2. Admit(ro, reg) = [world |-> ro.world, peers |-> f]
  <2>1. Put(ro.peers, r0, reg.addr) = f
    BY DEF Put, Ranks
  <2> HIDE DEF f, r0
  <2>2. Admit(ro, reg) = [ro EXCEPT !.peers = f]
    BY <2>1 DEF Admit, Insert, r0
  <2>3. [[world |-> ro.world, peers |-> ro.peers] EXCEPT !.peers = f]
           = [world |-> ro.world, peers |-> f]
    OBVIOUS
  <2> QED
    BY <1>1, <2>2, <2>3
<1>3. \A r \in Ranks(ro) : r = r0 => ro.peers[r] = reg.addr
  BY AdmittedRankIs DEF RanksOf
<1>4. \A r \in Ranks(ro) : f[r] = ro.peers[r]
  BY <1>3
<1>5. RanksOf(ro, reg.addr) # {} => r0 \in Ranks(ro)
  BY AdmittedRankIs DEF RanksOf
<1>6. ro.peers = [q \in Ranks(ro) |-> ro.peers[q]]
  BY DEF Sound, IsRoster, RankMap, Ranks
<1>7. RanksOf(ro, reg.addr) # {} => f = ro.peers
  BY <1>4, <1>5, <1>6
<1>8. f[r0] = reg.addr /\ DOMAIN f = Ranks(ro) \cup {r0}
  OBVIOUS
<1> HIDE DEF f
<1> QED
  BY <1>1, <1>2, <1>4, <1>7, <1>8 DEF Ranks

\* admit keeps the roster sound.
LEMMA AdmitSound ==
    ASSUME NEW ro, Sound(ro), NEW reg \in Reg, ~Refuses(ro, reg)
    PROVE  Sound(Admit(ro, reg))
<1> DEFINE r0 == AdmittedRank(ro, reg)
           ra == Admit(ro, reg)
<1>1. CASE RanksOf(ro, reg.addr) # {}
  BY <1>1, AdmitIs
<1>2. CASE RanksOf(ro, reg.addr) = {}
  <2>1. /\ Ranks(ra) = Ranks(ro) \cup {r0} /\ ra.world = ro.world
        /\ \A r \in Ranks(ro) : ra.peers[r] = ro.peers[r]
        /\ ra.peers[r0] = reg.addr
    BY AdmitIs
  <2>2. /\ r0 \in Nat
        /\ ro.world # Open => r0 \in FreeRanks(ro)
        /\ ro.world = Open => r0 = Cardinality(Ranks(ro))
    BY <1>2, AdmittedRankIs
  <2>3. /\ Ranks(ro) \subseteq Nat /\ IsFiniteSet(Ranks(ro)) /\ ro.world \in Nat
        /\ \A r \in Ranks(ro) : ro.peers[r] \in Addr
    BY DEF Sound, IsRoster, RankMap, Ranks
  <2>4. reg.addr \in Addr
    BY DEF Reg, Addr
  <2>5. /\ Ranks(ra) \subseteq Nat /\ IsFiniteSet(Ranks(ra))
        /\ \A r \in Ranks(ra) : ra.peers[r] \in Addr
    BY <2>1, <2>2, <2>3, <2>4, FS_AddElement
  <2>6. /\ ra = [world |-> ra.world, peers |-> ra.peers]
        /\ ra.peers = [q \in Ranks(ra) |-> ra.peers[q]]
    BY DEF Sound, IsRoster, Admit, Insert, Put, Ranks
  <2>7. IsRoster(ra)
    <3> HIDE DEF ra
    <3>1. ra.peers \in [Ranks(ra) -> Addr]
      BY <2>5, <2>6
    <3> QED
      BY <2>1, <2>3, <2>5, <2>6, <3>1 DEF IsRoster, RankMap, Ranks
  <2>8. 0 \in Ranks(ra)
    BY <2>1 DEF Sound
  <2>9. ra.world = Open => \E n \in Nat : Ranks(ra) = 0..(n - 1)
    <3> SUFFICES ASSUME ro.world = Open
                 PROVE  \E n \in Nat : Ranks(ra) = 0..(n - 1)
      BY <2>1
    <3>1. PICK n \in Nat : Ranks(ro) = 0..(n - 1)
      BY DEF Sound
    <3>2. r0 = n
      BY <2>2, <3>1, Interval
    <3>3. (0..(n - 1)) \cup {n} = 0..((n + 1) - 1) /\ n + 1 \in Nat
      OBVIOUS
    <3> QED
      BY <2>1, <3>1, <3>2, <3>3
  <2>10. ra.world # Open => Ranks(ra) \subseteq 0..(ra.world - 1)
    <3> SUFFICES ASSUME ro.world # Open
                 PROVE  Ranks(ra) \subseteq 0..(ro.world - 1)
      BY <2>1
    <3>1. r0 \in 1..(ro.world - 1)
      BY <2>2 DEF FreeRanks
    <3>2. r0 \in 0..(ro.world - 1)
      BY <2>3, <3>1
    <3> QED
      BY <2>1, <3>2 DEF Sound
  <2> QED
    BY <2>7, <2>8, <2>9, <2>10 DEF Sound
<1> QED
  BY <1>1, <1>2

\* close keeps the roster sound and makes it one with every rank of its world.
LEMMA CloseSound ==
    ASSUME NEW ro, Sound(ro), ro.world = Open
    PROVE  /\ Sound(Close(ro)) /\ Close(ro).peers = ro.peers
           /\ Close(ro).world # Open
           /\ Ranks(Close(ro)) = 0..(Close(ro).world - 1)
<1>1. PICK n \in Nat : Ranks(ro) = 0..(n - 1)
  BY DEF Sound
<1>2. Cardinality(Ranks(ro)) = n
  BY <1>1, Interval
<1>3. n # 0
  BY <1>1 DEF Sound
<1>4. ro = [world |-> ro.world, peers |-> ro.peers] /\ RankMap(ro.peers, Addr)
  BY DEF Sound, IsRoster
<1>5. Close(ro) = [world |-> n, peers |-> ro.peers]
  BY <1>2, <1>4 DEF Close
<1> QED
  BY <1>1, <1>3, <1>4, <1>5 DEF Sound, IsRoster, Ranks, Open

\* When no rank is missing, list() has rank r's address at index r.
LEMMA ListIs ==
    ASSUME NEW ro, IsRoster(ro), Ranks(ro) = 0..(ro.world - 1)
    PROVE  /\ List(ro) \in Seq(Addr) /\ Len(List(ro)) = ro.world
           /\ \A r \in Ranks(ro) : List(ro)[r + 1] = ro.peers[r]
<1>1. ro.world \in Nat /\ DOMAIN ro.peers = 0..(ro.world - 1)
  BY DEF IsRoster, Ranks
<1>2. ro.peers \in [DOMAIN ro.peers -> Addr]
  BY DEF IsRoster, RankMap
<1> QED
  BY <1>1, <1>2, ValuesAre DEF List, Ranks

-----------------------------------------------------------------------------
(* The coordinator and the workers.                                        *)

Completed == status \in {"done", "returned"}

\* What rank 0 has at every moment.  No two ranks have one address, an answer goes
\* to the socket of the rank's own worker, and the list is sent only when no rank
\* is missing.
ServerSound ==
    /\ worldArg \in WorldArgs
    /\ want \in [Workers -> Wants]
    /\ status \in {"collecting", "done", "returned", "timedout"}
    /\ Sound(roster)
    /\ roster.peers[0] = Coord
    /\ \A q, r \in Ranks(roster) : roster.peers[q] = roster.peers[r] => q = r
    /\ status = "collecting" => roster.world = worldArg
    /\ Completed => roster.world # Open /\ Ranks(roster) = 0..(roster.world - 1)
    /\ \A r \in DOMAIN replyTo : r \in Ranks(roster) /\ replyTo[r] = roster.peers[r]

\* The complete roster ro assigns asg to the worker w.
Deserves(w, asg, st, ro) ==
    /\ st \in {"done", "returned"}
    /\ \E r \in Ranks(ro) : ro.peers[r] = w /\ asg = PeersLine(r, ro)

Deserved(w, asg) == Deserves(w, asg, status, roster)

\* Every list under way, and every list received, is the one of the roster as it is
\* now, with the receiver's own rank.
AnswersSound ==
    /\ \A m \in net : m.type = "RLXPEERS" => Deserved(m.to, m.asg)
    /\ told \in [Workers -> Answer]
    /\ \A w \in Workers : told[w].st = "assigned" => Deserved(w, told[w])

\* The inductive invariant: rank 0's state is sound, and so is what it told anybody.
IInv == ServerSound /\ AnswersSound

\* A worker's registration is one that parse_reg can return.
LEMMA RegTyped ==
    ASSUME ServerSound, NEW w \in Workers
    PROVE  RegMsg(w).reg \in Reg /\ RegMsg(w).reg.addr = w /\ RegMsg(w).type = "RLXREG"
<1>1. want[w] \in [rank : Nat \cup {NoOpt}, world : (Nat \ {0}) \cup {NoOpt}]
  BY ArgumentAssumption DEF ServerSound
<1> QED
  BY <1>1 DEF RegMsg, Reg

\* Once the list has been sent, only a member's registration is admitted, and it
\* changes nothing.
LEMMA LateRegistration ==
    ASSUME ServerSound, Completed, NEW reg \in Reg, ~Refuses(roster, reg)
    PROVE  /\ RanksOf(roster, reg.addr) # {}
           /\ Admit(roster, reg) = roster
<1>1. FreeRanks(roster) = {}
  BY DEF ServerSound, FreeRanks, Sound, IsRoster
<1>2. Sound(roster)
  BY DEF ServerSound
<1>3. RanksOf(roster, reg.addr) # {}
  BY <1>1, <1>2, AdmittedRankIs DEF ServerSound
<1> QED
  BY <1>2, <1>3, AdmitIs


\* What a step may do to the roster: ranks handed out stay, and nothing changes
\* once the list has been sent.
RosterKept ==
    /\ \A r \in Ranks(roster) : r \in Ranks(roster') /\ roster'.peers[r] = roster.peers[r]
    /\ status # "collecting" => roster' = roster

\* A registration that is admitted: the roster that results, with the socket the
\* answer will go to.
LEMMA AdmitStep ==
    ASSUME ServerSound, NEW w \in Workers, status \in {"collecting", "done"},
           ~Refuses(roster, RegMsg(w).reg), roster' = Admit(roster, RegMsg(w).reg)
    PROVE  /\ RosterKept
           /\ Sound(roster') /\ roster'.world = roster.world /\ roster'.peers[0] = Coord
           /\ \A q, r \in Ranks(roster') : roster'.peers[q] = roster'.peers[r] => q = r
           /\ AdmittedRank(roster, RegMsg(w).reg) \in Ranks(roster')
           /\ roster'.peers[AdmittedRank(roster, RegMsg(w).reg)] = w
<1> DEFINE reg == RegMsg(w).reg
           r0  == AdmittedRank(roster, reg)
<1>1. reg \in Reg /\ reg.addr = w
  BY RegTyped
<1>2. Sound(roster)
  BY DEF ServerSound
<1> HIDE DEF reg
<1>3. /\ Ranks(roster') = Ranks(roster) \cup {r0} /\ roster'.world = roster.world
      /\ \A r \in Ranks(roster) : roster'.peers[r] = roster.peers[r]
      /\ roster'.peers[r0] = w
      /\ RanksOf(roster, w) # {} => roster' = roster
  BY <1>1, <1>2, AdmitIs DEF reg
<1>4. Sound(roster')
  BY <1>1, <1>2, AdmitSound DEF reg
<1>5. status # "collecting" => roster' = roster
  BY <1>1, LateRegistration DEF Completed, reg
<1>6. 0 \in Ranks(roster) /\ roster.peers[0] = Coord
  BY DEF ServerSound, Sound
<1>7. \A q, r \in Ranks(roster') : roster'.peers[q] = roster'.peers[r] => q = r
  <2>1. CASE RanksOf(roster, w) # {}
    BY <1>3, <2>1 DEF ServerSound
  <2>2. CASE RanksOf(roster, w) = {}
    <3>1. \A q \in Ranks(roster) : roster.peers[q] # w
      BY <2>2 DEF RanksOf
    <3>2. \A q, r \in Ranks(roster) : roster.peers[q] = roster.peers[r] => q = r
      BY DEF ServerSound
    <3> QED
      BY <1>3, <3>1, <3>2
  <2> QED
    BY <2>1, <2>2
<1>8. RosterKept
  BY <1>3, <1>5 DEF RosterKept
<1> QED
  BY <1>3, <1>4, <1>6, <1>7, <1>8 DEF reg

\* What is deserved stays deserved while the roster stays.
LEMMA StillDeserved ==
    ASSUME UNCHANGED roster, Completed => Completed'
    PROVE  \A w, asg : Deserved(w, asg) => Deserved(w, asg)'
<1>1. Ranks(roster') = Ranks(roster) /\ \A r : PeersLine(r, roster') = PeersLine(r, roster)
  OBVIOUS
<1> QED
  BY <1>1 DEF Deserved, Deserves, Completed

\* serve_udp's handler of a registration.
LEMMA RecvRegStep ==
    ASSUME IInv, NEW w \in Workers, RecvReg(w)
    PROVE  IInv' /\ RosterKept
<1> DEFINE reg == RegMsg(w).reg
           r0  == AdmittedRank(roster, reg)
           ro  == Admit(roster, reg)
           to  == [q \in DOMAIN replyTo \cup {r0} |-> IF q = r0 THEN w ELSE replyTo[q]]
<1>0. ServerSound /\ AnswersSound
  BY DEF IInv
<1>1. status \in {"collecting", "done"} /\ UNCHANGED <<worldArg, want, told>>
  BY DEF RecvReg, Serving, args
<1>2. CASE Refuses(roster, reg)
  <2>1. net' = net \cup {ErrMsg(w)} /\ UNCHANGED <<roster, status, replyTo>>
    BY <1>2 DEF RecvReg
  <2>2. ErrMsg(w).type # "RLXPEERS"
    BY DEF ErrMsg
  <2>3. \A v, asg : Deserved(v, asg) => Deserved(v, asg)'
    BY <2>1, StillDeserved DEF Completed
  <2>4. ServerSound'
    BY <1>0, <1>1, <2>1 DEF ServerSound, Completed, Ranks
  <2>5. AnswersSound'
    BY <1>0, <1>1, <2>1, <2>2, <2>3 DEF AnswersSound
  <2> QED
    BY <2>1, <2>4, <2>5 DEF IInv, RosterKept, Ranks
<1>3. CASE ~Refuses(roster, reg)
  <2>1. roster' = ro /\ replyTo' = to
    BY <1>3 DEF RecvReg
  <2>2. /\ RosterKept
        /\ Sound(roster') /\ roster'.world = roster.world /\ roster'.peers[0] = Coord
        /\ \A q, r \in Ranks(roster') : roster'.peers[q] = roster'.peers[r] => q = r
        /\ r0 \in Ranks(roster') /\ roster'.peers[r0] = w
    BY <1>0, <1>1, <1>3, <2>1, AdmitStep
  <2>3. \A r \in DOMAIN replyTo' : r \in Ranks(roster') /\ replyTo'[r] = roster'.peers[r]
    <3>1. \A r \in DOMAIN replyTo : r \in Ranks(roster') /\ replyTo[r] = roster'.peers[r]
      BY <1>0, <2>2 DEF ServerSound, RosterKept
    <3> HIDE DEF r0
    <3> QED
      BY <2>1, <2>2, <3>1
  <2>4. CASE status = "done"
    <3>1. net' = net \cup {PeersMsg(w, r0, ro)} /\ UNCHANGED status
      BY <1>3, <2>4 DEF RecvReg
    <3>2. roster' = roster
      BY <2>2, <2>4 DEF RosterKept
    <3>3. ServerSound'
      BY <1>0, <1>1, <2>2, <2>3, <2>4, <3>1, <3>2 DEF ServerSound, Completed, Ranks
    <3>4. Deserves(w, PeersLine(r0, ro), status', roster')
      BY <2>1, <2>2, <2>4, <3>1 DEF Deserves
    <3>5. \A v, asg : Deserved(v, asg) => Deserved(v, asg)'
      BY <3>1, <3>2, StillDeserved DEF Completed
    <3>6. AnswersSound'
      <4>1. /\ PeersMsg(w, r0, ro).to = w
            /\ PeersMsg(w, r0, ro).asg = PeersLine(r0, ro)
        BY DEF PeersMsg
      <4> HIDE DEF r0, ro
      <4> QED
        BY <1>0, <1>1, <3>1, <3>4, <3>5, <4>1 DEF AnswersSound, Deserved
    <3> QED
      BY <2>2, <3>3, <3>6 DEF IInv
  <2>5. CASE status = "collecting" /\ Full(ro)
    <3>1. net' = net \cup ReplyAll(to, ro) /\ status' = "done"
      BY <1>3, <2>5 DEF RecvReg
    <3>2. roster'.world # Open
      <4> SUFFICES ASSUME roster'.world = Open
                   PROVE  FALSE
        OBVIOUS
      <4>1. IsFiniteSet(Ranks(roster')) /\ 0 \in Ranks(roster')
        BY <2>2 DEF Sound, IsRoster, RankMap, Ranks
      <4>2. Cardinality(Ranks(roster')) = 0
        BY <2>1, <2>5 DEF Full, Open
      <4> QED
        BY <4>1, <4>2, FS_EmptySet
    <3>3. Ranks(roster') = 0..(roster'.world - 1)
      BY <2>1, <2>2, <2>5, <3>2, FullMeansAll
    <3>4. ServerSound'
      BY <1>0, <1>1, <2>2, <2>3, <3>1, <3>2, <3>3 DEF ServerSound, Completed, Ranks
    <3>5. \A r \in DOMAIN to : Deserves(to[r], PeersLine(r, ro), status', roster')
      <4> HIDE DEF to, ro
      <4> QED
        BY <2>1, <2>3, <3>1 DEF Deserves
    <3>6. \A v, asg : ~Deserved(v, asg)
      BY <2>5 DEF Deserved, Deserves
    <3>7. \A m \in net' : m.type = "RLXPEERS" => Deserved(m.to, m.asg)'
      <4>1. \A r : /\ PeersMsg(to[r], r, ro).to = to[r]
                   /\ PeersMsg(to[r], r, ro).asg = PeersLine(r, ro)
        BY DEF PeersMsg
      <4> HIDE DEF to, ro
      <4> QED
        BY <1>0, <3>1, <3>5, <3>6, <4>1 DEF AnswersSound, ReplyAll, Deserved
    <3> QED
      BY <1>0, <1>1, <2>2, <3>4, <3>6, <3>7 DEF IInv, AnswersSound
  <2>6. CASE status = "collecting" /\ ~Full(ro)
    <3>1. UNCHANGED <<net, status>>
      BY <1>3, <2>6 DEF RecvReg
    <3>2. ServerSound'
      BY <1>0, <1>1, <2>2, <2>3, <2>6, <3>1 DEF ServerSound, Completed, Ranks
    <3>3. \A v, asg : ~Deserved(v, asg)
      BY <2>6 DEF Deserved, Deserves
    <3> QED
      BY <1>0, <1>1, <2>2, <3>1, <3>2, <3>3 DEF IInv, AnswersSound
  <2> QED
    BY <1>1, <2>4, <2>5, <2>6
<1> QED
  BY <1>2, <1>3


\* The steps of rank 0 other than a registration, and the network's.
LEMMA ServerStep ==
    ASSUME IInv,
           (\E r \in Ranks(roster) : RecvAck(r)) \/ WindowEnds \/ ServeTimesOut
               \/ ServeReturns \/ LingerExpires \/ Lose
    PROVE  IInv' /\ RosterKept
<1>0. ServerSound /\ AnswersSound
  BY DEF IInv
<1>1. CASE WindowEnds
  <2>1. /\ status = "collecting" /\ worldArg = Open /\ status' = "done"
        /\ roster' = Close(roster) /\ net' = net \cup ReplyAll(replyTo, Close(roster))
        /\ UNCHANGED <<worldArg, want, replyTo, told>>
    BY <1>1 DEF WindowEnds, args
  <2>2. Sound(roster) /\ roster.world = Open
    BY <1>0, <2>1 DEF ServerSound
  <2>3. /\ Sound(roster') /\ roster'.peers = roster.peers /\ roster'.world # Open
        /\ Ranks(roster') = 0..(roster'.world - 1) /\ Ranks(roster') = Ranks(roster)
    BY <2>1, <2>2, CloseSound DEF Ranks
  <2>4. ServerSound'
    <3>1. /\ worldArg' \in WorldArgs /\ want' \in [Workers -> Wants]
          /\ status' \in {"collecting", "done", "returned", "timedout"}
          /\ status' # "collecting"
      BY <1>0, <2>1 DEF ServerSound
    <3>2. /\ roster'.peers[0] = Coord
          /\ \A q, r \in Ranks(roster') : roster'.peers[q] = roster'.peers[r] => q = r
      BY <1>0, <2>3 DEF ServerSound
    <3>3. \A r \in DOMAIN replyTo' : r \in Ranks(roster') /\ replyTo'[r] = roster'.peers[r]
      BY <1>0, <2>1, <2>3 DEF ServerSound
    <3> QED
      BY <2>3, <3>1, <3>2, <3>3 DEF ServerSound
  <2>5. \A r \in DOMAIN replyTo :
           Deserves(replyTo[r], PeersLine(r, Close(roster)), status', roster')
    BY <1>0, <2>1, <2>3 DEF ServerSound, Deserves
  <2>6. \A v, asg : ~Deserved(v, asg)
    BY <2>1 DEF Deserved, Deserves
  <2>7. \A r : /\ PeersMsg(replyTo[r], r, Close(roster)).to = replyTo[r]
               /\ PeersMsg(replyTo[r], r, Close(roster)).asg = PeersLine(r, Close(roster))
    BY DEF PeersMsg
  <2>8. \A m \in net' : m.type = "RLXPEERS" => Deserved(m.to, m.asg)'
    BY <1>0, <2>1, <2>5, <2>6, <2>7 DEF AnswersSound, ReplyAll, Deserved
  <2> QED
    BY <1>0, <2>1, <2>3, <2>4, <2>6, <2>8 DEF IInv, AnswersSound, RosterKept
<1>2. CASE (\E r \in Ranks(roster) : RecvAck(r)) \/ ServeTimesOut \/ ServeReturns
              \/ LingerExpires \/ Lose
  <2>1. /\ UNCHANGED <<worldArg, want, roster, replyTo, told>> /\ net' \subseteq net
        /\ \/ status' = status
           \/ status = "collecting" /\ status' = "timedout"
           \/ status = "done" /\ status' = "returned"
    BY <1>2 DEF RecvAck, ServeTimesOut, ServeReturns, LingerExpires, Lose, args, serverVars
  <2>2. \A v, asg : Deserved(v, asg) => Deserved(v, asg)'
    BY <2>1, StillDeserved DEF Completed
  <2>3. ServerSound'
    BY <1>0, <2>1 DEF ServerSound, Completed, Ranks
  <2>4. AnswersSound'
    BY <1>0, <2>1, <2>2 DEF AnswersSound
  <2> QED
    BY <2>1, <2>3, <2>4 DEF IInv, RosterKept, Ranks
<1> QED
  BY <1>1, <1>2

\* The steps of a worker: it keeps what it was sent, once.
LEMMA WorkerStep ==
    ASSUME IInv, NEW w \in Workers,
           SendReg(w) \/ RecvPeers(w) \/ RecvErr(w) \/ RegisterTimesOut(w)
    PROVE  IInv' /\ RosterKept
<1>0. ServerSound /\ AnswersSound
  BY DEF IInv
<1>1. UNCHANGED <<worldArg, want, roster, status, replyTo>>
  BY DEF SendReg, RecvPeers, RecvErr, RegisterTimesOut, args, serverVars
<1>2. ServerSound'
  BY <1>0, <1>1 DEF ServerSound, Completed, Ranks
<1>3. \A v, asg : Deserved(v, asg) => Deserved(v, asg)'
  BY <1>1, StillDeserved DEF Completed
<1>4. RosterKept
  BY <1>1 DEF RosterKept, Ranks
<1>5. CASE SendReg(w)
  <2>1. net' = net \cup {RegMsg(w)} /\ UNCHANGED told
    BY <1>5 DEF SendReg
  <2>2. RegMsg(w).type # "RLXPEERS"
    BY DEF RegMsg
  <2>3. AnswersSound'
    BY <1>0, <1>3, <2>1, <2>2 DEF AnswersSound
  <2> QED
    BY <1>2, <1>4, <2>3 DEF IInv
<1>6. CASE RecvPeers(w)
  <2>1. PICK m \in net : /\ m.type = "RLXPEERS" /\ m.to = w
                         /\ told' = [told EXCEPT ![w] = m.asg]
                         /\ net' = net \cup {AckMsg(m.asg.rank)}
    BY <1>6 DEF RecvPeers
  <2>2. AckMsg(m.asg.rank).type # "RLXPEERS"
    BY DEF AckMsg
  <2>3. Deserved(w, m.asg)
    BY <1>0, <2>1 DEF AnswersSound
  <2>4. m.asg \in Answer
    <3>1. PICK r \in Ranks(roster) : m.asg = PeersLine(r, roster)
      BY <2>3 DEF Deserved, Deserves
    <3>2. IsRoster(roster) /\ Ranks(roster) = 0..(roster.world - 1)
      BY <1>0, <2>3 DEF ServerSound, Sound, Deserved, Deserves, Completed
    <3>3. List(roster) \in Seq(Addr)
      BY <3>2, ListIs
    <3>4. r \in Nat /\ roster.world \in Nat
      BY <3>2 DEF IsRoster, RankMap, Ranks
    <3> QED
      BY <3>1, <3>3, <3>4 DEF PeersLine, Answer
  <2>5. told' \in [Workers -> Answer]
    BY <1>0, <2>1, <2>4 DEF AnswersSound
  <2>6. \A v \in Workers : told'[v].st = "assigned" => Deserved(v, told'[v])
    BY <1>0, <2>1, <2>3 DEF AnswersSound
  <2>7. AnswersSound'
    BY <1>0, <1>3, <2>1, <2>2, <2>5, <2>6 DEF AnswersSound
  <2> QED
    BY <1>2, <1>4, <2>7 DEF IInv
<1>7. CASE RecvErr(w) \/ RegisterTimesOut(w)
  <2>1. told' = [told EXCEPT ![w] = R!Failed] /\ UNCHANGED net
    BY <1>7 DEF RecvErr, RegisterTimesOut
  <2>2. R!Failed \in Answer /\ R!Failed.st # "assigned"
    BY DEF Answer, R!Failed
  <2>3. told' \in [Workers -> Answer]
    BY <1>0, <2>1, <2>2 DEF AnswersSound
  <2>4. \A v \in Workers : told'[v].st = "assigned" => Deserved(v, told'[v])
    BY <1>0, <2>1, <2>2 DEF AnswersSound
  <2>5. AnswersSound'
    BY <1>0, <1>3, <2>1, <2>3, <2>4 DEF AnswersSound
  <2> QED
    BY <1>2, <1>4, <2>5 DEF IInv
<1> QED
  BY <1>5, <1>6, <1>7

\* Every step keeps the invariant and the ranks handed out.
LEMMA StepSound == IInv /\ Next => IInv' /\ RosterKept
BY RecvRegStep, ServerStep, WorkerStep DEF Next

\* So does a step that changes nothing.
LEMMA StutterSound == IInv /\ UNCHANGED vars => IInv' /\ RosterKept
<1> SUFFICES ASSUME IInv, UNCHANGED vars
             PROVE  IInv' /\ RosterKept
  OBVIOUS
<1>1. UNCHANGED <<worldArg, want, roster, status, replyTo, net, told>>
  BY DEF vars
<1> QED
  BY <1>1 DEF IInv, ServerSound, AnswersSound, Deserved, Deserves, Completed, RosterKept, Ranks

\* A coordinator that has just bound its socket.
LEMMA InitSound == Init => IInv
<1> SUFFICES ASSUME Init PROVE IInv
  OBVIOUS
<1>1. roster = [world |-> worldArg, peers |-> [r \in {0} |-> Coord]]
  BY DEF Init, NewRoster
<1>2. worldArg \in WorldArgs /\ worldArg \in Nat /\ worldArg # 1
  BY ArgumentAssumption DEF Init
<1>3. Ranks(roster) = {0} /\ roster.peers[0] = Coord /\ roster.world = worldArg
  BY <1>1 DEF Ranks
<1>4. IsFiniteSet({0})
  BY FS_Singleton
<1>5. IsRoster(roster)
  BY <1>1, <1>2, <1>4 DEF IsRoster, RankMap, Addr
<1>6. {0} = 0..(1 - 1)
  OBVIOUS
<1>7. worldArg # Open => {0} \subseteq 0..(worldArg - 1)
  BY <1>2 DEF Open
<1>8. Sound(roster)
  BY <1>3, <1>5, <1>6, <1>7 DEF Sound
<1>9. ServerSound
  BY <1>2, <1>3, <1>8 DEF Init, ServerSound, Completed
<1>10. AnswersSound
  BY DEF Init, AnswersSound, Answer, R!Pending
<1> QED
  BY <1>9, <1>10 DEF IInv


\* The invariant holds in every reachable state.
LEMMA AlwaysSound == Spec => []IInv
<1>1. IInv /\ [Next]_vars => IInv'
  BY StepSound, StutterSound
<1> QED
  BY <1>1, InitSound, PTL DEF Spec

-----------------------------------------------------------------------------
(* What follows from it.                                                   *)

\* A rank once handed out stays with its address, and nobody joins after the list
\* has been sent, for any number of workers and any loss, repetition and reordering
\* of datagrams (Roster::admit, serve_udp).
THEOREM RanksStay == Spec => RosterStable
<1>1. IInv /\ [Next]_vars =>
        [ /\ \A r \in Ranks(roster) :
                r \in Ranks(roster') /\ roster'.peers[r] = roster.peers[r]
          /\ status # "collecting" => roster' = roster ]_vars
  BY StepSound DEF RosterKept
<1> QED
  BY <1>1, AlwaysSound, PTL DEF Spec, RosterStable

\* What an answered worker holds.
LEMMA AnsweredHolds ==
    ASSUME IInv, NEW w \in Workers, NEW asg, Deserved(w, asg)
    PROVE  /\ asg.rank \in Ranks(roster) /\ roster.peers[asg.rank] = w
           /\ asg = [st |-> "assigned", rank |-> asg.rank, world |-> roster.world,
                     peers |-> List(roster)]
           /\ List(roster) \in Seq(Addr) /\ Len(List(roster)) = roster.world
           /\ \A r \in Ranks(roster) : List(roster)[r + 1] = roster.peers[r]
<1>1. PICK r \in Ranks(roster) : roster.peers[r] = w /\ asg = PeersLine(r, roster)
  BY DEF Deserved, Deserves
<1>2. asg = [st |-> "assigned", rank |-> r, world |-> roster.world, peers |-> List(roster)]
  BY <1>1 DEF PeersLine
<1>3. IsRoster(roster) /\ Ranks(roster) = 0..(roster.world - 1)
  BY DEF IInv, ServerSound, Sound, Deserved, Deserves, Completed
<1>4. /\ List(roster) \in Seq(Addr) /\ Len(List(roster)) = roster.world
      /\ \A q \in Ranks(roster) : List(roster)[q + 1] = roster.peers[q]
  BY <1>3, ListIs
<1> QED
  BY <1>1, <1>2, <1>4

\* All answered workers hold the roster's list, each at its own place in it.
LEMMA AnswersAgree ==
    ASSUME IInv PROVE OnePeerList
<1> SUFFICES ASSUME NEW v \in Workers, NEW w \in Workers, told[v].st = "assigned"
             PROVE  /\ status \in {"done", "returned"}
                    /\ told[v].peers = List(roster)
                    /\ told[v].world = Len(told[v].peers)
                    /\ told[v].peers[told[v].rank + 1] = v
                    /\ (told[w].st = "assigned" /\ told[w].rank = told[v].rank) => v = w
  BY DEF OnePeerList
<1>1. Deserved(v, told[v]) /\ (told[w].st = "assigned" => Deserved(w, told[w]))
  BY DEF IInv, AnswersSound
<1>2. /\ told[v].rank \in Ranks(roster) /\ roster.peers[told[v].rank] = v
      /\ told[v].peers = List(roster) /\ told[v].world = roster.world
      /\ Len(List(roster)) = roster.world
      /\ \A r \in Ranks(roster) : List(roster)[r + 1] = roster.peers[r]
  BY <1>1, AnsweredHolds
<1>3. told[w].st = "assigned" => roster.peers[told[w].rank] = w
  BY <1>1, AnsweredHolds
<1>4. status \in {"done", "returned"}
  BY <1>1 DEF Deserved, Deserves
<1> QED
  BY <1>2, <1>3, <1>4

\* All ranks that return from the rendezvous hold one peer list, each with its own
\* address at the index of its rank, and no two share a rank, for any number of
\* workers, whatever ranks and worlds they ask for.
THEOREM OneListForAll == Spec => []OnePeerList
<1>1. IInv => OnePeerList
  BY AnswersAgree
<1> QED
  BY <1>1, AlwaysSound, PTL

\* The peer list of a complete roster is one that a rendezvous may agree on.
LEMMA ListIsPeerList ==
    ASSUME ServerSound, Completed
    PROVE  R!PeerList(List(roster)) /\ List(roster) # << >>
<1>1. /\ IsRoster(roster) /\ Ranks(roster) = 0..(roster.world - 1) /\ 0 \in Ranks(roster)
      /\ roster.peers[0] = Coord
      /\ \A q, r \in Ranks(roster) : roster.peers[q] = roster.peers[r] => q = r
  BY DEF ServerSound, Sound
<1>2. /\ List(roster) \in Seq(Addr) /\ Len(List(roster)) = roster.world
      /\ \A r \in Ranks(roster) : List(roster)[r + 1] = roster.peers[r]
  BY <1>1, ListIs
<1>3. roster.world \in Nat \ {0}
  BY <1>1 DEF IsRoster
<1>4. List(roster)[1] = Coord
  <2>1. List(roster)[0 + 1] = Coord
    BY <1>1, <1>2
  <2> QED
    BY <2>1
<1>5. ASSUME NEW i \in 1..Len(List(roster)), NEW j \in 1..Len(List(roster)),
             List(roster)[i] = List(roster)[j]
      PROVE  i = j
  <2>1. /\ i - 1 \in Ranks(roster) /\ j - 1 \in Ranks(roster)
        /\ (i - 1) + 1 = i /\ (j - 1) + 1 = j
    BY <1>1, <1>2, <1>3
  <2>2. List(roster)[i] = roster.peers[i - 1] /\ List(roster)[j] = roster.peers[j - 1]
    BY <1>2, <2>1
  <2>3. i - 1 = j - 1
    BY <1>1, <1>5, <2>1, <2>2
  <2> QED
    BY <2>1, <2>3
<1>6. List(roster) \in Seq(Workers \cup {Coord})
  BY <1>2 DEF Addr
<1>7. List(roster) # << >> /\ Len(List(roster)) > 0
  BY <1>2, <1>3
<1> QED
  BY <1>4, <1>5, <1>6, <1>7 DEF R!PeerList


\* The peer list the rendezvous has agreed on, as the abstract specification sees it.
Agreed == IF status \in {"done", "returned"} THEN List(roster) ELSE << >>

\* A step of rank 0 or of the network agrees on the list or leaves it alone.
LEMMA AgreeStep ==
    ASSUME IInv, IInv', RosterKept, UNCHANGED told, Completed => Completed'
    PROVE  R!Next \/ UNCHANGED R!vars
<1>1. CASE Completed
  <2>1. roster' = roster /\ Completed'
    BY <1>1 DEF RosterKept, Completed
  <2> QED
    BY <1>1, <2>1 DEF R!vars, Completed
<1>2. CASE ~Completed /\ ~Completed'
  BY <1>2 DEF R!vars, Completed
<1>3. CASE ~Completed /\ Completed'
  <2>1. Agreed = << >> /\ Agreed' = List(roster')
    BY <1>3 DEF Agreed, Completed
  <2>2. (ServerSound /\ Completed => R!PeerList(List(roster)) /\ List(roster) # << >>)'
    BY ListIsPeerList, PTL
  <2>3. R!PeerList(List(roster'))
    BY <1>3, <2>2 DEF IInv, R!PeerList
  <2>4. R!Agree
    BY <2>1, <2>3 DEF R!Agree, R!NotYet, Agreed
  <2> QED
    BY <2>4 DEF R!Next
<1> QED
  BY <1>1, <1>2, <1>3

\* A worker's step tells it the list with its own position, or that it has failed.
LEMMA TellStep ==
    ASSUME IInv, NEW w \in Workers, RecvPeers(w) \/ RecvErr(w) \/ RegisterTimesOut(w)
    PROVE  R!Next
<1>1. UNCHANGED <<status, roster>> /\ told[w] = R!Pending
  BY DEF RecvPeers, RecvErr, RegisterTimesOut, serverVars
<1>2. Agreed' = Agreed
  BY <1>1 DEF Agreed
<1>3. CASE RecvErr(w) \/ RegisterTimesOut(w)
  <2>1. told' = [told EXCEPT ![w] = R!Failed]
    BY <1>3 DEF RecvErr, RegisterTimesOut
  <2>2. R!Fail(w)
    BY <1>1, <1>2, <2>1 DEF R!Fail, Agreed
  <2> QED
    BY <2>2 DEF R!Next
<1>4. CASE RecvPeers(w)
  <2>1. PICK m \in net : /\ m.type = "RLXPEERS" /\ m.to = w
                         /\ told' = [told EXCEPT ![w] = m.asg]
    BY <1>4 DEF RecvPeers
  <2>2. Deserved(w, m.asg)
    BY <2>1 DEF IInv, AnswersSound
  <2>3. Agreed = List(roster)
    BY <2>2 DEF Agreed, Deserved, Deserves
  <2>4. /\ m.asg.rank \in Ranks(roster) /\ roster.peers[m.asg.rank] = w
        /\ m.asg = [st |-> "assigned", rank |-> m.asg.rank, world |-> roster.world,
                    peers |-> List(roster)]
        /\ Len(List(roster)) = roster.world
        /\ \A r \in Ranks(roster) : List(roster)[r + 1] = roster.peers[r]
    BY <2>2, AnsweredHolds
  <2>5. IsRoster(roster) /\ Ranks(roster) = 0..(roster.world - 1)
    BY <2>2 DEF IInv, ServerSound, Sound, Deserved, Deserves, Completed
  <2> DEFINE i == m.asg.rank + 1
  <2>6. i \in 1..Len(Agreed) /\ i - 1 = m.asg.rank /\ Agreed[i] = w
    BY <2>3, <2>4, <2>5 DEF IsRoster
  <2>7. m.asg = R!Assigned(i - 1, Agreed)
    BY <2>3, <2>4, <2>6 DEF R!Assigned
  <2> HIDE DEF i
  <2>8. R!Tell(w)
    BY <1>1, <1>2, <2>1, <2>6, <2>7 DEF R!Tell, Agreed
  <2> QED
    BY <2>8 DEF R!Next
<1> QED
  BY <1>3, <1>4

\* Every step over UDP is a step of the rendezvous, or nothing it sees.
LEMMA UdpRefines ==
    ASSUME IInv, IInv', [Next]_vars
    PROVE  R!Next \/ UNCHANGED R!vars
<1>1. RosterKept
  BY StepSound, StutterSound
<1>2. ASSUME NEW w \in Workers, RecvReg(w) \/ SendReg(w)
      PROVE  UNCHANGED told /\ (Completed => Completed')
  <2>1. CASE SendReg(w)
    BY <2>1 DEF SendReg, serverVars, Completed
  <2>2. CASE RecvReg(w)
    <3>1. UNCHANGED told /\ status \in {"collecting", "done"}
      BY <2>2 DEF RecvReg, Serving
    <3>2. status = "done" => status' = status
      <4>1. CASE Refuses(roster, RegMsg(w).reg)
        BY <2>2, <4>1 DEF RecvReg
      <4>2. CASE ~Refuses(roster, RegMsg(w).reg) /\ status = "done"
        BY <2>2, <4>2 DEF RecvReg
      <4> QED
        BY <4>1, <4>2
    <3> QED
      BY <3>1, <3>2 DEF Completed
  <2> QED
    BY <1>2, <2>1, <2>2
<1>3. ASSUME (\E r \in Ranks(roster) : RecvAck(r)) \/ WindowEnds \/ ServeTimesOut
             \/ ServeReturns \/ LingerExpires \/ Lose \/ UNCHANGED vars
      PROVE  UNCHANGED told /\ (Completed => Completed')
  BY <1>3 DEF RecvAck, WindowEnds, ServeTimesOut, ServeReturns, LingerExpires, Lose,
              vars, serverVars, Completed
<1>4. (UNCHANGED told /\ (Completed => Completed')) => R!Next \/ UNCHANGED R!vars
  BY <1>1, AgreeStep
<1>5. ASSUME NEW w \in Workers, RecvPeers(w) \/ RecvErr(w) \/ RegisterTimesOut(w)
      PROVE  R!Next
  BY <1>5, TellStep
<1> QED
  BY <1>2, <1>3, <1>4, <1>5 DEF Next

\* serve_udp and register implement the rendezvous, over any network and for any
\* workers: one list is agreed on, once, and a worker learns it with its own
\* position or learns that it has no place.
THEOREM UdpImplementsRendezvous == Spec => RendezvousSpec
<1>1. Init => R!Init
  BY DEF Init, R!Init, R!NotYet
<1>2. IInv /\ IInv' /\ [Next]_vars => [R!Next]_(R!vars)
  BY UdpRefines
<1> QED
  BY <1>1, <1>2, AlwaysSound, PTL DEF Spec, RendezvousSpec, R!Spec


-----------------------------------------------------------------------------
(* A refusal is for good, and only for those who have no rank.             *)

\* A refusal under way would be written again now: the worker it goes to is still
\* refused.  While a roster is open it refuses nobody.
RefusalsStand ==
    \A m \in net : m.type = "RLXERR" =>
       m.to \in Workers /\ roster.world # Open /\ Refuses(roster, RegMsg(m.to).reg)

\* In a world that was known from the start every member asked for that world.
WorldHeld ==
    worldArg # Open =>
       /\ roster.world = worldArg
       /\ \A w \in Members : ~WorldMismatch(roster, RegMsg(w).reg)

RefusalInv == RefusalsStand /\ WorldHeld

\* Admitting another registration does not make a refused one welcome.
LEMMA RefusedForGood ==
    ASSUME NEW ro, Sound(ro), ro.world # Open,
           NEW reg \in Reg, Refuses(ro, reg),
           NEW other \in Reg, ~Refuses(ro, other), other.addr # reg.addr
    PROVE  Refuses(Admit(ro, other), reg)
<1> DEFINE ra == Admit(ro, other)
           r0 == AdmittedRank(ro, other)
<1>1. /\ Ranks(ra) = Ranks(ro) \cup {r0} /\ ra.world = ro.world
      /\ \A r \in Ranks(ro) : ra.peers[r] = ro.peers[r]
      /\ ra.peers[r0] = other.addr
  BY AdmitIs
<1> HIDE DEF ra, r0
<1>2. CASE WorldMismatch(ro, reg)
  BY <1>1, <1>2 DEF WorldMismatch, Refuses, ra
<1>3. CASE NoRankFor(ro, reg)
  <2>1. RanksOf(ra, reg.addr) = {}
    BY <1>1, <1>3 DEF NoRankFor, RanksOf
  <2>2. FreeRanks(ra) \subseteq FreeRanks(ro)
    BY <1>1 DEF FreeRanks
  <2> QED
    BY <1>1, <1>3, <2>1, <2>2 DEF NoRankFor, Refuses, ra
<1> QED
  BY <1>2, <1>3 DEF Refuses

\* The refusals stay right when a registration is handled.
LEMMA RecvRegRefusals ==
    ASSUME IInv, RefusalInv, NEW w \in Workers, RecvReg(w)
    PROVE  RefusalInv'
<1> DEFINE reg == RegMsg(w).reg
           ro  == Admit(roster, reg)
<1>0. ServerSound /\ RefusalsStand /\ WorldHeld /\ Sound(roster)
  BY DEF IInv, RefusalInv, ServerSound
<1>1. status \in {"collecting", "done"} /\ UNCHANGED <<worldArg, want>>
  BY DEF RecvReg, Serving, args
<1>2. \A v \in Workers : RegMsg(v)' = RegMsg(v)
  BY <1>1 DEF RegMsg
<1>3. CASE Refuses(roster, reg)
  <2>1. net' = net \cup {ErrMsg(w)} /\ UNCHANGED roster
    BY <1>3 DEF RecvReg
  <2>2. ErrMsg(w).to = w
    BY DEF ErrMsg
  <2>3. roster.world # Open
    BY <1>3 DEF Refuses, WorldMismatch, NoRankFor
  <2>4. RefusalsStand'
    BY <1>0, <1>2, <1>3, <2>1, <2>2, <2>3 DEF RefusalsStand
  <2>5. WorldHeld'
    BY <1>0, <1>1, <1>2, <2>1 DEF WorldHeld, Members, RanksOf, Ranks, WorldMismatch
  <2> QED
    BY <2>4, <2>5 DEF RefusalInv
<1>4. CASE ~Refuses(roster, reg)
  <2>1. roster' = ro
    BY <1>4 DEF RecvReg
  <2>2. reg \in Reg /\ reg.addr = w
    BY <1>0, RegTyped
  <2>3. /\ roster'.world = roster.world
        /\ Ranks(roster') = Ranks(roster) \cup {AdmittedRank(roster, reg)}
        /\ \A r \in Ranks(roster) : roster'.peers[r] = roster.peers[r]
        /\ roster'.peers[AdmittedRank(roster, reg)] = w
    BY <1>0, <1>4, <2>1, <2>2, AdmitIs
  <2>4. \A m \in net' : m.type = "RLXERR" => m \in net
    <3>1. \/ \E r, to2 : net' = net \cup {PeersMsg(w, r, to2)}
          \/ \E to2, ro2 : net' = net \cup ReplyAll(to2, ro2)
          \/ net' = net
      BY <1>1, <1>4 DEF RecvReg
    <3>2. \A v, r, ro2 : PeersMsg(v, r, ro2).type # "RLXERR"
      BY DEF PeersMsg
    <3>3. \A to2, ro2 : \A m \in ReplyAll(to2, ro2) : m.type # "RLXERR"
      BY <3>2 DEF ReplyAll
    <3> QED
      BY <3>1, <3>2, <3>3
  <2>5. RefusalsStand'
    <3> SUFFICES ASSUME NEW m \in net', m.type = "RLXERR"
                 PROVE  /\ m.to \in Workers /\ roster'.world # Open
                        /\ Refuses(roster', RegMsg(m.to).reg)
      BY <1>2 DEF RefusalsStand
    <3>1. m.to \in Workers /\ roster.world # Open /\ Refuses(roster, RegMsg(m.to).reg)
      BY <1>0, <2>4 DEF RefusalsStand
    <3>2. m.to # w
      BY <1>4, <3>1
    <3>3. RegMsg(m.to).reg \in Reg /\ RegMsg(m.to).reg.addr = m.to
      BY <1>0, <3>1, RegTyped
    <3> HIDE DEF reg
    <3> QED
      BY <1>0, <1>4, <2>1, <2>2, <2>3, <3>1, <3>2, <3>3, RefusedForGood
  <2>6. WorldHeld'
    <3> SUFFICES ASSUME worldArg # Open
                 PROVE  /\ roster'.world = worldArg
                        /\ \A v \in Members' : ~WorldMismatch(roster', RegMsg(v).reg)
      BY <1>1, <1>2 DEF WorldHeld, Members
    <3>1. \A v \in Members' : v \in Members \/ v = w
      BY <2>3 DEF Members, RanksOf
    <3>2. ~WorldMismatch(roster, RegMsg(w).reg)
      BY <1>4 DEF Refuses
    <3>3. \A r2 : WorldMismatch(roster', r2) <=> WorldMismatch(roster, r2)
      BY <2>3 DEF WorldMismatch
    <3> HIDE DEF reg
    <3> QED
      BY <1>0, <2>3, <3>1, <3>2, <3>3 DEF WorldHeld
  <2> QED
    BY <2>5, <2>6 DEF RefusalInv
<1> QED
  BY <1>3, <1>4

\* And by every other step: no other step refuses anybody or changes a known world.
LEMMA OtherRefusals ==
    ASSUME IInv, RefusalInv,
           \/ \E w \in Workers : SendReg(w) \/ RecvPeers(w) \/ RecvErr(w) \/ RegisterTimesOut(w)
           \/ \E r \in Ranks(roster) : RecvAck(r)
           \/ WindowEnds \/ ServeTimesOut \/ ServeReturns \/ LingerExpires \/ Lose
           \/ UNCHANGED vars
    PROVE  RefusalInv'
<1>0. ServerSound /\ RefusalsStand /\ WorldHeld /\ Sound(roster)
  BY DEF IInv, RefusalInv, ServerSound
<1>1. UNCHANGED <<worldArg, want>>
  BY DEF SendReg, RecvPeers, RecvErr, RegisterTimesOut, RecvAck, WindowEnds, ServeTimesOut,
         ServeReturns, LingerExpires, Lose, vars, args
<1>2. \A v : RegMsg(v)' = RegMsg(v)
  BY <1>1 DEF RegMsg
<1>3. CASE WindowEnds
  <2>1. /\ status = "collecting" /\ worldArg = Open
        /\ net' = net \cup ReplyAll(replyTo, Close(roster))
    BY <1>3 DEF WindowEnds
  <2>2. roster.world = Open
    BY <1>0, <2>1 DEF ServerSound
  <2>3. \A m \in ReplyAll(replyTo, Close(roster)) : m.type # "RLXERR"
    BY DEF ReplyAll, PeersMsg
  <2>4. \A m \in net' : m.type # "RLXERR"
    BY <1>0, <2>1, <2>2, <2>3 DEF RefusalsStand
  <2>5. worldArg' = Open
    BY <1>1, <2>1
  <2> QED
    BY <2>4, <2>5 DEF RefusalInv, RefusalsStand, WorldHeld
<1>4. CASE ~WindowEnds
  <2>1. UNCHANGED roster
    BY <1>4 DEF SendReg, RecvPeers, RecvErr, RegisterTimesOut, RecvAck, ServeTimesOut,
                ServeReturns, LingerExpires, Lose, vars, serverVars
  <2>2. \A m \in net' : m.type = "RLXERR" => m \in net
    <3>1. \/ net' \subseteq net
          \/ \E w \in Workers : net' = net \cup {RegMsg(w)}
          \/ \E r : net' = net \cup {AckMsg(r)}
      BY <1>4 DEF SendReg, RecvPeers, RecvErr, RegisterTimesOut, RecvAck, ServeTimesOut,
                  ServeReturns, LingerExpires, Lose, vars
    <3>2. \A w : RegMsg(w).type # "RLXERR" /\ AckMsg(w).type # "RLXERR"
      BY DEF RegMsg, AckMsg
    <3> QED
      BY <3>1, <3>2
  <2>3. RefusalsStand'
    BY <1>0, <1>2, <2>1, <2>2 DEF RefusalsStand
  <2>4. WorldHeld'
    BY <1>0, <1>1, <1>2, <2>1 DEF WorldHeld, Members, RanksOf, Ranks
  <2> QED
    BY <2>3, <2>4 DEF RefusalInv
<1> QED
  BY <1>3, <1>4

\* A refusal under way to a member is one the closed world deserves.
LEMMA RefusedDeservedly ==
    ASSUME IInv, RefusalInv PROVE NoMemberRefused
<1> SUFFICES ASSUME NEW m \in net, m.type = "RLXERR", m.to \in Members
             PROVE  /\ worldArg = Open /\ status # "collecting"
                    /\ want[m.to].world \notin {NoOpt, roster.world}
  BY DEF NoMemberRefused
<1>1. /\ m.to \in Workers /\ roster.world # Open
      /\ Refuses(roster, RegMsg(m.to).reg)
  BY DEF RefusalInv, RefusalsStand
<1>2. /\ RegMsg(m.to).reg.addr = m.to /\ RegMsg(m.to).reg.world = want[m.to].world
  BY DEF RegMsg
<1>3. WorldMismatch(roster, RegMsg(m.to).reg)
  BY <1>1, <1>2 DEF Refuses, NoRankFor, Members
<1>4. worldArg = Open
  BY <1>3 DEF RefusalInv, WorldHeld
<1>5. status # "collecting"
  BY <1>1, <1>4 DEF IInv, ServerSound
<1> QED
  BY <1>2, <1>3, <1>4, <1>5 DEF WorldMismatch

\* A worker that holds a rank is never sent a refusal, however often and in
\* whatever order the registrations of however many workers arrive; a member of an
\* open roster is only when the window closed with another WORLD than its own
\* (Roster::admit, Roster::close).
THEOREM MembersNotRefused == Spec => []NoMemberRefused
<1>1. Init => RefusalInv
  <2> SUFFICES ASSUME Init PROVE RefusalInv
    OBVIOUS
  <2>1. net = {} /\ roster.world = worldArg /\ roster.peers = [r \in {0} |-> Coord]
    BY DEF Init, NewRoster
  <2>2. Members = {}
    BY <2>1, AddressAssumption DEF Members, RanksOf, Ranks
  <2> QED
    BY <2>1, <2>2 DEF RefusalInv, RefusalsStand, WorldHeld
<1>2. IInv /\ RefusalInv /\ [Next]_vars => RefusalInv'
  BY RecvRegRefusals, OtherRefusals DEF Next
<1>3. IInv /\ RefusalInv => NoMemberRefused
  BY RefusedDeservedly
<1> QED
  BY <1>1, <1>2, <1>3, AlwaysSound, PTL DEF Spec


-----------------------------------------------------------------------------
(* An acknowledgement comes from a rank that has the list.                 *)

\* The worker of rank r has been told the list.
Informed(r) ==
    /\ Completed /\ r \in Ranks(roster) \ {0}
    /\ told[roster.peers[r]].st = "assigned"

\* Every acknowledgement, counted or under way, is true, and serve_udp has returned
\* either because all of them are in or because its linger expired.
AcksTrue ==
    /\ \A m \in net : m.type = "RLXACK" => Informed(m.rank)
    /\ \A r \in acked : Informed(r)
    /\ (status = "returned" /\ ~lingered) => EveryoneAcked

\* Who has the list keeps it.
LEMMA InformedStays ==
    ASSUME IInv, [Next]_vars, NEW r, Informed(r)
    PROVE  Informed(r)'
<1>1. RosterKept
  BY StepSound, StutterSound
<1>2. roster' = roster
  BY <1>1 DEF Informed, Completed, RosterKept
<1>3. Completed'
  <2>1. CASE \E w \in Workers : RecvReg(w)
    <3>1. PICK w \in Workers : RecvReg(w)
      BY <2>1
    <3>2. status = "done"
      BY <3>1 DEF RecvReg, Serving, Informed, Completed
    <3>3. status' = status
      <4>1. CASE Refuses(roster, RegMsg(w).reg)
        BY <3>1, <4>1 DEF RecvReg
      <4>2. CASE ~Refuses(roster, RegMsg(w).reg)
        BY <3>1, <3>2, <4>2 DEF RecvReg
      <4> QED
        BY <4>1, <4>2
    <3> QED
      BY <3>2, <3>3 DEF Completed
  <2>2. CASE ~ \E w \in Workers : RecvReg(w)
    BY <2>2 DEF Next, SendReg, RecvPeers, RecvErr, RegisterTimesOut, RecvAck, WindowEnds,
                ServeTimesOut, ServeReturns, LingerExpires, Lose, vars, serverVars,
                Informed, Completed
  <2> QED
    BY <2>1, <2>2
<1>4. \A v \in Workers : told[v].st = "assigned" => told'[v] = told[v]
  <2>1. \/ told' = told
        \/ \E w \in Workers : \E x : told[w] = R!Pending /\ told' = [told EXCEPT ![w] = x]
    BY DEF Next, RecvReg, SendReg, RecvPeers, RecvErr, RegisterTimesOut, RecvAck, WindowEnds,
           ServeTimesOut, ServeReturns, LingerExpires, Lose, vars
  <2>2. R!Pending.st # "assigned"
    BY DEF R!Pending
  <2>3. told \in [Workers -> Answer]
    BY DEF IInv, AnswersSound
  <2> QED
    BY <2>1, <2>2, <2>3
<1>5. roster.peers[r] \in Workers
  <2>1. /\ 0 \in Ranks(roster) /\ roster.peers[0] = Coord /\ roster.peers[r] \in Addr
        /\ (roster.peers[r] = roster.peers[0] => r = 0)
    BY DEF IInv, ServerSound, Sound, IsRoster, RankMap, Ranks, Informed
  <2> QED
    BY <2>1 DEF Addr, Informed
<1> QED
  BY <1>2, <1>3, <1>4, <1>5 DEF Informed

\* Every step keeps the acknowledgements true.
LEMMA AcksStep ==
    ASSUME IInv, AcksTrue, [Next]_vars
    PROVE  AcksTrue'
<1>1. \A r : Informed(r) => Informed(r)'
  BY InformedStays
<1>2. CASE \E w \in Workers : RecvPeers(w)
  <2>1. PICK w \in Workers : RecvPeers(w)
    BY <1>2
  <2>2. PICK m \in net : /\ m.type = "RLXPEERS" /\ m.to = w
                         /\ told' = [told EXCEPT ![w] = m.asg]
                         /\ net' = net \cup {AckMsg(m.asg.rank)}
    BY <2>1 DEF RecvPeers
  <2>3. UNCHANGED <<roster, status, lingered, acked>>
    BY <2>1 DEF RecvPeers, serverVars
  <2>4. Deserved(w, m.asg) /\ told \in [Workers -> Answer]
    BY <2>2 DEF IInv, AnswersSound
  <2>5. /\ m.asg.rank \in Ranks(roster) /\ roster.peers[m.asg.rank] = w
        /\ m.asg.st = "assigned"
    BY <2>4, AnsweredHolds
  <2>6. m.asg.rank # 0
    BY <2>5, AddressAssumption DEF IInv, ServerSound
  <2>7. Informed(m.asg.rank)'
    BY <2>2, <2>3, <2>4, <2>5, <2>6 DEF Informed, Completed, Deserved, Deserves, Ranks
  <2>8. AckMsg(m.asg.rank).rank = m.asg.rank
    BY DEF AckMsg
  <2>9. \A k \in net' : k.type = "RLXACK" => Informed(k.rank)'
    BY <1>1, <2>2, <2>7, <2>8 DEF AcksTrue
  <2> QED
    BY <1>1, <2>3, <2>9 DEF AcksTrue, EveryoneAcked
<1>3. CASE ~ \E w \in Workers : RecvPeers(w)
  <2>1. \A m \in net' : m.type = "RLXACK" => m \in net
    <3>1. \/ net' \subseteq net
          \/ \E w \in Workers : net' = net \cup {RegMsg(w)} \/ net' = net \cup {ErrMsg(w)}
          \/ \E w, r, ro : net' = net \cup {PeersMsg(w, r, ro)}
          \/ \E to, ro : net' = net \cup ReplyAll(to, ro)
      <4>1. ASSUME NEW w \in Workers, RecvReg(w)
            PROVE  \/ net' \subseteq net
                   \/ net' = net \cup {ErrMsg(w)}
                   \/ \E v, r, ro : net' = net \cup {PeersMsg(v, r, ro)}
                   \/ \E to, ro : net' = net \cup ReplyAll(to, ro)
        <5>1. CASE Refuses(roster, RegMsg(w).reg)
          BY <4>1, <5>1 DEF RecvReg
        <5>2. CASE ~Refuses(roster, RegMsg(w).reg)
          BY <4>1, <5>2 DEF RecvReg, Serving
        <5> QED
          BY <5>1, <5>2
      <4>2. CASE WindowEnds
        BY <4>2 DEF WindowEnds
      <4> QED
        BY <1>3, <4>1, <4>2 DEF Next, SendReg, RecvErr, RegisterTimesOut, RecvAck,
              ServeTimesOut, ServeReturns, LingerExpires, Lose, vars
    <3>2. \A w, r, ro : /\ RegMsg(w).type # "RLXACK" /\ ErrMsg(w).type # "RLXACK"
                        /\ PeersMsg(w, r, ro).type # "RLXACK"
      BY DEF RegMsg, ErrMsg, PeersMsg
    <3>3. \A to, ro : \A m \in ReplyAll(to, ro) : m.type # "RLXACK"
      BY <3>2 DEF ReplyAll
    <3> QED
      BY <3>1, <3>2, <3>3
  <2>2. \A m \in net' : m.type = "RLXACK" => Informed(m.rank)'
    BY <1>1, <2>1 DEF AcksTrue
  <2>3. \A r \in acked' : Informed(r)'
    <3>1. acked' = acked \/ \E r : AckMsg(r) \in net /\ acked' = acked \cup {r}
      BY DEF Next, RecvReg, SendReg, RecvPeers, RecvErr, RegisterTimesOut, RecvAck, WindowEnds,
           ServeTimesOut, ServeReturns, LingerExpires, Lose, vars, serverVars
    <3>2. \A r : AckMsg(r).type = "RLXACK" /\ AckMsg(r).rank = r
      BY DEF AckMsg
    <3> QED
      BY <1>1, <3>1, <3>2 DEF AcksTrue
  <2>4. ASSUME status' = "returned", ~lingered'
        PROVE  EveryoneAcked'
    <3>1. CASE status = "returned"
      <4>1. UNCHANGED <<acked, lingered>>
        BY <3>1 DEF Next, RecvReg, Serving, SendReg, RecvPeers, RecvErr, RegisterTimesOut,
             RecvAck, WindowEnds, ServeTimesOut, ServeReturns, LingerExpires, Lose, vars, serverVars
      <4>2. roster' = roster
        BY <3>1, StepSound, StutterSound DEF RosterKept
      <4> QED
        BY <2>4, <3>1, <4>1, <4>2 DEF AcksTrue, EveryoneAcked
    <3>2. CASE status # "returned"
      <4>1. \A w \in Workers : ~RecvReg(w)
        <5> SUFFICES ASSUME NEW w \in Workers, RecvReg(w)
                     PROVE  FALSE
          OBVIOUS
        <5>1. CASE Refuses(roster, RegMsg(w).reg)
          BY <2>4, <3>2, <5>1 DEF RecvReg
        <5>2. CASE ~Refuses(roster, RegMsg(w).reg)
          BY <2>4, <3>2, <5>2 DEF RecvReg, Serving
        <5> QED
          BY <5>1, <5>2
      <4>2. ServeReturns
        BY <2>4, <3>2, <4>1 DEF Next, SendReg, RecvPeers, RecvErr, RegisterTimesOut,
             RecvAck, WindowEnds, ServeTimesOut, LingerExpires, Lose, vars, serverVars
      <4> QED
        BY <4>2 DEF ServeReturns, EveryoneAcked
    <3> QED
      BY <3>1, <3>2
  <2> QED
    BY <2>2, <2>3, <2>4 DEF AcksTrue
<1> QED
  BY <1>2, <1>3

\* As many true acknowledgements as the list has workers come from all of them.
LEMMA AckedMeansInformed == IInv /\ AcksTrue => ReturnedMeansInformed
<1> SUFFICES ASSUME IInv, AcksTrue, status = "returned", ~lingered, NEW w \in Members
             PROVE  told[w].st = "assigned"
  BY DEF ReturnedMeansInformed
<1> DEFINE W == roster.world
<1>1. /\ W \in Nat /\ Ranks(roster) = 0..(W - 1) /\ 0 \in Ranks(roster)
      /\ roster.peers[0] = Coord
  BY DEF IInv, ServerSound, Sound, IsRoster, Completed
<1>2. Cardinality(acked) + 1 >= W
  BY DEF AcksTrue, EveryoneAcked
<1>3. acked \subseteq 1..(W - 1)
  <2>1. \A r \in acked : r \in Ranks(roster) /\ r # 0
    BY DEF AcksTrue, Informed
  <2> HIDE DEF W
  <2> QED
    BY <1>1, <2>1
<1> HIDE DEF W
<1>4. acked = 1..(W - 1)
  <2>1. W >= 1
    BY <1>1
  <2>2. IsFiniteSet(1..(W - 1)) /\ Cardinality(1..(W - 1)) = W - 1
    <3>1. 1 \in Int /\ W - 1 \in Int
      BY <1>1
    <3>2. Cardinality(1..(W - 1)) = IF 1 > W - 1 THEN 0 ELSE (W - 1) - 1 + 1
      BY <3>1, FS_Interval
    <3> QED
      BY <1>1, <2>1, <3>1, <3>2, FS_Interval
  <2>3. /\ IsFiniteSet(acked) /\ Cardinality(acked) =< Cardinality(1..(W - 1))
        /\ Cardinality(acked) = Cardinality(1..(W - 1)) => acked = 1..(W - 1)
    BY <1>3, <2>2, FS_Subset
  <2>4. Cardinality(acked) \in Nat
    BY <2>3, FS_CardinalityType
  <2> QED
    BY <1>1, <1>2, <2>2, <2>3, <2>4
<1>5. PICK r \in Ranks(roster) : roster.peers[r] = w
  BY DEF Members, RanksOf
<1>6. r # 0
  BY <1>1, <1>5, AddressAssumption DEF Members
<1>7. r \in acked
  BY <1>1, <1>4, <1>5, <1>6
<1> QED
  BY <1>5, <1>7 DEF AcksTrue, Informed

\* When serve_udp returns before its linger expired every rank has the list, for
\* any number of workers: acknowledgements are counted by rank, so a repeated one
\* counts once, and none is sent without the list (serve_udp, register).
THEOREM ReturnedAfterAll == Spec => []ReturnedMeansInformed
<1>1. Init => AcksTrue
  BY DEF Init, AcksTrue
<1>2. IInv /\ AcksTrue => ReturnedMeansInformed
  BY AckedMeansInformed
<1> QED
  BY <1>1, <1>2, AcksStep, AlwaysSound, PTL DEF Spec

-----------------------------------------------------------------------------
(* The rendezvous as serve() is called: over UDP or over TCP.              *)

\* serve_tcp keeps the roster with the same operations as serve_udp.
LEMMA SameRoster ==
    ASSUME NEW ro, NEW reg, NEW r
    PROVE  /\ T!Refuses(ro, reg) <=> Refuses(ro, reg)
           /\ T!AdmittedRank(ro, reg) = AdmittedRank(ro, reg)
           /\ T!Admit(ro, reg) = Admit(ro, reg)
           /\ T!Full(ro) <=> Full(ro)
           /\ T!Close(ro) = Close(ro)
           /\ T!PeersLine(r, ro) = PeersLine(r, ro)
           /\ T!RanksOf(ro, r) = RanksOf(ro, r)
           /\ T!Open = Open /\ T!R!Pending = R!Pending /\ T!R!Failed = R!Failed
<1>0. \A S : T!Cardinality(S) = Cardinality(S)
  BY DEF T!Cardinality, Cardinality
<1>1. T!Ranks(ro) = Ranks(ro) /\ T!Open = Open
  BY DEF T!Ranks, Ranks, T!Open, Open
<1>2. \A a : T!RanksOf(ro, a) = RanksOf(ro, a)
  BY <1>1 DEF T!RanksOf, RanksOf
<1>3. T!FreeRanks(ro) = FreeRanks(ro) /\ T!NoOpt = NoOpt
  BY <1>1 DEF T!FreeRanks, FreeRanks, T!NoOpt, NoOpt
<1>4. T!Refuses(ro, reg) <=> Refuses(ro, reg)
  BY <1>1, <1>2, <1>3 DEF T!Refuses, T!WorldMismatch, T!NoRankFor, Refuses, WorldMismatch, NoRankFor
<1>5. \A S : T!Least(S) = Least(S)
  BY DEF T!Least, Least
<1>6. T!AdmittedRank(ro, reg) = AdmittedRank(ro, reg)
  BY <1>0, <1>1, <1>2, <1>3, <1>5 DEF T!AdmittedRank, AdmittedRank
<1>7. T!Admit(ro, reg) = Admit(ro, reg)
  BY <1>6 DEF T!Admit, T!Insert, T!Put, Admit, Insert, Put
<1>8. T!PeersLine(r, ro) = PeersLine(r, ro)
  <2>1. \A f, i : T!NthKey(f, i) = NthKey(f, i)
    <3> TAKE f, i
    <3>1. \A q \in DOMAIN f : (T!Cardinality({p \in DOMAIN f : p < q}) = i - 1)
                                <=> (Cardinality({p \in DOMAIN f : p < q}) = i - 1)
      BY <1>0
    <3> QED
      BY <3>1 DEF T!NthKey, NthKey
  <2>2. \A f : T!Values(f) = Values(f)
    BY <1>0, <2>1 DEF T!Values, Values
  <2> QED
    BY <2>2 DEF T!PeersLine, T!List, PeersLine, List
<1>9. (T!Full(ro) <=> Full(ro)) /\ T!Close(ro) = Close(ro)
  BY <1>0, <1>1 DEF T!Full, T!Close, Full, Close
<1>10. T!R!Pending = R!Pending /\ T!R!Failed = R!Failed
  BY DEF T!R!Pending, R!Pending, T!R!Failed, R!Failed
<1> QED
  BY <1>1, <1>2, <1>4, <1>6, <1>7, <1>8, <1>9, <1>10


-----------------------------------------------------------------------------
(* The rendezvous over TCP.                                                *)

\* A worker's connection is in one place at a time: not yet accepted or being read
\* until it is answered or admitted, in `waiting' while it is admitted, closed after.
ConnectionsSound ==
    /\ conn \in [Workers -> {"none", "open", "sent", "waiting", "closed"}]
    /\ backlog \in Seq(Workers)
    /\ \A i \in 1..Len(backlog) :
          conn[backlog[i]] \in {"open", "sent"} /\ backlog[i] \notin reading
    /\ \A i, j \in 1..Len(backlog) : backlog[i] = backlog[j] => i = j
    /\ reading \subseteq Workers
    /\ \A w \in reading : conn[w] \in {"open", "sent"}
    /\ reading # {} => status = "collecting"

\* `waiting' has one entry, with the worker's own rank, for every admitted
\* connection, and serve_tcp returns when all of them are answered.
WaitingSound ==
    /\ waiting \in Seq(Workers \X Nat)
    /\ \A i \in 1..Len(waiting) :
          /\ waiting[i][2] \in Ranks(roster) /\ roster.peers[waiting[i][2]] = waiting[i][1]
          /\ conn[waiting[i][1]] = "waiting"
    /\ \A i, j \in 1..Len(waiting) : waiting[i][1] = waiting[j][1] => i = j
    /\ \A w \in Workers : conn[w] = "waiting" => \E i \in 1..Len(waiting) : waiting[i][1] = w
    /\ status = "returned" => waiting = << >>

\* What was written to a connection is what its worker deserves, and a rank is
\* waiting for its answer or has it.
LinesSound ==
    /\ \A w \in Workers : line[w] # T!NoLine => conn[w] = "closed"
    /\ \A w \in Workers : \/ line[w] = T!NoLine \/ line[w] = T!ErrLine
                          \/ /\ line[w] = [type |-> "RLXPEERS", asg |-> line[w].asg]
                             /\ Deserved(w, line[w].asg)
    /\ \A w \in Members : conn[w] = "waiting" \/ line[w].type = "RLXPEERS"
    /\ line \in [Workers -> {line[w] : w \in Workers}]

TcpInv == ConnectionsSound /\ WaitingSound /\ LinesSound

\* What RendezvousUdp's invariant says holds over TCP as well, where nothing is a
\* datagram.
Streams == net = {} /\ replyTo = << >>

\* The line that is written to one worker's connection.
LEMMA LinesAre ==
    /\ T!NoLine.type = "none" /\ T!ErrLine.type = "RLXERR"
    /\ \A w, r, ro : /\ T!PeersReply(r, ro).type = "RLXPEERS"
                     /\ T!PeersReply(r, ro).asg = PeersLine(r, ro)
                     /\ T!PeersReply(r, ro) = [type |-> "RLXPEERS", asg |-> PeersLine(r, ro)]
    /\ T!NoLine # T!ErrLine
BY SameRoster DEF T!NoLine, T!ErrLine, T!PeersReply

\* Accept, SendReg, ReadTimesOut and Connect move connections and do nothing else.
LEMMA MoveStep ==
    ASSUME TcpInv, IInv, Streams, T!Accept \/ \E w \in Workers : T!Connect(w) \/ T!SendReg(w) \/ T!ReadTimesOut(w)
    PROVE  TcpInv'
<1>0. ConnectionsSound /\ WaitingSound /\ LinesSound
  BY DEF TcpInv
<1>1. UNCHANGED <<roster, status, waiting, line, told>>
  BY DEF T!Accept, T!Connect, T!SendReg, T!ReadTimesOut, T!args
<1>2. \A w, asg : Deserved(w, asg) => Deserved(w, asg)'
  BY <1>1, StillDeserved DEF Completed
<1>3. Members' = Members
  BY <1>1 DEF Members
<1>4. CASE T!Accept
  <2>1. /\ status = "collecting" /\ reading = {} /\ backlog # << >>
        /\ reading' = {Head(backlog)} /\ backlog' = Tail(backlog) /\ UNCHANGED conn
    BY <1>4 DEF T!Accept
  <2>2. /\ Head(backlog) \in Workers /\ Head(backlog) = backlog[1]
        /\ Tail(backlog) \in Seq(Workers) /\ Len(Tail(backlog)) = Len(backlog) - 1
        /\ Len(backlog) \in Nat \ {0}
        /\ \A i \in 1..Len(Tail(backlog)) : Tail(backlog)[i] = backlog[i + 1]
    BY <1>0, <2>1, HeadTailProperties, EmptySeq DEF ConnectionsSound
  <2>3. ConnectionsSound'
    <3>1. \A i \in 1..Len(backlog') : i + 1 \in 1..Len(backlog) /\ 1 \in 1..Len(backlog)
                                      /\ backlog'[i] = backlog[i + 1] /\ i + 1 # 1
      BY <2>1, <2>2
    <3>2. \A i \in 1..Len(backlog') : backlog'[i] \notin reading' /\ conn'[backlog'[i]] \in {"open", "sent"}
      BY <1>0, <2>1, <2>2, <3>1 DEF ConnectionsSound
    <3>3. \A i, j \in 1..Len(backlog') : backlog'[i] = backlog'[j] => i = j
      <4> TAKE i, j \in 1..Len(backlog')
      <4>1. i + 1 = j + 1 => i = j
        OBVIOUS
      <4> QED
        BY <1>0, <3>1, <4>1 DEF ConnectionsSound
    <3>4. reading' \subseteq Workers /\ \A w \in reading' : conn'[w] \in {"open", "sent"}
      BY <1>0, <2>1, <2>2 DEF ConnectionsSound
    <3> QED
      BY <1>0, <1>1, <2>1, <2>2, <3>2, <3>3, <3>4 DEF ConnectionsSound
  <2>4. WaitingSound'
    BY <1>0, <1>1, <2>1 DEF WaitingSound, Ranks
  <2>5. LinesSound'
    BY <1>0, <1>1, <1>2, <1>3, <2>1 DEF LinesSound
  <2> QED
    BY <2>3, <2>4, <2>5 DEF TcpInv
<1>5. ASSUME NEW w \in Workers, T!Connect(w)
      PROVE  TcpInv'
  <2>1. /\ conn[w] = "none" /\ conn' = [conn EXCEPT ![w] = "open"]
        /\ backlog' = Append(backlog, w) /\ UNCHANGED reading
    BY <1>5 DEF T!Connect
  <2>2. /\ conn'[w] = "open" /\ \A v \in Workers \ {w} : conn'[v] = conn[v]
        /\ conn' \in [Workers -> {"none", "open", "sent", "waiting", "closed"}]
    BY <1>0, <2>1 DEF ConnectionsSound
  <2>3. /\ backlog' \in Seq(Workers) /\ Len(backlog') = Len(backlog) + 1 /\ Len(backlog) \in Nat
        /\ \A i \in 1..Len(backlog) : backlog'[i] = backlog[i]
        /\ backlog'[Len(backlog) + 1] = w
    BY <1>0, <2>1, AppendProperties DEF ConnectionsSound
  <2>4. \A i \in 1..Len(backlog) : backlog[i] \in Workers /\ backlog[i] # w
    BY <1>0, <2>1 DEF ConnectionsSound
  <2>5. \A i \in 1..Len(backlog') : i \in 1..Len(backlog) \/ i = Len(backlog) + 1
    BY <2>3
  <2>6. w \notin reading
    BY <1>0, <2>1 DEF ConnectionsSound
  <2>7. ConnectionsSound'
    <3>1. \A i \in 1..Len(backlog') : conn'[backlog'[i]] \in {"open", "sent"} /\ backlog'[i] \notin reading'
      BY <1>0, <2>1, <2>2, <2>3, <2>4, <2>5, <2>6 DEF ConnectionsSound
    <3>2. \A i, j \in 1..Len(backlog') : backlog'[i] = backlog'[j] => i = j
      BY <1>0, <2>3, <2>4, <2>5 DEF ConnectionsSound
    <3>3. \A v \in reading' : conn'[v] \in {"open", "sent"}
      BY <1>0, <2>1, <2>2, <2>6 DEF ConnectionsSound
    <3> QED
      BY <1>0, <1>1, <2>1, <2>2, <2>3, <3>1, <3>2, <3>3 DEF ConnectionsSound
  <2>8. WaitingSound'
    <3>1. \A i \in 1..Len(waiting) : waiting[i][1] \in Workers /\ waiting[i][1] # w
      BY <1>0, <2>1 DEF WaitingSound
    <3> QED
      BY <1>0, <1>1, <2>2, <3>1 DEF WaitingSound, Ranks
  <2>9. LinesSound'
    <3>1. Members \subseteq Workers
      BY DEF Members
    <3>2. line[w] = T!NoLine
      BY <1>0, <2>1 DEF LinesSound
    <3> QED
      BY <1>0, <1>1, <1>2, <1>3, <2>1, <2>2, <3>1, <3>2 DEF LinesSound
  <2> QED
    BY <2>7, <2>8, <2>9 DEF TcpInv
<1>6. ASSUME NEW w \in Workers, T!SendReg(w)
      PROVE  TcpInv'
  <2>1. /\ conn[w] = "open" /\ conn' = [conn EXCEPT ![w] = "sent"]
        /\ UNCHANGED <<backlog, reading>>
    BY <1>6 DEF T!SendReg
  <2>2. /\ conn'[w] = "sent" /\ \A v \in Workers \ {w} : conn'[v] = conn[v]
        /\ conn' \in [Workers -> {"none", "open", "sent", "waiting", "closed"}]
    BY <1>0, <2>1 DEF ConnectionsSound
  <2>3. \A i \in 1..Len(backlog) : backlog[i] \in Workers
    BY <1>0 DEF ConnectionsSound
  <2>7. ConnectionsSound'
    BY <1>0, <1>1, <2>1, <2>2, <2>3 DEF ConnectionsSound
  <2>8. WaitingSound'
    <3>1. \A i \in 1..Len(waiting) : waiting[i][1] \in Workers /\ waiting[i][1] # w
      BY <1>0, <2>1 DEF WaitingSound
    <3> QED
      BY <1>0, <1>1, <2>2, <3>1 DEF WaitingSound, Ranks
  <2>9. LinesSound'
    <3>1. Members \subseteq Workers
      BY DEF Members
    <3>2. line[w] = T!NoLine
      BY <1>0, <2>1 DEF LinesSound
    <3> QED
      BY <1>0, <1>1, <1>2, <1>3, <2>1, <2>2, <3>1, <3>2 DEF LinesSound
  <2> QED
    BY <2>7, <2>8, <2>9 DEF TcpInv
<1>7. ASSUME NEW w \in Workers, T!ReadTimesOut(w)
      PROVE  TcpInv'
  <2>1. /\ w \in reading /\ conn[w] = "open" /\ conn' = [conn EXCEPT ![w] = "closed"]
        /\ reading' = {} /\ UNCHANGED backlog
    BY <1>7 DEF T!ReadTimesOut
  <2>2. /\ conn'[w] = "closed" /\ \A v \in Workers \ {w} : conn'[v] = conn[v]
        /\ conn' \in [Workers -> {"none", "open", "sent", "waiting", "closed"}]
    BY <1>0, <2>1 DEF ConnectionsSound
  <2>3. \A i \in 1..Len(backlog) : backlog[i] \in Workers /\ backlog[i] # w
    BY <1>0, <2>1 DEF ConnectionsSound
  <2>7. ConnectionsSound'
    BY <1>0, <1>1, <2>1, <2>2, <2>3 DEF ConnectionsSound
  <2>8. WaitingSound'
    <3>1. \A i \in 1..Len(waiting) : waiting[i][1] \in Workers /\ waiting[i][1] # w
      BY <1>0, <2>1 DEF WaitingSound
    <3> QED
      BY <1>0, <1>1, <2>2, <3>1 DEF WaitingSound, Ranks
  <2>9. LinesSound'
    <3>1. Members \subseteq Workers
      BY DEF Members
    <3>2. line[w] = T!NoLine
      BY <1>0, <2>1 DEF LinesSound
    <3> QED
      BY <1>0, <1>1, <1>2, <1>3, <2>1, <2>2, <3>1, <3>2 DEF LinesSound
  <2> QED
    BY <2>7, <2>8, <2>9 DEF TcpInv
<1> QED
  BY <1>4, <1>5, <1>6, <1>7


\* A step over TCP that leaves the roster alone keeps what both protocols promise.
LEMMA RosterAlone ==
    ASSUME IInv, Streams, UNCHANGED udpOnly, UNCHANGED <<worldArg, want, roster>>,
           status' = status \/ status' = "timedout" \/ (status = "done" /\ status' = "returned"),
           Completed => Completed',
           told' \in [Workers -> Answer],
           \A w \in Workers : told'[w].st = "assigned" => Deserved(w, told'[w])
    PROVE  IInv' /\ RosterKept
<1>1. UNCHANGED <<net, replyTo>> /\ net = {}
  BY DEF udpOnly, Streams
<1>2. \A w, asg : Deserved(w, asg) => Deserved(w, asg)'
  BY StillDeserved
<1>3. ServerSound'
  BY <1>1 DEF IInv, ServerSound, Completed, Ranks
<1>4. AnswersSound'
  BY <1>1, <1>2 DEF AnswersSound
<1> QED
  BY <1>3, <1>4 DEF IInv, RosterKept, Ranks

\* serve_tcp's handling of a registration: the connection is refused, or admitted.
LEMMA ReadRegStep ==
    ASSUME TcpInv, IInv, Streams, UNCHANGED udpOnly, NEW w \in Workers, T!ReadReg(w)
    PROVE  TcpInv' /\ IInv' /\ RosterKept
<1> DEFINE reg == RegMsg(w).reg
           r0  == AdmittedRank(roster, reg)
           ro  == Admit(roster, reg)
<1>0. /\ ConnectionsSound /\ WaitingSound /\ LinesSound /\ ServerSound /\ AnswersSound
      /\ net = {} /\ replyTo = << >>
  BY DEF TcpInv, IInv, Streams
<1>1. /\ w \in reading /\ reading' = {} /\ status = "collecting"
      /\ UNCHANGED <<worldArg, want, backlog, told>>
  BY <1>0 DEF T!ReadReg, T!args, ConnectionsSound
<1>2. T!RegOf(w) = reg
  BY DEF T!RegOf, RegMsg
<1>3. conn[w] \in {"open", "sent"} /\ line[w] = T!NoLine /\ w \notin Members
  BY <1>0, <1>1, LinesAre DEF ConnectionsSound, LinesSound
<1>4. \A i \in 1..Len(backlog) : backlog[i] \in Workers /\ backlog[i] # w
  BY <1>0, <1>1 DEF ConnectionsSound
<1>5. \A i \in 1..Len(waiting) : waiting[i][1] \in Workers /\ waiting[i][1] # w
  BY <1>0, <1>3 DEF WaitingSound
<1>6. \A v \in Workers : ~(told[v].st = "assigned") /\ line[v].type # "RLXPEERS"
                         /\ (line[v] = T!NoLine \/ line[v] = T!ErrLine)
  BY <1>0, <1>1, LinesAre DEF AnswersSound, LinesSound, Deserved, Deserves
<1>7. Members \subseteq Workers
  BY DEF Members
<1>8. CASE conn[w] # "sent" \/ Refuses(roster, reg)
  <2>1. /\ line' = [line EXCEPT ![w] = T!ErrLine] /\ conn' = [conn EXCEPT ![w] = "closed"]
        /\ UNCHANGED <<roster, status, waiting>>
    BY <1>2, <1>8, SameRoster DEF T!ReadReg
  <2>2. /\ conn'[w] = "closed" /\ \A v \in Workers \ {w} : conn'[v] = conn[v]
        /\ conn' \in [Workers -> {"none", "open", "sent", "waiting", "closed"}]
    BY <1>0, <2>1 DEF ConnectionsSound
  <2>3. ConnectionsSound'
    BY <1>0, <1>1, <1>4, <2>1, <2>2 DEF ConnectionsSound
  <2>4. WaitingSound'
    BY <1>0, <1>3, <1>5, <2>1, <2>2 DEF WaitingSound, Ranks
  <2>5. LinesSound'
    <3>1. Members' = Members
      BY <2>1 DEF Members
    <3>2. line'[w] = T!ErrLine /\ \A v \in Workers \ {w} : line'[v] = line[v]
      BY <1>0, <2>1 DEF LinesSound
    <3>3. line' \in [Workers -> {line'[v] : v \in Workers}]
      BY <1>0, <2>1 DEF LinesSound
    <3>4. \A v \in Workers : line'[v] = T!NoLine \/ line'[v] = T!ErrLine
      BY <1>6, <3>2
    <3>5. \A v \in Workers : line'[v] # T!NoLine => conn'[v] = "closed"
      BY <1>0, <2>2, <3>2 DEF LinesSound
    <3>6. \A v \in Members' : conn'[v] = "waiting" \/ line'[v].type = "RLXPEERS"
      BY <1>0, <1>3, <1>7, <2>2, <3>1, <3>2 DEF LinesSound
    <3> QED
      BY <3>3, <3>4, <3>5, <3>6 DEF LinesSound
  <2>6. IInv' /\ RosterKept
    BY <1>0, <1>1, <1>6, <2>1, RosterAlone DEF AnswersSound, Completed
  <2> QED
    BY <2>3, <2>4, <2>5, <2>6 DEF TcpInv
<1>9. CASE conn[w] = "sent" /\ ~Refuses(roster, reg)
  <2>1. /\ roster' = ro /\ waiting' = Append(waiting, <<w, r0>>)
        /\ conn' = [conn EXCEPT ![w] = "waiting"]
        /\ status' = IF Full(ro) THEN "done" ELSE status
        /\ UNCHANGED line
    <3>1. ~(conn[w] # "sent" \/ T!Refuses(roster, T!RegOf(w)))
      BY <1>2, <1>9, SameRoster
    <3>2. /\ roster' = T!Admit(roster, T!RegOf(w))
          /\ waiting' = Append(waiting, <<w, T!AdmittedRank(roster, T!RegOf(w))>>)
          /\ conn' = [conn EXCEPT ![w] = "waiting"]
          /\ status' = IF T!Full(T!Admit(roster, T!RegOf(w))) THEN "done" ELSE status
          /\ UNCHANGED line
      BY <3>1 DEF T!ReadReg
    <3>3. /\ T!Admit(roster, reg) = ro /\ T!AdmittedRank(roster, reg) = r0
          /\ (T!Full(ro) <=> Full(ro))
      BY SameRoster
    <3> HIDE DEF reg, ro, r0
    <3> QED
      BY <1>2, <3>2, <3>3
  <2>2. /\ conn'[w] = "waiting" /\ \A v \in Workers \ {w} : conn'[v] = conn[v]
        /\ conn' \in [Workers -> {"none", "open", "sent", "waiting", "closed"}]
    BY <1>0, <2>1 DEF ConnectionsSound
  <2>3. ConnectionsSound'
    BY <1>0, <1>1, <1>4, <2>1, <2>2 DEF ConnectionsSound
  <2>4. /\ RosterKept
        /\ Sound(roster') /\ roster'.world = roster.world /\ roster'.peers[0] = Coord
        /\ \A q, r \in Ranks(roster') : roster'.peers[q] = roster'.peers[r] => q = r
        /\ r0 \in Ranks(roster') /\ roster'.peers[r0] = w
    BY <1>0, <1>1, <1>9, <2>1, AdmitStep
  <2>5. r0 \in Nat
    BY <2>4 DEF Sound, IsRoster, RankMap, Ranks
  <2>6. /\ waiting' \in Seq(Workers \X Nat) /\ Len(waiting') = Len(waiting) + 1
        /\ Len(waiting) \in Nat
        /\ \A i \in 1..Len(waiting) : waiting'[i] = waiting[i]
        /\ waiting'[Len(waiting) + 1] = <<w, r0>>
    <3>1. <<w, r0>> \in Workers \X Nat
      BY <2>5
    <3> HIDE DEF r0
    <3> QED
      BY <1>0, <2>1, <3>1, AppendProperties DEF WaitingSound
  <2>7. WaitingSound'
    <3> HIDE DEF r0, ro, reg
    <3>1. \A i \in 1..Len(waiting') : i \in 1..Len(waiting) \/ i = Len(waiting) + 1
      BY <2>6
    <3>2. waiting'[Len(waiting) + 1][1] = w /\ waiting'[Len(waiting) + 1][2] = r0
      BY <2>6
    <3>3. \A i \in 1..Len(waiting') :
             /\ waiting'[i][2] \in Ranks(roster')
             /\ roster'.peers[waiting'[i][2]] = waiting'[i][1]
             /\ conn'[waiting'[i][1]] = "waiting"
      <4> TAKE i \in 1..Len(waiting')
      <4>1. CASE i = Len(waiting) + 1
        BY <2>2, <2>4, <3>2, <4>1
      <4>2. CASE i \in 1..Len(waiting)
        <5>1. waiting'[i] = waiting[i] /\ waiting[i][1] \in Workers \ {w}
          BY <1>5, <2>6, <4>2
        <5>2. conn'[waiting'[i][1]] = "waiting"
          BY <1>0, <2>2, <4>2, <5>1 DEF WaitingSound
        <5>3. /\ waiting[i][2] \in Ranks(roster)
              /\ roster.peers[waiting[i][2]] = waiting[i][1]
          BY <1>0, <4>2 DEF WaitingSound
        <5>4. /\ waiting[i][2] \in Ranks(roster')
              /\ roster'.peers[waiting[i][2]] = waiting[i][1]
          BY <2>4, <5>3 DEF RosterKept
        <5> QED
          BY <5>1, <5>2, <5>4
      <4> QED
        BY <3>1, <4>1, <4>2
    <3>4. \A i, j \in 1..Len(waiting') : waiting'[i][1] = waiting'[j][1] => i = j
      <4>1. \A i \in 1..Len(waiting) : waiting'[i][1] = waiting[i][1] /\ waiting'[i][1] # w
        BY <1>5, <2>6
      <4> QED
        BY <1>0, <3>1, <3>2, <4>1 DEF WaitingSound
    <3>5. ASSUME NEW v \in Workers, conn'[v] = "waiting"
          PROVE  \E i \in 1..Len(waiting') : waiting'[i][1] = v
      <4>1. CASE v = w
        <5>1. Len(waiting) + 1 \in 1..Len(waiting')
          BY <2>6
        <5> QED
          BY <2>6, <3>2, <4>1, <5>1
      <4>2. CASE v # w
        <5>1. PICK i \in 1..Len(waiting) : waiting[i][1] = v
          BY <1>0, <2>2, <3>5, <4>2 DEF WaitingSound
        <5>2. i \in 1..Len(waiting')
          BY <2>6
        <5> QED
          BY <2>6, <5>1, <5>2
      <4> QED
        BY <4>1, <4>2
    <3>6. status' # "returned"
      BY <1>1, <2>1
    <3> QED
      BY <2>6, <3>3, <3>4, <3>5, <3>6 DEF WaitingSound
  <2>8. LinesSound'
    <3>1. \A v \in Members' : v \in Members \/ v = w
      <4>1. reg \in Reg /\ reg.addr = w
        BY <1>0, RegTyped
      <4>2. /\ Ranks(roster') = Ranks(roster) \cup {r0}
            /\ \A r \in Ranks(roster) : roster'.peers[r] = roster.peers[r]
        BY <1>0, <1>9, <2>1, <4>1, AdmitIs DEF ServerSound
      <4> HIDE DEF r0, ro, reg
      <4> QED
        BY <2>4, <4>2 DEF Members, RanksOf
    <3>2. \A v \in Workers : line'[v] # T!NoLine => conn'[v] = "closed"
      BY <1>0, <1>3, <2>1, <2>2 DEF LinesSound
    <3>3. \A v \in Members' : conn'[v] = "waiting" \/ line'[v].type = "RLXPEERS"
      BY <1>0, <1>3, <1>7, <2>1, <2>2, <3>1 DEF LinesSound
    <3> HIDE DEF r0, ro, reg
    <3> QED
      BY <1>0, <1>6, <2>1, <3>2, <3>3 DEF LinesSound
  <2>9. ServerSound'
    <3>1. /\ worldArg' \in WorldArgs /\ want' \in [Workers -> Wants]
          /\ status' \in {"collecting", "done", "returned", "timedout"}
      BY <1>0, <1>1, <2>1 DEF ServerSound
    <3>2. status' = "collecting" => roster'.world = worldArg'
      BY <1>0, <1>1, <2>4 DEF ServerSound
    <3>3. ASSUME status' = "done"
          PROVE  roster'.world # Open /\ Ranks(roster') = 0..(roster'.world - 1)
      <4>1. Full(roster')
        BY <1>1, <2>1, <3>3
      <4>2. roster'.world # Open
        <5>1. IsFiniteSet(Ranks(roster')) /\ 0 \in Ranks(roster')
          BY <2>4 DEF Sound, IsRoster, RankMap, Ranks
        <5>2. Cardinality(Ranks(roster')) # 0
          BY <5>1, FS_EmptySet
        <5> QED
          BY <4>1, <5>2 DEF Full, Open
      <4> QED
        BY <2>4, <4>1, <4>2, FullMeansAll
    <3>4. Completed' => status' = "done"
      BY <1>1, <2>1 DEF Completed
    <3>5. replyTo' = << >>
      BY <1>0 DEF udpOnly
    <3>6. \A r \in DOMAIN replyTo' : r \in Ranks(roster') /\ replyTo'[r] = roster'.peers[r]
      BY <3>5
    <3> HIDE DEF r0, ro, reg
    <3> QED
      BY <2>4, <3>1, <3>2, <3>3, <3>4, <3>6 DEF ServerSound
  <2>10. AnswersSound'
    BY <1>0, <1>1, <1>6 DEF AnswersSound, udpOnly
  <2> QED
    BY <2>3, <2>4, <2>7, <2>8, <2>9, <2>10 DEF TcpInv, IInv
<1> QED
  BY <1>3, <1>8, <1>9


\* One turn of the reply loop: the next connection of `waiting' is written its list.
LEMMA ReplyStep ==
    ASSUME TcpInv, IInv, Streams, UNCHANGED udpOnly, T!Reply
    PROVE  TcpInv' /\ IInv' /\ RosterKept
<1> DEFINE w == Head(waiting)[1]
           r == Head(waiting)[2]
<1>0. /\ ConnectionsSound /\ WaitingSound /\ LinesSound /\ ServerSound /\ AnswersSound
  BY DEF TcpInv, IInv
<1>1. /\ status = "done" /\ waiting # << >>
      /\ line' = [line EXCEPT ![w] = T!PeersReply(r, roster)]
      /\ conn' = [conn EXCEPT ![w] = "closed"]
      /\ waiting' = Tail(waiting)
      /\ UNCHANGED <<worldArg, want, roster, status, backlog, reading, told>>
  BY DEF T!Reply, T!args
<1>2. /\ Head(waiting) = waiting[1] /\ Len(waiting) \in Nat \ {0}
      /\ Tail(waiting) \in Seq(Workers \X Nat) /\ Len(Tail(waiting)) = Len(waiting) - 1
      /\ \A i \in 1..Len(Tail(waiting)) : Tail(waiting)[i] = waiting[i + 1]
  <2>1. waiting \in Seq(Workers \X Nat) /\ waiting # << >>
    BY <1>0, <1>1 DEF WaitingSound
  <2> QED
    BY <2>1, HeadTailProperties, EmptySeq
<1>3. /\ w = waiting[1][1] /\ r = waiting[1][2] /\ 1 \in 1..Len(waiting)
      /\ w \in Workers /\ r \in Ranks(roster) /\ roster.peers[r] = w /\ conn[w] = "waiting"
  BY <1>0, <1>2 DEF WaitingSound
<1> HIDE DEF w, r
<1>4. /\ conn'[w] = "closed" /\ \A v \in Workers \ {w} : conn'[v] = conn[v]
      /\ conn' \in [Workers -> {"none", "open", "sent", "waiting", "closed"}]
  BY <1>0, <1>1, <1>3 DEF ConnectionsSound
<1>5. \A i \in 1..Len(waiting') :
         i + 1 \in 1..Len(waiting) /\ waiting'[i] = waiting[i + 1] /\ i + 1 # 1
  BY <1>1, <1>2
<1>6. \A i \in 1..Len(waiting') : waiting'[i][1] \in Workers \ {w}
  <2> TAKE i \in 1..Len(waiting')
  <2>1. i + 1 \in 1..Len(waiting) /\ waiting'[i] = waiting[i + 1] /\ i + 1 # 1
    BY <1>5
  <2>2. waiting[i + 1] \in Workers \X Nat
    BY <1>0, <2>1 DEF WaitingSound
  <2>3. waiting[i + 1][1] # waiting[1][1]
    BY <1>0, <1>3, <2>1 DEF WaitingSound
  <2> QED
    BY <1>3, <2>1, <2>2, <2>3
<1>7. ConnectionsSound'
  <2>1. \A i \in 1..Len(backlog) : backlog[i] \in Workers /\ backlog[i] # w
    BY <1>0, <1>3 DEF ConnectionsSound
  <2>2. w \notin reading
    BY <1>0, <1>3 DEF ConnectionsSound
  <2> QED
    BY <1>0, <1>1, <1>4, <2>1, <2>2 DEF ConnectionsSound
<1>8. WaitingSound'
  <2>1. \A i \in 1..Len(waiting') :
           /\ waiting'[i][2] \in Ranks(roster')
           /\ roster'.peers[waiting'[i][2]] = waiting'[i][1]
           /\ conn'[waiting'[i][1]] = "waiting"
    <3> TAKE i \in 1..Len(waiting')
    <3>1. /\ waiting[i + 1][2] \in Ranks(roster)
          /\ roster.peers[waiting[i + 1][2]] = waiting[i + 1][1]
          /\ conn[waiting[i + 1][1]] = "waiting"
      BY <1>0, <1>5 DEF WaitingSound
    <3> QED
      BY <1>1, <1>4, <1>5, <1>6, <3>1
  <2>2. \A i, j \in 1..Len(waiting') : waiting'[i][1] = waiting'[j][1] => i = j
    <3> TAKE i, j \in 1..Len(waiting')
    <3>1. i + 1 = j + 1 => i = j
      OBVIOUS
    <3>2. /\ i + 1 \in 1..Len(waiting) /\ waiting'[i] = waiting[i + 1]
          /\ j + 1 \in 1..Len(waiting) /\ waiting'[j] = waiting[j + 1]
      BY <1>5
    <3>3. \A k, m \in 1..Len(waiting) : waiting[k][1] = waiting[m][1] => k = m
      BY <1>0 DEF WaitingSound
    <3>4. waiting[i + 1][1] = waiting[j + 1][1] => i + 1 = j + 1
      BY <3>2, <3>3
    <3> QED
      BY <3>1, <3>2, <3>4
  <2>3. ASSUME NEW v \in Workers, conn'[v] = "waiting"
        PROVE  \E i \in 1..Len(waiting') : waiting'[i][1] = v
    <3>1. v # w /\ conn[v] = "waiting"
      BY <1>4, <2>3
    <3>2. PICK j \in 1..Len(waiting) : waiting[j][1] = v
      BY <1>0, <3>1 DEF WaitingSound
    <3>3. j # 1
      BY <1>3, <3>1, <3>2
    <3>4. j - 1 \in 1..Len(waiting') /\ (j - 1) + 1 = j
      BY <1>1, <1>2, <3>3
    <3> QED
      BY <1>5, <3>2, <3>4
  <2> QED
    BY <1>1, <1>2, <2>1, <2>2, <2>3 DEF WaitingSound
<1>9. LinesSound'
  <2>1. /\ line'[w] = T!PeersReply(r, roster) /\ \A v \in Workers \ {w} : line'[v] = line[v]
        /\ line' \in [Workers -> {line'[v] : v \in Workers}]
    BY <1>0, <1>1, <1>3 DEF LinesSound
  <2>2. Deserved(w, PeersLine(r, roster))
    BY <1>1, <1>3 DEF Deserved, Deserves
  <2>3. \A v, asg : Deserved(v, asg) => Deserved(v, asg)'
    BY <1>1, StillDeserved DEF Completed
  <2>4. /\ line'[w] = [type |-> "RLXPEERS", asg |-> line'[w].asg]
        /\ line'[w].asg = PeersLine(r, roster) /\ line'[w].type = "RLXPEERS"
    BY <2>1, LinesAre
  <2>5. Members' = Members /\ Members \subseteq Workers
    BY <1>1 DEF Members
  <2>6. \A v \in Workers : \/ line'[v] = T!NoLine \/ line'[v] = T!ErrLine
                           \/ /\ line'[v] = [type |-> "RLXPEERS", asg |-> line'[v].asg]
                              /\ Deserved(v, line'[v].asg)
    BY <1>0, <2>1, <2>2, <2>4 DEF LinesSound
  <2>7. \A v \in Workers : line'[v] # T!NoLine => conn'[v] = "closed"
    BY <1>0, <1>4, <2>1 DEF LinesSound
  <2>8. \A v \in Members' : conn'[v] = "waiting" \/ line'[v].type = "RLXPEERS"
    BY <1>0, <1>4, <2>1, <2>4, <2>5 DEF LinesSound
  <2>9. \A v \in Workers : \/ line'[v] = T!NoLine \/ line'[v] = T!ErrLine
                           \/ /\ line'[v] = [type |-> "RLXPEERS", asg |-> line'[v].asg]
                              /\ Deserves(v, line'[v].asg, status', roster')
    BY <1>1, <2>6 DEF Deserved
  <2> QED
    BY <2>1, <2>7, <2>8, <2>9 DEF LinesSound, Deserved
<1>10. IInv' /\ RosterKept
  BY <1>0, <1>1, RosterAlone DEF AnswersSound, Completed
<1> QED
  BY <1>7, <1>8, <1>9, <1>10 DEF TcpInv

\* serve_tcp's deadlines and its return.
LEMMA TcpEnds ==
    ASSUME TcpInv, IInv, Streams, UNCHANGED udpOnly,
           T!WindowEnds \/ T!ServeTimesOut \/ T!ServeReturns
    PROVE  TcpInv' /\ IInv' /\ RosterKept
<1>0. /\ ConnectionsSound /\ WaitingSound /\ LinesSound /\ ServerSound /\ AnswersSound
  BY DEF TcpInv, IInv
<1>1. UNCHANGED <<worldArg, want, told, backlog, reading, waiting, conn, line>>
  BY DEF T!WindowEnds, T!ServeTimesOut, T!ServeReturns, T!args, T!sockets
<1>2. CASE T!ServeTimesOut \/ T!ServeReturns
  <2>1. /\ UNCHANGED roster
        /\ \/ status = "collecting" /\ status' = "timedout" /\ reading = {}
           \/ status = "done" /\ status' = "returned" /\ waiting = << >>
    BY <1>2 DEF T!ServeTimesOut, T!ServeReturns
  <2>2. Completed => Completed'
    BY <2>1 DEF Completed
  <2>3. \A w, asg : Deserved(w, asg) => Deserved(w, asg)'
    BY <2>1, <2>2, StillDeserved
  <2>4. IInv' /\ RosterKept
    BY <1>0, <1>1, <2>1, <2>2, RosterAlone DEF AnswersSound
  <2>5. ConnectionsSound'
    <3>1. reading = {}
      BY <1>0, <2>1 DEF ConnectionsSound
    <3> QED
      BY <1>0, <1>1, <3>1 DEF ConnectionsSound
  <2>6. WaitingSound'
    BY <1>0, <1>1, <2>1 DEF WaitingSound, Ranks
  <2>7. LinesSound'
    <3>1. Members' = Members
      BY <2>1 DEF Members
    <3> QED
      BY <1>0, <1>1, <2>3, <3>1 DEF LinesSound
  <2> QED
    BY <2>4, <2>5, <2>6, <2>7 DEF TcpInv
<1>3. CASE T!WindowEnds
  <2>1. /\ status = "collecting" /\ reading = {} /\ worldArg = Open
        /\ roster' = Close(roster) /\ status' = "done"
    BY <1>3, SameRoster DEF T!WindowEnds
  <2>2. roster.world = Open /\ Sound(roster)
    BY <1>0, <2>1 DEF ServerSound
  <2>3. /\ Sound(roster') /\ roster'.peers = roster.peers /\ roster'.world # Open
        /\ Ranks(roster') = 0..(roster'.world - 1)
    BY <2>1, <2>2, CloseSound
  <2>4. Ranks(roster') = Ranks(roster)
    BY <2>3 DEF Ranks
  <2>5. /\ \A v \in Workers : ~(told[v].st = "assigned")
        /\ \A v \in Workers : line[v] = T!NoLine \/ line[v] = T!ErrLine
    BY <1>0, <2>1 DEF AnswersSound, LinesSound, Deserved, Deserves
  <2>6. UNCHANGED <<net, replyTo>> /\ net = {} /\ replyTo = << >>
    BY DEF udpOnly, Streams
  <2>7. ServerSound'
    BY <1>0, <1>1, <2>1, <2>3, <2>4, <2>6 DEF ServerSound, Completed
  <2>8. AnswersSound'
    BY <1>0, <1>1, <2>5, <2>6 DEF AnswersSound
  <2>9. RosterKept
    BY <2>1, <2>3, <2>4 DEF RosterKept
  <2>10. ConnectionsSound'
    BY <1>0, <1>1, <2>1 DEF ConnectionsSound
  <2>11. WaitingSound'
    BY <1>0, <1>1, <2>1, <2>3, <2>4 DEF WaitingSound
  <2>12. LinesSound'
    <3>1. Members' = Members
      BY <2>3, <2>4 DEF Members, RanksOf
    <3> QED
      BY <1>0, <1>1, <2>5, <3>1 DEF LinesSound
  <2> QED
    BY <2>7, <2>8, <2>9, <2>10, <2>11, <2>12 DEF TcpInv, IInv
<1> QED
  BY <1>2, <1>3

\* What a worker's register() returns over TCP: what it deserves, or a failure.
LEMMA TcpTold ==
    ASSUME TcpInv, IInv, NEW w \in Workers,
           T!RecvLine(w) \/ T!RecvEof(w) \/ T!RegisterTimesOut(w)
    PROVE  /\ told[w] = R!Pending
           /\ \/ told' = [told EXCEPT ![w] = R!Failed]
              \/ \E asg : Deserved(w, asg) /\ told' = [told EXCEPT ![w] = asg]
           /\ UNCHANGED <<worldArg, want, roster, status, backlog, reading, waiting, conn, line>>
<1>1. told[w] = R!Pending
  BY SameRoster DEF T!RecvLine, T!RecvEof, T!RegisterTimesOut
<1>2. UNCHANGED <<worldArg, want, roster, status, backlog, reading, waiting, conn, line>>
  BY DEF T!RecvLine, T!RecvEof, T!RegisterTimesOut, T!args, T!sockets
<1>3. CASE T!RecvLine(w)
  <2>1. /\ line[w] # T!NoLine
        /\ told' = [told EXCEPT ![w] = IF line[w] = T!ErrLine THEN R!Failed ELSE line[w].asg]
    BY <1>3, SameRoster DEF T!RecvLine
  <2>2. line[w] # T!ErrLine => Deserved(w, line[w].asg)
    BY <2>1 DEF TcpInv, LinesSound
  <2> QED
    BY <1>1, <1>2, <2>1, <2>2
<1>4. CASE T!RecvEof(w) \/ T!RegisterTimesOut(w)
  <2>1. told' = [told EXCEPT ![w] = R!Failed]
    BY <1>4, SameRoster DEF T!RecvEof, T!RegisterTimesOut
  <2> QED
    BY <1>1, <1>2, <2>1
<1> QED
  BY <1>3, <1>4

\* It keeps the invariant.
LEMMA ToldKept ==
    ASSUME TcpInv, IInv, Streams, UNCHANGED udpOnly, NEW w \in Workers,
           T!RecvLine(w) \/ T!RecvEof(w) \/ T!RegisterTimesOut(w)
    PROVE  TcpInv' /\ IInv' /\ RosterKept
<1>1. /\ \/ told' = [told EXCEPT ![w] = R!Failed]
         \/ \E asg : Deserved(w, asg) /\ told' = [told EXCEPT ![w] = asg]
      /\ UNCHANGED <<worldArg, want, roster, status, backlog, reading, waiting, conn, line>>
  BY TcpTold
<1>2. \A v, asg : Deserved(v, asg) => Deserved(v, asg)'
  BY <1>1, StillDeserved DEF Completed
<1>3. \A asg : Deserved(w, asg) => asg \in Answer
  <2> SUFFICES ASSUME NEW asg, Deserved(w, asg)
               PROVE  asg \in Answer
    OBVIOUS
  <2>1. /\ asg.rank \in Ranks(roster)
        /\ asg = [st |-> "assigned", rank |-> asg.rank, world |-> roster.world,
                  peers |-> List(roster)]
        /\ List(roster) \in Seq(Addr)
    BY AnsweredHolds
  <2>2. Ranks(roster) \subseteq Nat /\ roster.world \in Nat
    BY DEF IInv, ServerSound, Sound, IsRoster, RankMap, Ranks
  <2> QED
    BY <2>1, <2>2 DEF Answer
<1>4. told \in [Workers -> Answer] /\ \A v \in Workers : told[v].st = "assigned" => Deserved(v, told[v])
  BY DEF IInv, AnswersSound
<1>5. R!Failed \in Answer /\ R!Failed.st # "assigned"
  BY DEF Answer, R!Failed
<1>6. told' \in [Workers -> Answer]
  BY <1>1, <1>3, <1>4, <1>5
<1>7. \A v \in Workers : told'[v].st = "assigned" => Deserved(v, told'[v])
  BY <1>1, <1>4, <1>5
<1>8. IInv' /\ RosterKept
  BY <1>1, <1>6, <1>7, RosterAlone DEF Completed
<1>9. Members' = Members
  BY <1>1 DEF Members
<1>10. ConnectionsSound'
  BY <1>1 DEF TcpInv, ConnectionsSound
<1>11. WaitingSound'
  BY <1>1 DEF TcpInv, WaitingSound, Ranks
<1>12. LinesSound'
  BY <1>1, <1>2, <1>9 DEF TcpInv, LinesSound
<1> QED
  BY <1>8, <1>10, <1>11, <1>12 DEF TcpInv


\* A worker is told the list with its own position, or that it has failed.
LEMMA ToldRefines ==
    ASSUME IInv, NEW w \in Workers, told[w] = R!Pending, UNCHANGED <<status, roster>>,
           \/ told' = [told EXCEPT ![w] = R!Failed]
           \/ \E asg : Deserved(w, asg) /\ told' = [told EXCEPT ![w] = asg]
    PROVE  R!Next
<1>2. Agreed' = Agreed
  BY DEF Agreed
<1>3. CASE told' = [told EXCEPT ![w] = R!Failed]
  <2>2. R!Fail(w)
    BY <1>2, <1>3 DEF R!Fail, Agreed
  <2> QED
    BY <2>2 DEF R!Next
<1>4. ASSUME NEW asg, Deserved(w, asg), told' = [told EXCEPT ![w] = asg]
      PROVE  R!Next
  <2>3. Agreed = List(roster)
    BY <1>4 DEF Agreed, Deserved, Deserves
  <2>4. /\ asg.rank \in Ranks(roster) /\ roster.peers[asg.rank] = w
        /\ asg = [st |-> "assigned", rank |-> asg.rank, world |-> roster.world,
                  peers |-> List(roster)]
        /\ Len(List(roster)) = roster.world
        /\ \A r \in Ranks(roster) : List(roster)[r + 1] = roster.peers[r]
    BY <1>4, AnsweredHolds
  <2>5. IsRoster(roster) /\ Ranks(roster) = 0..(roster.world - 1)
    BY <1>4 DEF IInv, ServerSound, Sound, Deserved, Deserves, Completed
  <2> DEFINE i == asg.rank + 1
  <2>6. i \in 1..Len(Agreed) /\ i - 1 = asg.rank /\ Agreed[i] = w
    BY <2>3, <2>4, <2>5 DEF IsRoster
  <2>7. asg = R!Assigned(i - 1, Agreed)
    BY <2>3, <2>4, <2>6 DEF R!Assigned
  <2> HIDE DEF i
  <2>8. R!Tell(w)
    BY <1>2, <1>4, <2>6, <2>7 DEF R!Tell, Agreed
  <2> QED
    BY <2>8 DEF R!Next
<1> QED
  BY <1>3, <1>4

\* Every step of serve_tcp or of a worker over TCP keeps the invariant, the ranks
\* handed out, and is a step of the rendezvous.
LEMMA TcpStep ==
    ASSUME TcpInv, IInv, Streams, UNCHANGED udpOnly, T!Next
    PROVE  /\ TcpInv' /\ IInv' /\ Streams' /\ RosterKept
           /\ R!Next \/ UNCHANGED R!vars
<1>0. Streams'
  BY DEF Streams, udpOnly
<1>1. ASSUME T!Accept \/ \E w \in Workers : T!Connect(w) \/ T!SendReg(w) \/ T!ReadTimesOut(w)
      PROVE  TcpInv' /\ IInv' /\ RosterKept /\ UNCHANGED <<status, told>>
  <2>1. UNCHANGED <<worldArg, want, roster, status, told>>
    BY <1>1 DEF T!Accept, T!Connect, T!SendReg, T!ReadTimesOut, T!args
  <2>2. IInv' /\ RosterKept
    BY <2>1, RosterAlone DEF IInv, AnswersSound, Completed
  <2> QED
    BY <1>1, <2>1, <2>2, MoveStep
<1>2. ASSUME NEW w \in Workers, T!RecvLine(w) \/ T!RecvEof(w) \/ T!RegisterTimesOut(w)
      PROVE  TcpInv' /\ IInv' /\ RosterKept /\ R!Next
  BY <1>2, TcpTold, ToldKept, ToldRefines
<1>3. ASSUME NEW w \in Workers, T!ReadReg(w)
      PROVE  /\ TcpInv' /\ IInv' /\ RosterKept /\ UNCHANGED told
             /\ Completed => Completed'
  <2>1. UNCHANGED told /\ status = "collecting"
    BY <1>3 DEF T!ReadReg, TcpInv, ConnectionsSound
  <2> QED
    BY <1>3, <2>1, ReadRegStep DEF Completed
<1>4. ASSUME T!WindowEnds \/ T!ServeTimesOut \/ T!ServeReturns \/ T!Reply
      PROVE  /\ TcpInv' /\ IInv' /\ RosterKept /\ UNCHANGED told
             /\ Completed => Completed'
  <2>1. UNCHANGED told /\ (Completed => Completed')
    BY <1>4 DEF T!WindowEnds, T!ServeTimesOut, T!ServeReturns, T!Reply, T!sockets, Completed
  <2> QED
    BY <1>4, <2>1, ReplyStep, TcpEnds
<1>5. (IInv' /\ RosterKept /\ UNCHANGED told /\ (Completed => Completed'))
         => R!Next \/ UNCHANGED R!vars
  BY AgreeStep
<1>6. UNCHANGED status => (Completed => Completed')
  BY DEF Completed
<1> QED
  BY <1>0, <1>1, <1>2, <1>3, <1>4, <1>5, <1>6 DEF T!Next

-----------------------------------------------------------------------------
(* serve and register, over either protocol.                               *)

\* The inductive invariant of both: rank 0 and its answers are sound whatever
\* carries them, the acknowledgements and refusals over UDP, the connections over TCP.
ServeInv ==
    /\ proto \in {"udp", "tcp"}
    /\ IInv
    /\ proto = "udp" => AcksTrue /\ RefusalInv
    /\ proto = "tcp" => Streams /\ TcpInv

\* It holds before anybody has registered.
LEMMA ServeStart == ServeInit => ServeInv
<1> SUFFICES ASSUME ServeInit PROVE ServeInv
  OBVIOUS
<1>1. Init /\ T!Init /\ proto \in {"udp", "tcp"}
  BY DEF ServeInit
<1>2. IInv
  BY <1>1, InitSound
<1>3. AcksTrue
  BY <1>1 DEF Init, AcksTrue
<1>4. RefusalInv
  <2>1. net = {} /\ roster.world = worldArg /\ roster.peers = [r \in {0} |-> Coord]
    BY <1>1 DEF Init, NewRoster
  <2>2. Members = {}
    BY <2>1, AddressAssumption DEF Members, RanksOf, Ranks
  <2> QED
    BY <2>1, <2>2 DEF RefusalInv, RefusalsStand, WorldHeld
<1>5. Streams
  BY <1>1 DEF Streams, Init
<1>6. TcpInv
  <2>1. /\ backlog = << >> /\ reading = {} /\ waiting = << >> /\ status = "collecting"
        /\ conn = [w \in Workers |-> "none"] /\ line = [w \in Workers |-> T!NoLine]
        /\ roster.peers = [r \in {0} |-> Coord]
    BY <1>1 DEF Init, T!Init, NewRoster
  <2>2. Members = {}
    BY <2>1, AddressAssumption DEF Members, RanksOf, Ranks
  <2>3. ConnectionsSound
    BY <2>1 DEF ConnectionsSound
  <2>4. WaitingSound
    BY <2>1 DEF WaitingSound
  <2>5. LinesSound
    BY <2>1, <2>2 DEF LinesSound
  <2> QED
    BY <2>3, <2>4, <2>5 DEF TcpInv
<1> QED
  BY <1>1, <1>2, <1>3, <1>4, <1>5, <1>6 DEF ServeInv

\* Every step keeps it, keeps the ranks handed out and refines the rendezvous.
LEMMA ServeStep ==
    ASSUME ServeInv, [ServeNext]_all
    PROVE  ServeInv' /\ RosterKept /\ (R!Next \/ UNCHANGED R!vars)
<1>1. CASE Udp(Next)
  <2>1. /\ proto = "udp" /\ proto' = "udp" /\ Next /\ IInv /\ AcksTrue /\ RefusalInv
    BY <1>1 DEF Udp, ServeInv
  <2>2. IInv' /\ RosterKept
    BY <2>1, StepSound
  <2>3. AcksTrue'
    BY <2>1, AcksStep
  <2>4. RefusalInv'
    BY <2>1, RecvRegRefusals, OtherRefusals DEF Next
  <2>5. R!Next \/ UNCHANGED R!vars
    BY <2>1, <2>2, UdpRefines
  <2> QED
    BY <2>1, <2>2, <2>3, <2>4, <2>5 DEF ServeInv
<1>2. CASE Tcp(T!Next)
  <2>1. /\ proto = "tcp" /\ proto' = "tcp" /\ T!Next /\ UNCHANGED udpOnly
        /\ IInv /\ Streams /\ TcpInv
    BY <1>2 DEF Tcp, ServeInv
  <2>2. /\ TcpInv' /\ IInv' /\ Streams' /\ RosterKept
        /\ R!Next \/ UNCHANGED R!vars
    BY <2>1, TcpStep
  <2> QED
    BY <2>1, <2>2 DEF ServeInv
<1>3. CASE UNCHANGED all
  <2>1. UNCHANGED <<proto, vars, tcpOnly>>
    BY <1>3 DEF all
  <2>2. /\ UNCHANGED proto /\ UNCHANGED vars
        /\ UNCHANGED <<backlog, reading, waiting, conn, line>>
        /\ UNCHANGED <<worldArg, want, roster, status, lingered, replyTo, acked, net, told>>
    BY <2>1 DEF vars, tcpOnly
  <2>3. IInv /\ IInv' /\ RosterKept
    BY <2>2, StutterSound DEF ServeInv
  <2>4. proto = "udp" => AcksTrue'
    BY <2>2, <2>3, AcksStep DEF ServeInv
  <2>5. proto = "udp" => RefusalInv'
    BY <2>2, <2>3, OtherRefusals DEF ServeInv
  <2>6. ASSUME TcpInv PROVE TcpInv'
    <3>1. \A v, asg : Deserved(v, asg) => Deserved(v, asg)'
      BY <2>2, StillDeserved DEF Completed
    <3>2. Members' = Members
      BY <2>2 DEF Members
    <3>3. ConnectionsSound'
      BY <2>2, <2>6 DEF TcpInv, ConnectionsSound
    <3>4. WaitingSound'
      BY <2>2, <2>6 DEF TcpInv, WaitingSound, Ranks
    <3>5. LinesSound'
      BY <2>2, <2>6, <3>1, <3>2 DEF TcpInv, LinesSound
    <3> QED
      BY <3>3, <3>4, <3>5 DEF TcpInv
  <2>7. Streams => Streams'
    BY <2>2 DEF Streams
  <2>8. UNCHANGED R!vars
    BY <2>2 DEF R!vars
  <2> QED
    BY <2>2, <2>3, <2>4, <2>5, <2>6, <2>7, <2>8 DEF ServeInv
<1> QED
  BY <1>1, <1>2, <1>3 DEF ServeNext

\* The invariant of both protocols holds in every reachable state.
LEMMA ServeAlways == ServeSpec => []ServeInv
<1>1. ServeInv /\ [ServeNext]_all => ServeInv'
  BY ServeStep
<1> QED
  BY <1>1, ServeStart, PTL DEF ServeSpec

\* When serve returns everybody on its list has been answered, over UDP and over
\* TCP, for any number of workers: serve_udp has an acknowledgement of every rank
\* unless its linger expired, serve_tcp has written the list to the ranks on it and
\* to nobody else.
THEOREM ServedWhenReturned == ServeSpec => []ReturnedMeansServed
<1>1. ServeInv => ReturnedMeansServed
  <2> SUFFICES ASSUME ServeInv PROVE ReturnedMeansServed
    OBVIOUS
  <2>1. CASE proto = "udp"
    <3>1. IInv /\ AcksTrue
      BY <2>1 DEF ServeInv
    <3>2. ReturnedMeansInformed
      BY <3>1, AckedMeansInformed
    <3> QED
      BY <2>1, <3>2 DEF ReturnedMeansServed
  <2>2. CASE proto # "udp"
    <3>1. TcpInv
      BY <2>2 DEF ServeInv
    <3> SUFFICES ASSUME status = "returned", NEW w \in Workers
                 PROVE  line[w].type = "RLXPEERS" <=> w \in T!Members
      BY <2>2 DEF ReturnedMeansServed, T!ReturnedMeansAnswered
    <3>2. w \in T!Members <=> w \in Members
      BY SameRoster DEF T!Members, Members
    <3>3. conn[w] # "waiting"
      BY <3>1 DEF TcpInv, WaitingSound
    <3>4. w \in Members => line[w].type = "RLXPEERS"
      BY <3>1, <3>3 DEF TcpInv, LinesSound
    <3>5. ASSUME line[w].type = "RLXPEERS"
          PROVE  w \in Members
      <4>1. Deserved(w, line[w].asg)
        BY <3>1, <3>5, LinesAre DEF TcpInv, LinesSound
      <4> QED
        BY <4>1 DEF Deserved, Deserves, Members, RanksOf
    <3> QED
      BY <3>2, <3>4, <3>5
  <2> QED
    BY <2>1, <2>2
<1> QED
  BY <1>1, ServeAlways, PTL

\* Whichever protocol carries it, a rank once handed out stays with its address, and
\* nobody joins after the list has been sent.
THEOREM ServeKeepsRanks == ServeSpec => RosterStable
<1>1. ServeInv /\ [ServeNext]_all =>
        [ /\ \A r \in Ranks(roster) :
                r \in Ranks(roster') /\ roster'.peers[r] = roster.peers[r]
          /\ status # "collecting" => roster' = roster ]_vars
  BY ServeStep DEF RosterKept
<1> QED
  BY <1>1, ServeAlways, PTL DEF ServeSpec, RosterStable

\* serve and register implement the rendezvous, over either protocol: one list is
\* agreed on, once, and a worker learns it with its own position or learns that it
\* has no place.
THEOREM ServeImplementsRendezvous == ServeSpec => RendezvousSpec
<1>1. ServeInit => R!Init
  BY DEF ServeInit, Init, R!Init, R!NotYet
<1>2. ServeInv /\ [ServeNext]_all => [R!Next]_(R!vars)
  BY ServeStep
<1> QED
  BY <1>1, <1>2, ServeAlways, PTL DEF ServeSpec, RendezvousSpec, R!Spec

\* Whichever protocol carries it, all ranks that return from the rendezvous hold one
\* peer list, each with its own address at the index of its rank, and no two share a
\* rank.
THEOREM ServeGivesOneList == ServeSpec => []OnePeerList
<1>1. ServeInv => OnePeerList
  BY AnswersAgree DEF ServeInv
<1> QED
  BY <1>1, ServeAlways, PTL

\* serve never sends a refusal datagram to a worker that holds a rank, but for the
\* member of an open roster whose WORLD differs from the closed one; over TCP there
\* are no datagrams.
THEOREM ServeRefusesNoMember == ServeSpec => []NoMemberRefused
<1>1. ServeInv => NoMemberRefused
  <2>1. CASE proto = "udp"
    BY <2>1, RefusedDeservedly DEF ServeInv
  <2>2. CASE proto # "udp"
    BY <2>2 DEF ServeInv, Streams, NoMemberRefused
  <2> QED
    BY <2>1, <2>2
<1> QED
  BY <1>1, ServeAlways, PTL

-----------------------------------------------------------------------------
(* Discovery: the list of a process that leaves is its job's roll, and one *)
(* that leaves because everyone is done leaves nobody behind.              *)

DiscoverTypes ==
    /\ lan \subseteq Procs
    /\ state \in [lan -> {"running", "done", "linger"}]
    /\ DOMAIN peers = lan /\ DOMAIN donePeers = lan /\ DOMAIN heard = lan
    /\ \A p \in lan : heard[p] \subseteq lan

\* What is filed under a rank is the address of a process with that rank, its own or
\* one it heard from.
Filed ==
    \A p \in lan :
        /\ IsFiniteSet(DOMAIN peers[p])
        /\ peers[p] = [r \in DOMAIN peers[p] |-> peers[p][r]]
        /\ \A r \in DOMAIN peers[p] :
              peers[p][r] \in lan /\ peers[p][r].rank = r /\ peers[p][r] \in heard[p] \cup {p}

\* Whoever says it knows everyone does.
SentTrue == \A b \in sent : b.from \in lan /\ (b.done => Complete(b.from))

\* A rank counted as done was heard from, and is.
DoneTrue ==
    \A p \in lan : \A r \in donePeers[p] :
        r # p.rank /\ \E q \in heard[p] : q.rank = r /\ Complete(q)

\* Nobody leaves before it has what it waits for.
LeftWhole ==
    \A p \in lan : (Left(p) => Complete(p)) /\ (state[p] = "done" => EveryoneDone(p))

DiscoverInv == DiscoverTypes /\ Filed /\ SentTrue /\ DoneTrue /\ LeftWhole

-----------------------------------------------------------------------------
\* The ranks of a world but one.
LEMMA AllButOne ==
    ASSUME NEW n \in Nat, NEW r \in 0..(n - 1), NEW S, S \subseteq (0..(n - 1)) \ {r},
           Cardinality(S) >= n - 1
    PROVE  S = (0..(n - 1)) \ {r}
<1> DEFINE Js == (0..(n - 1)) \ {r}
<1>1. IsFiniteSet(0..(n - 1)) /\ Cardinality(0..(n - 1)) = n
  BY Interval
<1>2. IsFiniteSet(Js) /\ Cardinality(Js) = n - 1
  BY <1>1, FS_RemoveElement
<1>3. /\ Cardinality(S) \in Nat
      /\ Cardinality(S) =< Cardinality(Js)
      /\ Cardinality(Js) = Cardinality(S) => Js = S
  BY <1>2, FS_Subset, FS_CardinalityType
<1> QED
  BY <1>2, <1>3

\* A beacon adds its rank to the ranks heard of.
LEMMA PutIs ==
    ASSUME NEW f, NEW r, NEW v, IsFiniteSet(DOMAIN f)
    PROVE  /\ DOMAIN Put(f, r, v) = DOMAIN f \cup {r}
           /\ IsFiniteSet(DOMAIN Put(f, r, v))
           /\ Cardinality(DOMAIN Put(f, r, v)) >= Cardinality(DOMAIN f)
           /\ Put(f, r, v) = [q \in DOMAIN Put(f, r, v) |-> Put(f, r, v)[q]]
           /\ \A q \in DOMAIN f \cup {r} : Put(f, r, v)[q] = IF q = r THEN v ELSE f[q]
<1>1. /\ DOMAIN Put(f, r, v) = DOMAIN f \cup {r}
      /\ Put(f, r, v) = [q \in DOMAIN Put(f, r, v) |-> Put(f, r, v)[q]]
      /\ \A q \in DOMAIN f \cup {r} : Put(f, r, v)[q] = IF q = r THEN v ELSE f[q]
  BY DEF Put
<1>2. /\ IsFiniteSet(DOMAIN f \cup {r})
      /\ Cardinality(DOMAIN f \cup {r}) \in Nat /\ Cardinality(DOMAIN f) \in Nat
      /\ Cardinality(DOMAIN f \cup {r}) =
            IF r \in DOMAIN f THEN Cardinality(DOMAIN f) ELSE Cardinality(DOMAIN f) + 1
  BY FS_AddElement, FS_CardinalityType
<1> QED
  BY <1>1, <1>2

LEMMA InitIInv == DiscoverInit => DiscoverInv
<1> SUFFICES ASSUME DiscoverInit
             PROVE  DiscoverInv
  OBVIOUS
<1> USE DEF DiscoverInit
<1>1. DiscoverTypes
  BY ProcAssumption DEF DiscoverTypes
<1>2. Filed
  <2> SUFFICES ASSUME NEW p \in lan
               PROVE  /\ IsFiniteSet(DOMAIN peers[p])
                      /\ peers[p] = [r \in DOMAIN peers[p] |-> peers[p][r]]
                      /\ \A r \in DOMAIN peers[p] :
                            /\ peers[p][r] \in lan /\ peers[p][r].rank = r
                            /\ peers[p][r] \in heard[p] \cup {p}
    BY DEF Filed
  <2>1. peers[p] = [r \in {p.rank} |-> p]
    OBVIOUS
  <2>2. IsFiniteSet({p.rank})
    BY FS_Singleton
  <2> QED
    BY <2>1, <2>2
<1>3. SentTrue /\ DoneTrue /\ LeftWhole
  BY DEF SentTrue, DoneTrue, LeftWhole, Left
<1> QED
  BY <1>1, <1>2, <1>3 DEF DiscoverInv

\* An announcement changes what is on the air and, for the last one, the sender's
\* status.
LEMMA SayIInv ==
    ASSUME DiscoverInv, NEW p \in lan, NEW done \in BOOLEAN, done => Complete(p),
           sent' = sent \cup {Announcement(p, done)},
           NEW how \in {"running", "done", "linger"}, state' = [state EXCEPT ![p] = how],
           how # "running" => Complete(p), how = "done" => EveryoneDone(p),
           UNCHANGED <<lan, peers, donePeers, heard>>
    PROVE  DiscoverInv'
<1> USE DEF DiscoverInv
<1>1. DiscoverTypes'
  BY DEF DiscoverTypes
<1>2. \A q : Complete(q)' = Complete(q) /\ EveryoneDone(q)' = EveryoneDone(q)
  BY DEF Complete, EveryoneDone
<1>3. Filed'
  BY DEF Filed
<1>4. SentTrue'
  BY <1>2 DEF SentTrue, Announcement
<1>5. DoneTrue'
  BY <1>2 DEF DoneTrue
<1>6. LeftWhole'
  BY <1>2 DEF LeftWhole, Left, DiscoverTypes
<1> QED
  BY <1>1, <1>3, <1>4, <1>5, <1>6

\* Hearing a beacon takes no rank away from anybody.
LEMMA RecvGrows ==
    ASSUME DiscoverInv, NEW p \in lan, NEW b \in sent, Recv(p, b)
    PROVE  /\ \A q \in lan : Complete(q) => Complete(q)'
           /\ \A q \in lan : q # p => peers'[q] = peers[q] /\ donePeers'[q] = donePeers[q]
                                      /\ heard'[q] = heard[q]
           /\ peers'[p] = Put(peers[p], b.from.rank, b.from)
           /\ heard'[p] = heard[p] \cup {b.from}
           /\ donePeers'[p] = donePeers[p] \cup
                 (IF b.done /\ b.from.rank # p.rank THEN {b.from.rank} ELSE {})
<1>1. /\ \A q \in lan : q # p => peers'[q] = peers[q] /\ donePeers'[q] = donePeers[q]
                                 /\ heard'[q] = heard[q]
      /\ peers'[p] = Put(peers[p], b.from.rank, b.from)
      /\ heard'[p] = heard[p] \cup {b.from}
      /\ donePeers'[p] = donePeers[p] \cup
            (IF b.done /\ b.from.rank # p.rank THEN {b.from.rank} ELSE {})
  BY DEF Recv, DiscoverInv, DiscoverTypes
<1>2. \A q \in lan : Complete(q) => Complete(q)'
  <2> TAKE q \in lan
  <2>1. IsFiniteSet(DOMAIN peers[p]) /\ IsFiniteSet(DOMAIN peers[q])
    BY DEF DiscoverInv, Filed
  <2>2. Cardinality(DOMAIN peers'[q]) >= Cardinality(DOMAIN peers[q])
        /\ Cardinality(DOMAIN peers'[q]) \in Nat /\ Cardinality(DOMAIN peers[q]) \in Nat
    <3>1. CASE q = p
      <4> DEFINE g == Put(peers[p], b.from.rank, b.from)
      <4>1. IsFiniteSet(DOMAIN g) /\ Cardinality(DOMAIN g) >= Cardinality(DOMAIN peers[p])
        BY <2>1, PutIs
      <4>2. Cardinality(DOMAIN g) \in Nat /\ Cardinality(DOMAIN peers[p]) \in Nat
        BY <2>1, <4>1, FS_CardinalityType
      <4> HIDE DEF g
      <4> QED
        BY <1>1, <3>1, <4>1, <4>2 DEF g
    <3>2. CASE q # p
      BY <1>1, <2>1, <3>2, FS_CardinalityType
    <3> QED
      BY <3>1, <3>2
  <2>3. q.world \in Nat
    BY ProcAssumption DEF DiscoverInv, DiscoverTypes
  <2> QED
    BY <2>2, <2>3 DEF Complete
<1> QED
  BY <1>1, <1>2

LEMMA RecvIInv ==
    ASSUME DiscoverInv, NEW p \in lan, NEW b \in sent, Recv(p, b)
    PROVE  DiscoverInv'
<1>0. /\ \A q \in lan : Complete(q) => Complete(q)'
      /\ \A q \in lan : q # p => peers'[q] = peers[q] /\ donePeers'[q] = donePeers[q]
                                 /\ heard'[q] = heard[q]
      /\ peers'[p] = Put(peers[p], b.from.rank, b.from)
      /\ heard'[p] = heard[p] \cup {b.from}
      /\ donePeers'[p] = donePeers[p] \cup
            (IF b.done /\ b.from.rank # p.rank THEN {b.from.rank} ELSE {})
  BY RecvGrows
<1>1. lan' = lan /\ sent' = sent /\ state' = state /\ Looping(p)
  BY DEF Recv
<1>2. b.from \in lan /\ (b.done => Complete(b.from))
  BY DEF DiscoverInv, SentTrue
<1>3. DiscoverTypes'
  <2>1. DOMAIN peers' = lan /\ DOMAIN donePeers' = lan /\ DOMAIN heard' = lan
    BY DEF Recv, DiscoverInv, DiscoverTypes
  <2>2. \A q \in lan : heard'[q] \subseteq lan
    BY <1>0, <1>2 DEF DiscoverInv, DiscoverTypes
  <2> QED
    BY <1>1, <2>1, <2>2 DEF DiscoverInv, DiscoverTypes
<1>4. Filed'
  <2> SUFFICES ASSUME NEW q \in lan
               PROVE  /\ IsFiniteSet(DOMAIN peers'[q])
                      /\ peers'[q] = [r \in DOMAIN peers'[q] |-> peers'[q][r]]
                      /\ \A r \in DOMAIN peers'[q] :
                            /\ peers'[q][r] \in lan /\ peers'[q][r].rank = r
                            /\ peers'[q][r] \in heard'[q] \cup {q}
    BY <1>1 DEF Filed
  <2>1. CASE q # p
    BY <1>0, <2>1 DEF DiscoverInv, Filed
  <2>2. CASE q = p
    <3>1. /\ IsFiniteSet(DOMAIN peers[p])
          /\ \A r \in DOMAIN peers[p] : /\ peers[p][r] \in lan /\ peers[p][r].rank = r
                                         /\ peers[p][r] \in heard[p] \cup {p}
      BY DEF DiscoverInv, Filed
    <3> DEFINE g == Put(peers[p], b.from.rank, b.from)
    <3>2. /\ DOMAIN g = DOMAIN peers[p] \cup {b.from.rank}
          /\ IsFiniteSet(DOMAIN g)
          /\ g = [r \in DOMAIN g |-> g[r]]
          /\ \A r \in DOMAIN peers[p] \cup {b.from.rank} :
                g[r] = IF r = b.from.rank THEN b.from ELSE peers[p][r]
      <4>1. DOMAIN g = DOMAIN peers[p] \cup {b.from.rank}
        BY DEF Put
      <4>4. IsFiniteSet(DOMAIN g)
        BY <3>1, PutIs
      <4>2. g = [r \in DOMAIN g |-> g[r]]
        BY DEF Put
      <4>3. \A r \in DOMAIN peers[p] \cup {b.from.rank} :
               g[r] = IF r = b.from.rank THEN b.from ELSE peers[p][r]
        BY DEF Put
      <4> QED
        BY <4>1, <4>2, <4>3, <4>4
    <3>3. peers'[q] = g
      BY <1>0, <2>2
    <3> HIDE DEF g
    <3>4. \A r \in DOMAIN g : g[r] \in lan /\ g[r].rank = r /\ g[r] \in heard'[p] \cup {p}
      BY <1>0, <1>2, <3>1, <3>2
    <3> QED
      BY <2>2, <3>2, <3>3, <3>4
  <2> QED
    BY <2>1, <2>2
<1>5. SentTrue'
  BY <1>0, <1>1 DEF DiscoverInv, SentTrue
<1>6. DoneTrue'
  <2> SUFFICES ASSUME NEW q \in lan, NEW r \in donePeers'[q]
               PROVE  r # q.rank /\ \E o \in heard'[q] : o.rank = r /\ Complete(o)'
    BY <1>1 DEF DoneTrue
  <2>1. CASE r \in donePeers[q]
    <3>1. r # q.rank
      BY <2>1 DEF DiscoverInv, DoneTrue
    <3>2. PICK o \in heard[q] : o.rank = r /\ Complete(o)
      BY <2>1 DEF DiscoverInv, DoneTrue
    <3>3. o \in lan /\ o \in heard'[q]
      BY <1>0 DEF DiscoverInv, DiscoverTypes
    <3> QED
      BY <1>0, <3>1, <3>2, <3>3
  <2>2. CASE r \notin donePeers[q]
    <3>1. q = p /\ b.done /\ b.from.rank # p.rank /\ r = b.from.rank
      BY <1>0, <2>2
    <3> QED
      BY <1>0, <1>2, <3>1
  <2> QED
    BY <2>1, <2>2
<1>7. LeftWhole'
  <2> SUFFICES ASSUME NEW q \in lan
               PROVE  (Left(q) => Complete(q)') /\ (state[q] = "done" => EveryoneDone(q)')
    BY <1>1 DEF LeftWhole, Left
  <2>1. Left(q) => q # p
    BY <1>1 DEF Looping, Left
  <2>2. state[q] = "done" => Left(q)
    BY DEF Left
  <2>3. q # p => (EveryoneDone(q) => EveryoneDone(q)')
    BY <1>0 DEF EveryoneDone
  <2> QED
    BY <1>0, <2>1, <2>2, <2>3 DEF DiscoverInv, LeftWhole
<1> QED
  BY <1>3, <1>4, <1>5, <1>6, <1>7 DEF DiscoverInv

LEMMA NextIInv == DiscoverInv /\ [DiscoverNext]_discoverVars => DiscoverInv'
<1> SUFFICES ASSUME DiscoverInv, [DiscoverNext]_discoverVars
             PROVE  DiscoverInv'
  OBVIOUS
<1>1. ASSUME NEW p \in lan, Announce(p)
      PROVE  DiscoverInv'
  <2>1. state' = [state EXCEPT ![p] = "running"]
    BY <1>1 DEF Announce, Looping, DiscoverInv, DiscoverTypes
  <2>2. Complete(p) \in BOOLEAN
    BY DEF Complete
  <2> QED
    BY <1>1, <2>1, <2>2, SayIInv DEF Announce
<1>2. ASSUME NEW p \in lan, LeaveDone(p)
      PROVE  DiscoverInv'
  BY <1>2, SayIInv DEF LeaveDone, Leave, EveryoneDone
<1>3. ASSUME NEW p \in lan, LeaveLinger(p)
      PROVE  DiscoverInv'
  BY <1>3, SayIInv DEF LeaveLinger, Leave
<1>4. ASSUME NEW p \in lan, NEW b \in sent, Recv(p, b)
      PROVE  DiscoverInv'
  BY <1>4, RecvIInv
<1>5. CASE UNCHANGED discoverVars
  BY <1>5 DEF discoverVars, DiscoverInv, DiscoverTypes, Filed, SentTrue, DoneTrue, LeftWhole, Complete, EveryoneDone, Left
<1> QED
  BY <1>1, <1>2, <1>3, <1>4, <1>5 DEF DiscoverNext

-----------------------------------------------------------------------------
\* Every rank filed by a process that heard only its own job is a rank of the job.
LEMMA MateIs ==
    ASSUME DiscoverInv, NEW p \in lan, NEW q \in lan, q.job = p.job
    PROVE  /\ q.rank \in 0..(p.world - 1)
           /\ q = [job |-> p.job, rank |-> q.rank, world |-> p.world]
<1>1. p \in Procs /\ q \in Procs
  BY DEF DiscoverInv, DiscoverTypes
<1>2. q.world = p.world
  BY <1>1, ProcAssumption
<1> QED
  BY <1>1, <1>2, ProcAssumption

\* A complete list without an address of another job is the job's roll.
LEMMA WholeList ==
    ASSUME DiscoverInv, NEW p \in lan, Complete(p),
           OfJob(p, {peers[p][r] : r \in DOMAIN peers[p]})
    PROVE  Values(peers[p]) = Roll(p)
<1> DEFINE f == peers[p]
<1>1. \A r \in DOMAIN f : f[r] \in lan /\ f[r].rank = r /\ f[r].job = p.job
  <2>1. \A r \in DOMAIN f : f[r] \in lan /\ f[r].rank = r
    BY DEF DiscoverInv, Filed
  <2>2. \A r \in DOMAIN f : f[r].job = p.job
    BY DEF OfJob
  <2> QED
    BY <2>1, <2>2
<1>2. \A r \in DOMAIN f :
         r \in 0..(p.world - 1) /\ f[r] = [job |-> p.job, rank |-> r, world |-> p.world]
  BY <1>1, MateIs
<1>3. p.world \in Nat /\ Cardinality(DOMAIN f) >= p.world
  BY ProcAssumption DEF DiscoverInv, DiscoverTypes, Complete
<1>4. DOMAIN f = 0..(p.world - 1)
  BY <1>2, <1>3, EnoughMeansAll
<1>5. f \in [DOMAIN f -> lan]
  <2>1. f = [r \in DOMAIN f |-> f[r]]
    BY DEF DiscoverInv, Filed
  <2> QED
    BY <1>1, <2>1
<1>6. /\ Values(f) \in Seq(lan) /\ Len(Values(f)) = p.world
      /\ \A r \in DOMAIN f : Values(f)[r + 1] = f[r]
  BY <1>3, <1>4, <1>5, ValuesAre
<1> HIDE DEF f
<1>7. \A i \in 1..p.world : Values(f)[i] = Roll(p)[i]
  <2> TAKE i \in 1..p.world
  <2>1. i - 1 \in DOMAIN f /\ (i - 1) + 1 = i
    BY <1>3, <1>4
  <2>2. Values(f)[i] = f[i - 1]
    BY <1>6, <2>1
  <2> QED
    BY <1>2, <2>1, <2>2 DEF Roll
<1>8. DOMAIN Values(f) = 1..p.world /\ Values(f) = [i \in 1..p.world |-> Values(f)[i]]
  BY <1>3, <1>6
<1>9. Values(f) = Roll(p)
  BY <1>7, <1>8 DEF Roll
<1> QED
  BY <1>9 DEF f

LEMMA IInvListRight == DiscoverInv => ListRight
BY WholeList DEF DiscoverInv, LeftWhole, ListRight

LEMMA IInvLeftTogether == DiscoverInv => LeftTogether
<1> SUFFICES ASSUME DiscoverInv, NEW p \in lan, state[p] = "done", OfJob(p, heard[p]),
                    NEW r \in 0..(p.world - 1)
             PROVE  \E q \in lan : /\ q.job = p.job /\ q.rank = r /\ Complete(q)
                                   /\ OfJob(q, heard[q]) => Values(peers[q]) = Roll(q)
  BY DEF LeftTogether
<1>0. ASSUME NEW q \in lan, Complete(q), OfJob(q, heard[q])
      PROVE  Values(peers[q]) = Roll(q)
  <2>1. OfJob(q, {peers[q][i] : i \in DOMAIN peers[q]})
    <3>1. \A i \in DOMAIN peers[q] : peers[q][i] \in heard[q] \cup {q}
      BY DEF DiscoverInv, Filed
    <3>2. \A o \in heard[q] \cup {q} : o.job = q.job
      BY <1>0 DEF OfJob
    <3> QED
      BY <3>1, <3>2 DEF OfJob
  <2> QED
    BY <1>0, <2>1, WholeList
<1>1. Complete(p) /\ Cardinality(donePeers[p]) >= p.world - 1
  BY DEF DiscoverInv, LeftWhole, EveryoneDone
<1>2. p.world \in Nat /\ p.rank \in 0..(p.world - 1)
  BY ProcAssumption DEF DiscoverInv, DiscoverTypes
<1>3. \A s \in donePeers[p] :
         s # p.rank /\ \E q \in lan : q.job = p.job /\ q.rank = s /\ Complete(q)
  BY DEF DiscoverInv, DoneTrue, DiscoverTypes, OfJob
<1>4. donePeers[p] \subseteq (0..(p.world - 1)) \ {p.rank}
  BY <1>3, MateIs
<1>5. donePeers[p] = (0..(p.world - 1)) \ {p.rank}
  BY <1>1, <1>2, <1>4, AllButOne
<1>6. PICK q \in lan : q.job = p.job /\ q.rank = r /\ Complete(q)
  BY <1>1, <1>3, <1>5
<1> QED
  BY <1>0, <1>6

LEMMA AlwaysIInv == DiscoverSpec => []DiscoverInv
  BY InitIInv, NextIInv, PTL DEF DiscoverSpec

\* For every set of processes on the port, and whatever becomes of their beacons: what
\* discover_peers returns is its job's roll, rank r at index r, unless an address of
\* another job is in it.
THEOREM DiscoveredListIsRight == DiscoverSpec => []ListRight
  BY AlwaysIInv, IInvListRight, PTL

\* A process that leaves the loop because its peers said they are done, having taken no
\* beacon of another job, leaves no rank of its job without a full list, and the list of
\* every rank that took none either is the job's roll.
THEOREM NobodyLeftBehind == DiscoverSpec => []LeftTogether
  BY AlwaysIInv, IInvLeftTogether, PTL

-----------------------------------------------------------------------------
(* An edge of the QUIC transport: a frame is written once, to one stream.  *)

-----------------------------------------------------------------------------
(* The invariant.                                                          *)

Frames == Threads \X Nat \X Edges

EdgeTypes ==
    /\ {MaxFrames, MaxEdges, MaxDeaths} \subseteq Nat
    /\ edges \in 0..MaxEdges
    /\ cached \in Edges \cup {NoEdge}
    /\ pc \in [Threads -> {"idle", "edge", "dialing", "writing"}]
    /\ at \in [Threads -> Edges \cup {NoEdge}]
    /\ \A t \in Threads : pc[t] = "writing" => at[t] \in Edges
    /\ frame \in [Threads -> Nat]
    /\ wire \in [Edges -> Seq(Frames)]
    /\ mail \in Seq(Frames) /\ taken \in Seq(Frames)

\* A frame that was written has a number its thread has reached, and not the one the
\* thread is sending now.
Begun(x, f, p) == x[2] =< f[x[1]] /\ (p[x[1]] # "idle" => x[2] < f[x[1]])

AllBegun ==
    /\ \A e \in Edges : \A i \in DOMAIN wire[e] : Begun(wire[e][i], frame, pc)
    /\ \A i \in DOMAIN Arrived : Begun(Arrived[i], frame, pc)

\* A stream holds its own frames, those of one thread in the order they were written.
WireInOrder ==
    \A e \in Edges : \A i \in DOMAIN wire[e] :
        /\ wire[e][i][3] = e
        /\ \A j \in DOMAIN wire[e] :
              i < j /\ wire[e][i][1] = wire[e][j][1] => wire[e][i][2] < wire[e][j][2]

\* A frame on a stream has not arrived, comes after what arrived over that stream,
\* and is on no other.
WireIsNew ==
    \A e \in Edges : \A i \in DOMAIN wire[e] :
        /\ \A j \in DOMAIN Arrived :
              Arrived[j][1] = wire[e][i][1] =>
                  /\ Arrived[j][2] # wire[e][i][2]
                  /\ Arrived[j][3] = e => Arrived[j][2] < wire[e][i][2]
        /\ \A d \in Edges : \A j \in DOMAIN wire[d] :
              d # e /\ wire[d][j][1] = wire[e][i][1] => wire[d][j][2] # wire[e][i][2]

EdgeInv == EdgeTypes /\ AllBegun /\ WireInOrder /\ WireIsNew /\ OnceInOrder

-----------------------------------------------------------------------------
(* The mailbox.                                                            *)

\* What is received and what is queued, one after the other.
LEMMA ConcatIs ==
    ASSUME NEW S, NEW a \in Seq(S), NEW b \in Seq(S)
    PROVE  /\ a \o b \in Seq(S) /\ Len(a \o b) = Len(a) + Len(b)
           /\ Len(a) \in Nat /\ Len(b) \in Nat /\ DOMAIN (a \o b) = 1..Len(a \o b)
           /\ \A i \in 1..Len(a) : (a \o b)[i] = a[i]
           /\ \A i \in 1..Len(b) : (a \o b)[Len(a) + i] = b[i]
<1>1. /\ a \o b \in Seq(S) /\ Len(a \o b) = Len(a) + Len(b)
      /\ \A i \in 1..Len(a) + Len(b) :
            (a \o b)[i] = IF i =< Len(a) THEN a[i] ELSE b[i - Len(a)]
  BY ConcatProperties
<1>2. Len(a) \in Nat /\ Len(b) \in Nat
  OBVIOUS
<1>3. \A i \in 1..Len(b) : Len(a) + i \in 1..Len(a) + Len(b)
                           /\ ~(Len(a) + i =< Len(a)) /\ (Len(a) + i) - Len(a) = i
  BY <1>2
<1>4. \A i \in 1..Len(a) : i \in 1..Len(a) + Len(b) /\ i =< Len(a)
  BY <1>2
<1> QED
  BY <1>1, <1>2, <1>3, <1>4

LEMMA ArrivedIs ==
    ASSUME EdgeTypes
    PROVE  /\ Arrived \in Seq(Frames) /\ DOMAIN Arrived = 1..Len(Arrived) /\ Len(Arrived) \in Nat
           /\ \A i \in DOMAIN Arrived : Arrived[i] \in Frames
<1>1. Arrived \in Seq(Frames)
  BY ConcatIs DEF EdgeTypes, Arrived
<1> QED
  BY <1>1

\* recv_bytes moves the oldest frame: nothing arrives and nothing is forgotten.
LEMMA TakenSame ==
    ASSUME EdgeTypes, EdgeTypes', mail # << >>,
           taken' = Append(taken, Head(mail)), mail' = Tail(mail)
    PROVE  Arrived' = Arrived
<1>1. taken \in Seq(Frames) /\ mail \in Seq(Frames)
  BY DEF EdgeTypes
<1>2. /\ Head(mail) = mail[1] /\ Len(mail) \in Nat \ {0} /\ Len(mail') = Len(mail) - 1
      /\ \A i \in 1..Len(mail') : mail'[i] = mail[i + 1]
  BY <1>1, HeadTailProperties, EmptySeq
<1>3. /\ Len(taken) \in Nat /\ Len(taken') = Len(taken) + 1 /\ taken'[Len(taken) + 1] = mail[1]
      /\ \A i \in 1..Len(taken) : taken'[i] = taken[i]
  BY <1>1, <1>2, AppendProperties
<1>4. /\ Arrived \in Seq(Frames) /\ Len(Arrived) = Len(taken) + Len(mail)
      /\ \A i \in 1..Len(taken) : Arrived[i] = taken[i]
      /\ \A i \in 1..Len(mail) : Arrived[Len(taken) + i] = mail[i]
  BY <1>1, ConcatIs DEF Arrived
<1>5. /\ Arrived' \in Seq(Frames) /\ Len(Arrived') = Len(taken') + Len(mail')
      /\ \A i \in 1..Len(taken') : Arrived'[i] = taken'[i]
      /\ \A i \in 1..Len(mail') : Arrived'[Len(taken') + i] = mail'[i]
  <2>1. taken' \in Seq(Frames) /\ mail' \in Seq(Frames)
    BY DEF EdgeTypes
  <2> QED
    BY <2>1, ConcatIs DEF Arrived
<1>6. Len(Arrived') = Len(Arrived)
  BY <1>2, <1>3, <1>4, <1>5
<1>7. ASSUME NEW i \in 1..Len(Arrived)
      PROVE  Arrived'[i] = Arrived[i]
  <2>1. CASE i \in 1..Len(taken)
    <3>1. i \in 1..Len(taken')
      BY <1>3, <2>1
    <3> QED
      BY <1>3, <1>4, <1>5, <2>1, <3>1
  <2>2. CASE i = Len(taken) + 1
    <3>1. i \in 1..Len(taken') /\ 1 \in 1..Len(mail)
      BY <1>2, <1>3, <2>2
    <3> QED
      BY <1>3, <1>4, <1>5, <2>2, <3>1
  <2>3. CASE i > Len(taken) + 1
    <3> DEFINE k == i - Len(taken) - 1
    <3>0. i \in Nat /\ Len(taken) \in Nat /\ Len(mail) \in Nat
      BY <1>2, <1>3
    <3>1. k \in 1..Len(mail') /\ k + 1 \in 1..Len(mail) /\ i = Len(taken') + k /\ i = Len(taken) + (k + 1)
      BY <1>2, <1>3, <1>4, <2>3, <3>0
    <3> HIDE DEF k
    <3>2. Arrived'[i] = mail'[k] /\ mail'[k] = mail[k + 1]
      BY <1>2, <1>5, <3>1
    <3>3. Arrived[i] = mail[k + 1]
      BY <1>4, <3>1
    <3> QED
      BY <3>2, <3>3
  <2> QED
    BY <1>3, <1>4, <2>1, <2>2, <2>3
<1> QED
  BY <1>4, <1>5, <1>6, <1>7, SeqEqual

\* deliver: a frame arrives behind what was there.
LEMMA ArrivedMore ==
    ASSUME EdgeTypes, EdgeTypes', NEW x \in Frames, mail' = Append(mail, x), taken' = taken
    PROVE  /\ Len(Arrived) \in Nat /\ Len(Arrived') = Len(Arrived) + 1
           /\ DOMAIN Arrived = 1..Len(Arrived) /\ DOMAIN Arrived' = 1..Len(Arrived')
           /\ \A i \in 1..Len(Arrived) : Arrived'[i] = Arrived[i]
           /\ Arrived'[Len(Arrived) + 1] = x
<1>1. mail \in Seq(Frames) /\ taken \in Seq(Frames) /\ mail' \in Seq(Frames) /\ taken' \in Seq(Frames)
  BY DEF EdgeTypes
<1>2. /\ Len(mail') = Len(mail) + 1 /\ mail'[Len(mail) + 1] = x
      /\ \A i \in 1..Len(mail) : mail'[i] = mail[i]
  BY <1>1, AppendProperties
<1>3. /\ Len(Arrived) = Len(taken) + Len(mail) /\ DOMAIN Arrived = 1..Len(Arrived)
      /\ Len(taken) \in Nat /\ Len(mail) \in Nat
      /\ \A i \in 1..Len(taken) : Arrived[i] = taken[i]
      /\ \A i \in 1..Len(mail) : Arrived[Len(taken) + i] = mail[i]
  BY <1>1, ConcatIs DEF Arrived
<1>4. /\ Len(Arrived') = Len(taken') + Len(mail') /\ DOMAIN Arrived' = 1..Len(Arrived')
      /\ \A i \in 1..Len(taken') : Arrived'[i] = taken'[i]
      /\ \A i \in 1..Len(mail') : Arrived'[Len(taken') + i] = mail'[i]
  BY <1>1, ConcatIs DEF Arrived
<1>5. /\ Len(mail) + 1 \in 1..Len(mail') /\ Len(Arrived) + 1 = Len(taken') + (Len(mail) + 1)
      /\ Len(Arrived) \in Nat /\ Len(Arrived') = Len(Arrived) + 1
  BY <1>2, <1>3, <1>4
<1>6. ASSUME NEW i \in 1..Len(Arrived)
      PROVE  Arrived'[i] = Arrived[i]
  <2>1. CASE i \in 1..Len(taken)
    BY <1>3, <1>4, <2>1
  <2>2. CASE i > Len(taken)
    <3> DEFINE k == i - Len(taken)
    <3>1. k \in 1..Len(mail) /\ k \in 1..Len(mail') /\ i = Len(taken) + k
      BY <1>2, <1>3, <2>2
    <3> HIDE DEF k
    <3> QED
      BY <1>2, <1>3, <1>4, <3>1
  <2> QED
    BY <1>3, <2>1, <2>2
<1> QED
  BY <1>2, <1>3, <1>4, <1>5, <1>6

-----------------------------------------------------------------------------
(* The steps.                                                              *)

\* A step of a thread that writes nothing keeps what was written.
LEMMA NothingWritten ==
    ASSUME EdgeInv, EdgeTypes', wire' = wire, mail' = mail, taken' = taken,
           NEW t \in Threads,
           \A x \in Threads : x # t => frame'[x] = frame[x] /\ pc'[x] = pc[x],
           \/ frame'[t] = frame[t] /\ (pc'[t] # "idle" => pc[t] # "idle")
           \/ frame'[t] = frame[t] + 1
    PROVE  EdgeInv'
<1>0. EdgeTypes /\ AllBegun /\ WireInOrder /\ WireIsNew /\ OnceInOrder
  BY DEF EdgeInv
<1>1. Arrived' = Arrived
  BY DEF Arrived
<1>2. \A x \in Frames : Begun(x, frame, pc) => Begun(x, frame', pc')
  <2> SUFFICES ASSUME NEW x \in Frames, Begun(x, frame, pc)
               PROVE  Begun(x, frame', pc')
    OBVIOUS
  <2>1. x[1] \in Threads /\ x[2] \in Nat /\ frame[x[1]] \in Nat
    BY <1>0 DEF Frames, EdgeTypes
  <2>2. CASE x[1] # t
    BY <2>1, <2>2 DEF Begun
  <2>3. CASE x[1] = t
    BY <2>1, <2>3 DEF Begun
  <2> QED
    BY <2>2, <2>3
<1>3. AllBegun'
  <2>1. \A e \in Edges : \A i \in DOMAIN wire[e] : wire[e][i] \in Frames
    BY <1>0 DEF EdgeTypes
  <2>2. \A i \in DOMAIN Arrived : Arrived[i] \in Frames
    BY <1>0, ArrivedIs
  <2> QED
    BY <1>0, <1>1, <1>2, <2>1, <2>2 DEF AllBegun
<1>4. WireInOrder'
  BY <1>0 DEF WireInOrder
<1>5. WireIsNew' /\ OnceInOrder'
  BY <1>0, <1>1 DEF WireIsNew, OnceInOrder
<1> QED
  BY <1>3, <1>4, <1>5 DEF EdgeInv

\* write_frame: the thread's new number is above all it has written before.
LEMMA WriteKept ==
    ASSUME EdgeInv, NEW t \in Threads, Write(t)
    PROVE  EdgeInv'
<1> DEFINE d == at[t]
           x == <<t, frame[t], at[t]>>
           n == Len(wire[d])
<1>0. EdgeTypes /\ AllBegun /\ WireInOrder /\ WireIsNew /\ OnceInOrder
  BY DEF EdgeInv
<1>1. /\ pc[t] = "writing" /\ wire' = [wire EXCEPT ![d] = Append(@, x)]
      /\ at' = [at EXCEPT ![t] = NoEdge] /\ pc' = [pc EXCEPT ![t] = "idle"]
      /\ cached' = cached /\ frame' = frame /\ edges' = edges /\ mail' = mail /\ taken' = taken
  BY DEF Write, Go, AfterWrite, receiver
<1>2. d \in Edges /\ x \in Frames /\ x[1] = t /\ x[2] = frame[t] /\ x[3] = d
  BY <1>0, <1>1 DEF EdgeTypes, Frames
<1> HIDE DEF d, x, n
<1>3. /\ wire' \in [Edges -> Seq(Frames)] /\ wire[d] \in Seq(Frames) /\ n \in Nat
      /\ DOMAIN wire[d] = 1..n /\ DOMAIN wire'[d] = 1..(n + 1)
      /\ wire'[d][n + 1] = x /\ \A i \in 1..n : wire'[d][i] = wire[d][i]
      /\ \A e \in Edges : e # d => wire'[e] = wire[e]
  <2>1. wire \in [Edges -> Seq(Frames)] /\ wire'[d] = Append(wire[d], x)
    BY <1>0, <1>1, <1>2 DEF EdgeTypes
  <2>2. \A e \in Edges : e # d => wire'[e] = wire[e]
    BY <1>1, <2>1
  <2>3. wire[d] \in Seq(Frames) /\ Len(wire[d]) \in Nat /\ DOMAIN wire[d] = 1..Len(wire[d])
    BY <1>2, <2>1
  <2>4. /\ wire' \in [Edges -> Seq(Frames)] /\ wire'[d] \in Seq(Frames) /\ Len(wire'[d]) = n + 1
        /\ wire'[d][n + 1] = x /\ \A i \in 1..n : wire'[d][i] = wire[d][i]
    BY <1>1, <1>2, <2>1, QueueAppend DEF n
  <2>5. DOMAIN wire'[d] = 1..(n + 1)
    BY <2>4
  <2> QED
    BY <2>2, <2>3, <2>4, <2>5 DEF n
<1>4. EdgeTypes'
  <2>1. at' \in [Threads -> Edges \cup {NoEdge}] /\ pc' \in [Threads -> {"idle", "edge", "dialing", "writing"}]
    BY <1>0, <1>1 DEF EdgeTypes
  <2>2. \A u \in Threads : pc'[u] = "writing" => at'[u] \in Edges
    BY <1>0, <1>1 DEF EdgeTypes
  <2> QED
    BY <1>0, <1>1, <1>3, <2>1, <2>2 DEF EdgeTypes
<1>5. Arrived' = Arrived
  BY <1>1 DEF Arrived
<1>6. /\ \A e \in Edges : \A i \in DOMAIN wire[e] : wire[e][i] \in Frames
      /\ \A i \in DOMAIN Arrived : Arrived[i] \in Frames
      /\ frame[t] \in Nat
  BY <1>0, ArrivedIs DEF EdgeTypes
<1>7. \A y \in Frames : Begun(y, frame, pc) => Begun(y, frame', pc') /\ y[2] \in Nat /\ (y[1] = t => y[2] < x[2])
  <2> SUFFICES ASSUME NEW y \in Frames, Begun(y, frame, pc)
               PROVE  Begun(y, frame', pc') /\ y[2] \in Nat /\ (y[1] = t => y[2] < x[2])
    OBVIOUS
  <2>1. /\ y[1] \in Threads /\ y[2] \in Nat /\ frame[y[1]] \in Nat
        /\ pc'[y[1]] = IF y[1] = t THEN "idle" ELSE pc[y[1]]
    BY <1>0, <1>1 DEF Frames, EdgeTypes
  <2> QED
    BY <1>1, <1>2, <2>1 DEF Begun
<1>8. Begun(x, frame', pc')
  <2>1. frame[t] \in Nat /\ pc'[t] = "idle"
    BY <1>0, <1>1 DEF EdgeTypes
  <2> QED
    BY <1>1, <1>2, <2>1 DEF Begun
<1>9. ASSUME NEW e \in Edges, NEW i \in DOMAIN wire'[e]
      PROVE  \/ i \in DOMAIN wire[e] /\ wire'[e][i] = wire[e][i]
             \/ e = d /\ i = n + 1 /\ wire'[e][i] = x
  <2>1. CASE e # d
    BY <1>3, <2>1
  <2>2. CASE e = d
    BY <1>3, <2>2
  <2> QED
    BY <2>1, <2>2
<1>10. AllBegun'
  <2>1. ASSUME NEW e \in Edges, NEW i \in DOMAIN wire'[e]
        PROVE  Begun(wire'[e][i], frame', pc')
    <3>1. CASE i \in DOMAIN wire[e] /\ wire'[e][i] = wire[e][i]
      BY <1>0, <1>6, <1>7, <3>1 DEF AllBegun
    <3> QED
      BY <1>8, <1>9, <2>1, <3>1
  <2>2. \A i \in DOMAIN Arrived : Begun(Arrived[i], frame', pc')
    BY <1>0, <1>6, <1>7 DEF AllBegun
  <2> QED
    BY <1>5, <2>1, <2>2 DEF AllBegun
<1>11. WireInOrder'
  <2> SUFFICES ASSUME NEW e \in Edges, NEW i \in DOMAIN wire'[e]
               PROVE  /\ wire'[e][i][3] = e
                      /\ \A j \in DOMAIN wire'[e] :
                            i < j /\ wire'[e][i][1] = wire'[e][j][1] => wire'[e][i][2] < wire'[e][j][2]
    BY DEF WireInOrder
  <2>1. wire'[e][i][3] = e
    BY <1>0, <1>2, <1>9 DEF WireInOrder
  <2>2. ASSUME NEW j \in DOMAIN wire'[e], i < j, wire'[e][i][1] = wire'[e][j][1]
        PROVE  wire'[e][i][2] < wire'[e][j][2]
    <3>1. i \in DOMAIN wire[e] /\ wire'[e][i] = wire[e][i]
      <4>1. j \in 1..(n + 1) \/ e # d
        BY <1>3
      <4>2. e = d => i # n + 1
        BY <1>3, <2>2, <4>1
      <4> QED
        BY <1>9, <4>2
    <3>2. CASE j \in DOMAIN wire[e] /\ wire'[e][j] = wire[e][j]
      BY <1>0, <2>2, <3>1, <3>2 DEF WireInOrder
    <3>3. CASE wire'[e][j] = x
      <4>1. Begun(wire[e][i], frame, pc) /\ wire[e][i] \in Frames /\ wire[e][i][1] = t
        BY <1>0, <1>2, <1>6, <2>2, <3>1, <3>3 DEF AllBegun
      <4> QED
        BY <1>7, <3>1, <3>3, <4>1
    <3> QED
      BY <1>9, <3>2, <3>3
  <2> QED
    BY <2>1, <2>2
<1>12. WireIsNew'
  <2> SUFFICES ASSUME NEW e \in Edges, NEW i \in DOMAIN wire'[e]
               PROVE  /\ \A j \in DOMAIN Arrived :
                            Arrived[j][1] = wire'[e][i][1] =>
                                /\ Arrived[j][2] # wire'[e][i][2]
                                /\ Arrived[j][3] = e => Arrived[j][2] < wire'[e][i][2]
                      /\ \A c \in Edges : \A j \in DOMAIN wire'[c] :
                            c # e /\ wire'[c][j][1] = wire'[e][i][1] => wire'[c][j][2] # wire'[e][i][2]
    BY <1>5 DEF WireIsNew
  <2>1. \A j \in DOMAIN Arrived : Arrived[j][1] = t => Arrived[j][2] < x[2] /\ Arrived[j][2] # x[2]
    <3> SUFFICES ASSUME NEW j \in DOMAIN Arrived, Arrived[j][1] = t
                 PROVE  Arrived[j][2] < x[2] /\ Arrived[j][2] # x[2]
      OBVIOUS
    <3>1. Begun(Arrived[j], frame, pc) /\ Arrived[j] \in Frames
      BY <1>0, <1>6 DEF AllBegun
    <3> QED
      BY <1>2, <1>6, <1>7, <3>1
  <2>2. \A c \in Edges : \A j \in DOMAIN wire[c] : wire[c][j][1] = t => wire[c][j][2] # x[2]
    <3> SUFFICES ASSUME NEW c \in Edges, NEW j \in DOMAIN wire[c], wire[c][j][1] = t
                 PROVE  wire[c][j][2] # x[2]
      OBVIOUS
    <3>1. Begun(wire[c][j], frame, pc) /\ wire[c][j] \in Frames
      BY <1>0, <1>6 DEF AllBegun
    <3> QED
      BY <1>2, <1>6, <1>7, <3>1
  <2>3. CASE i \in DOMAIN wire[e] /\ wire'[e][i] = wire[e][i]
    <3>1. ASSUME NEW c \in Edges, NEW j \in DOMAIN wire'[c], c # e, wire'[c][j][1] = wire[e][i][1]
          PROVE  wire'[c][j][2] # wire[e][i][2]
      <4>1. CASE j \in DOMAIN wire[c] /\ wire'[c][j] = wire[c][j]
        BY <1>0, <2>3, <3>1, <4>1 DEF WireIsNew
      <4>2. CASE wire'[c][j] = x
        BY <1>2, <2>2, <2>3, <3>1, <4>2
      <4> QED
        BY <1>9, <4>1, <4>2
    <3> QED
      BY <1>0, <2>3, <3>1 DEF WireIsNew
  <2>4. CASE e = d /\ wire'[e][i] = x
    <3>1. ASSUME NEW c \in Edges, NEW j \in DOMAIN wire'[c], c # e, wire'[c][j][1] = x[1]
          PROVE  wire'[c][j][2] # x[2]
      BY <1>2, <1>9, <2>2, <2>4, <3>1
    <3> QED
      BY <1>2, <2>1, <2>4, <3>1
  <2> QED
    BY <1>9, <2>3, <2>4
<1>13. OnceInOrder'
  BY <1>0, <1>5 DEF OnceInOrder
<1> QED
  BY <1>4, <1>10, <1>11, <1>12, <1>13 DEF EdgeInv

\* A connection ends: of what was under way, a beginning arrives.
LEMMA EndsKept ==
    ASSUME EdgeInv, NEW d \in Edges, Ends(d),
           cached' = cached, pc' = pc, at' = at, frame' = frame
    PROVE  EdgeInv'
<1>0. EdgeTypes /\ AllBegun /\ WireInOrder /\ WireIsNew /\ OnceInOrder
  BY DEF EdgeInv
<1>1. /\ edges' = edges /\ mail' = mail /\ taken' = taken
      /\ \E n \in 0..Len(wire[d]) : wire' = [wire EXCEPT ![d] = SubSeq(@, 1, n)]
  BY DEF Ends, receiver
<1>2. PICK n \in 0..Len(wire[d]) : wire' = [wire EXCEPT ![d] = SubSeq(@, 1, n)]
  BY <1>1
<1>3. wire \in [Edges -> Seq(Frames)] /\ wire[d] \in Seq(Frames) /\ Len(wire[d]) \in Nat
  BY <1>0 DEF EdgeTypes
<1>4. /\ SubSeq(wire[d], 1, n) \in Seq(Frames) /\ DOMAIN SubSeq(wire[d], 1, n) = 1..n
      /\ \A i \in 1..n : SubSeq(wire[d], 1, n)[i] = wire[d][i]
  <2>1. n \in Nat /\ n =< Len(wire[d])
    BY <1>3
  <2>2. \A i \in 1..n : wire[d][i] \in Frames
    BY <1>3, <2>1
  <2>3. SubSeq(wire[d], 1, n) = [i \in 1..n |-> wire[d][i]]
    BY <1>3, <2>1
  <2> QED
    BY <2>1, <2>2, <2>3
<1>5. /\ wire' \in [Edges -> Seq(Frames)] /\ wire'[d] = SubSeq(wire[d], 1, n)
      /\ \A e \in Edges : e # d => wire'[e] = wire[e]
  BY <1>2, <1>3, <1>4
<1>6. EdgeTypes'
  BY <1>0, <1>1, <1>5 DEF EdgeTypes
<1>7. Arrived' = Arrived
  BY <1>1 DEF Arrived
<1>8. \A e \in Edges : \A i \in DOMAIN wire'[e] : i \in DOMAIN wire[e] /\ wire'[e][i] = wire[e][i]
  <2>1. \A i \in 1..n : i \in DOMAIN wire[d]
    BY <1>3
  <2> QED
    BY <1>4, <1>5, <2>1
<1>9. AllBegun'
  BY <1>0, <1>7, <1>8 DEF AllBegun
<1>10. WireInOrder'
  BY <1>0, <1>8 DEF WireInOrder
<1>11. WireIsNew'
  BY <1>0, <1>7, <1>8 DEF WireIsNew
<1>12. OnceInOrder'
  BY <1>0, <1>7 DEF OnceInOrder
<1> QED
  BY <1>6, <1>9, <1>10, <1>11, <1>12 DEF EdgeInv

\* reader_loop delivers the first frame of its stream.
LEMMA ReadKept ==
    ASSUME EdgeInv, NEW d \in Edges, ReadFrame(d)
    PROVE  EdgeInv'
<1> DEFINE x == wire[d][1]
           n == Len(Arrived)
<1>0. EdgeTypes /\ AllBegun /\ WireInOrder /\ WireIsNew /\ OnceInOrder
  BY DEF EdgeInv
<1>1. /\ wire[d] # << >> /\ mail' = Append(mail, Head(wire[d]))
      /\ wire' = [wire EXCEPT ![d] = Tail(@)] /\ taken' = taken /\ edges' = edges
      /\ cached' = cached /\ pc' = pc /\ at' = at /\ frame' = frame
  BY DEF ReadFrame, sender
<1>2. wire \in [Edges -> Seq(Frames)] /\ mail \in Seq(Frames)
  BY <1>0 DEF EdgeTypes
<1>3. /\ wire' \in [Edges -> Seq(Frames)] /\ x \in Frames /\ Head(wire[d]) = x
      /\ Len(wire[d]) \in Nat \ {0} /\ Len(wire'[d]) = Len(wire[d]) - 1
      /\ \A i \in 1..Len(wire'[d]) : wire'[d][i] = wire[d][i + 1]
      /\ \A e \in Edges : e # d => wire'[e] = wire[e]
  BY <1>1, <1>2, QueueTake
<1>4. mail' \in Seq(Frames)
  BY <1>1, <1>2, <1>3, AppendProperties
<1>5. EdgeTypes'
  BY <1>0, <1>1, <1>3, <1>4 DEF EdgeTypes
<1>6. 1 \in DOMAIN wire[d] /\ DOMAIN wire[d] = 1..Len(wire[d]) /\ DOMAIN wire'[d] = 1..Len(wire'[d])
  <2>1. wire[d] \in Seq(Frames) /\ wire'[d] \in Seq(Frames)
    BY <1>2, <1>3
  <2> QED
    BY <1>3, <2>1
<1>7. \A i \in DOMAIN wire'[d] :
          i \in Nat \ {0} /\ 1 < i + 1 /\ i + 1 \in DOMAIN wire[d] /\ wire'[d][i] = wire[d][i + 1]
  BY <1>3, <1>6
<1> HIDE DEF x, n
<1>8. /\ n \in Nat /\ DOMAIN Arrived = 1..n /\ DOMAIN Arrived' = 1..(n + 1)
      /\ \A i \in 1..n : Arrived'[i] = Arrived[i]
      /\ Arrived'[n + 1] = x
  BY <1>0, <1>1, <1>3, <1>5, ArrivedMore DEF n
<1>9. \A i \in DOMAIN Arrived' : (i \in DOMAIN Arrived /\ Arrived'[i] = Arrived[i])
                                 \/ (i = n + 1 /\ Arrived'[i] = x)
  BY <1>8
<1>10. AllBegun'
  <2>1. Begun(x, frame, pc)
    BY <1>0, <1>6 DEF AllBegun, x
  <2>2. \A e \in Edges : \A i \in DOMAIN wire'[e] : Begun(wire'[e][i], frame, pc)
    BY <1>0, <1>3, <1>7 DEF AllBegun
  <2>3. \A i \in DOMAIN Arrived' : Begun(Arrived'[i], frame, pc)
    BY <1>0, <1>9, <2>1 DEF AllBegun
  <2> QED
    BY <1>1, <2>2, <2>3 DEF AllBegun
<1>11. WireInOrder'
  <2> SUFFICES ASSUME NEW e \in Edges, NEW i \in DOMAIN wire'[e]
               PROVE  /\ wire'[e][i][3] = e
                      /\ \A j \in DOMAIN wire'[e] :
                            i < j /\ wire'[e][i][1] = wire'[e][j][1] => wire'[e][i][2] < wire'[e][j][2]
    BY DEF WireInOrder
  <2>1. CASE e # d
    BY <1>0, <1>3, <2>1 DEF WireInOrder
  <2>2. CASE e = d
    <3>1. /\ wire'[d][i] = wire[d][i + 1] /\ i + 1 \in DOMAIN wire[d] /\ i \in Nat
      BY <1>7, <2>2
    <3>2. \A j \in DOMAIN wire'[d] : i < j => /\ j + 1 \in DOMAIN wire[d] /\ i + 1 < j + 1
                                              /\ wire'[d][j] = wire[d][j + 1]
      BY <1>7, <3>1
    <3> QED
      BY <1>0, <2>2, <3>1, <3>2 DEF WireInOrder
  <2> QED
    BY <2>1, <2>2
<1>12. \A e \in Edges : \A i \in DOMAIN wire'[e] :
           wire'[e][i][1] = x[1] => /\ x[2] # wire'[e][i][2]
                                    /\ e = d => x[2] < wire'[e][i][2]
  <2> SUFFICES ASSUME NEW e \in Edges, NEW i \in DOMAIN wire'[e], wire'[e][i][1] = x[1]
               PROVE  x[2] # wire'[e][i][2] /\ (e = d => x[2] < wire'[e][i][2])
    OBVIOUS
  <2>1. CASE e # d
    <3>1. wire'[e] = wire[e] /\ wire[d][1][1] = wire[e][i][1]
      BY <1>3, <2>1 DEF x
    <3>2. wire[d][1][2] # wire[e][i][2]
      BY <1>0, <1>6, <2>1, <3>1 DEF WireIsNew
    <3> QED
      BY <2>1, <3>1, <3>2 DEF x
  <2>2. CASE e = d
    <3>1. /\ wire'[d][i] = wire[d][i + 1] /\ i + 1 \in DOMAIN wire[d] /\ 1 < i + 1
      BY <1>7, <2>2
    <3>2. x[2] < wire'[d][i][2]
      BY <1>0, <1>6, <2>2, <3>1 DEF WireInOrder, x
    <3>3. x[2] \in Nat /\ wire'[d][i][2] \in Nat
      BY <1>3, <1>5, <2>2 DEF EdgeTypes, Frames
    <3> QED
      BY <2>2, <3>2, <3>3
  <2> QED
    BY <2>1, <2>2
<1>13. x[3] = d
  BY <1>0, <1>6 DEF WireInOrder, x
<1>14. WireIsNew'
  <2> SUFFICES ASSUME NEW e \in Edges, NEW i \in DOMAIN wire'[e]
               PROVE  /\ \A j \in DOMAIN Arrived' :
                            Arrived'[j][1] = wire'[e][i][1] =>
                                /\ Arrived'[j][2] # wire'[e][i][2]
                                /\ Arrived'[j][3] = e => Arrived'[j][2] < wire'[e][i][2]
                      /\ \A c \in Edges : \A j \in DOMAIN wire'[c] :
                            c # e /\ wire'[c][j][1] = wire'[e][i][1] => wire'[c][j][2] # wire'[e][i][2]
    BY DEF WireIsNew
  <2>1. PICK k \in DOMAIN wire[e] : wire'[e][i] = wire[e][k]
    BY <1>3, <1>7
  <2>2. \A c \in Edges : \A j \in DOMAIN wire'[c] : \E m \in DOMAIN wire[c] : wire'[c][j] = wire[c][m]
    BY <1>3, <1>7
  <2>3. \A c \in Edges : \A j \in DOMAIN wire'[c] :
            c # e /\ wire'[c][j][1] = wire'[e][i][1] => wire'[c][j][2] # wire'[e][i][2]
    BY <1>0, <2>1, <2>2 DEF WireIsNew
  <2>4. ASSUME NEW j \in DOMAIN Arrived', Arrived'[j][1] = wire'[e][i][1]
        PROVE  /\ Arrived'[j][2] # wire'[e][i][2]
               /\ Arrived'[j][3] = e => Arrived'[j][2] < wire'[e][i][2]
    <3>1. CASE j \in DOMAIN Arrived /\ Arrived'[j] = Arrived[j]
      BY <1>0, <2>1, <2>4, <3>1 DEF WireIsNew
    <3>2. CASE Arrived'[j] = x
      BY <1>12, <1>13, <2>4, <3>2
    <3> QED
      BY <1>9, <3>1, <3>2
  <2> QED
    BY <2>3, <2>4
<1>15. OnceInOrder'
  <2> SUFFICES ASSUME NEW i \in DOMAIN Arrived', NEW j \in DOMAIN Arrived', i < j,
                      Arrived'[i][1] = Arrived'[j][1]
               PROVE  /\ Arrived'[i][2] # Arrived'[j][2]
                      /\ Arrived'[i][3] = Arrived'[j][3] => Arrived'[i][2] < Arrived'[j][2]
    BY DEF OnceInOrder
  <2>1. i \in DOMAIN Arrived /\ Arrived'[i] = Arrived[i]
    BY <1>8
  <2>2. CASE j \in DOMAIN Arrived /\ Arrived'[j] = Arrived[j]
    BY <1>0, <2>1, <2>2 DEF OnceInOrder
  <2>3. CASE Arrived'[j] = x
    BY <1>0, <1>6, <1>13, <2>1, <2>3 DEF WireIsNew, x
  <2> QED
    BY <1>9, <2>2, <2>3
<1> QED
  BY <1>5, <1>10, <1>11, <1>14, <1>15 DEF EdgeInv

LEMMA EdgeStep ==
    ASSUME EdgeInv, [EdgeNext]_edgeVars
    PROVE  EdgeInv'
<1>0. EdgeTypes
  BY DEF EdgeInv
<1> DEFINE Ps == {"idle", "edge", "dialing", "writing"}
<1>1. ASSUME NEW t \in Threads,
             wire' = wire, mail' = mail, taken' = taken, edges' \in 0..MaxEdges,
             cached' \in Edges \cup {NoEdge}, frame' \in [Threads -> Nat],
             NEW p \in Ps, pc' = [pc EXCEPT ![t] = p],
             at' \in [Threads -> Edges \cup {NoEdge}],
             \A x \in Threads : x # t => at'[x] = at[x], p = "writing" => at'[t] \in Edges,
             \A x \in Threads : x # t => frame'[x] = frame[x],
             frame'[t] = frame[t] + 1 \/ (frame'[t] = frame[t] /\ (p # "idle" => pc[t] # "idle"))
      PROVE  EdgeInv'
  <2>1. pc' \in [Threads -> Ps] /\ pc'[t] = p /\ \A x \in Threads : x # t => pc'[x] = pc[x]
    BY <1>0, <1>1 DEF EdgeTypes
  <2>2. \A x \in Threads : pc'[x] = "writing" => at'[x] \in Edges
    BY <1>0, <1>1, <2>1 DEF EdgeTypes
  <2>3. EdgeTypes'
    BY <1>0, <1>1, <2>1, <2>2 DEF EdgeTypes
  <2> QED
    BY <1>1, <2>1, <2>3, NothingWritten
<1>2. ASSUME NEW t \in Threads, Send(t)
      PROVE  EdgeInv'
  <2>1. "edge" \in Ps /\ frame' \in [Threads -> Nat] /\ frame'[t] = frame[t] + 1
        /\ \A x \in Threads : x # t => frame'[x] = frame[x]
    BY <1>0, <1>2 DEF Send, EdgeTypes
  <2> QED
    BY <1>0, <1>1, <1>2, <2>1 DEF Send, Go, EdgeTypes, link, receiver
<1>3. ASSUME NEW t \in Threads, LookUp(t)
      PROVE  EdgeInv'
  <2> DEFINE p == IF cached = NoEdge THEN "dialing" ELSE "writing"
  <2>1. /\ p \in Ps /\ pc' = [pc EXCEPT ![t] = p] /\ pc[t] # "idle"
        /\ at' = [at EXCEPT ![t] = cached] /\ (p = "writing" => cached \in Edges)
    BY <1>0, <1>3 DEF LookUp, Go, EdgeTypes
  <2> HIDE DEF p
  <2>2. /\ at' \in [Threads -> Edges \cup {NoEdge}] /\ at'[t] = cached
        /\ \A x \in Threads : x # t => at'[x] = at[x]
    BY <1>0, <2>1 DEF EdgeTypes
  <2> QED
    BY <1>0, <1>1, <1>3, <2>1, <2>2 DEF LookUp, EdgeTypes, link, receiver
<1>4. ASSUME NEW t \in Threads, Dial(t)
      PROVE  EdgeInv'
  <2>1. edges + 1 \in Edges /\ edges + 1 \in 0..MaxEdges /\ edges' = edges + 1 /\ cached' = edges + 1
    BY <1>0, <1>4 DEF Dial, EdgeTypes, Edges
  <2>2. /\ at' \in [Threads -> Edges \cup {NoEdge}] /\ at'[t] = edges + 1
        /\ \A x \in Threads : x # t => at'[x] = at[x]
    BY <1>0, <1>4, <2>1 DEF Dial, EdgeTypes
  <2>3. "writing" \in Ps /\ pc' = [pc EXCEPT ![t] = "writing"] /\ pc[t] # "idle"
    BY <1>4 DEF Dial, Go
  <2> QED
    BY <1>0, <1>1, <1>4, <2>1, <2>2, <2>3 DEF Dial, EdgeTypes, receiver
<1>5. ASSUME NEW t \in Threads, DialFails(t)
      PROVE  EdgeInv'
  <2>1. "idle" \in Ps /\ pc' = [pc EXCEPT ![t] = "idle"]
    BY <1>5 DEF DialFails, Go
  <2> QED
    BY <1>0, <1>1, <1>5, <2>1 DEF DialFails, EdgeTypes, link, receiver
<1>6. ASSUME NEW t \in Threads, WriteFails(t)
      PROVE  EdgeInv'
  <2> DEFINE p == IF again[t] THEN "idle" ELSE "edge"
  <2>1. p \in Ps /\ p # "writing" /\ pc' = [pc EXCEPT ![t] = p] /\ pc[t] # "idle"
    BY <1>6 DEF WriteFails, Go
  <2> HIDE DEF p
  <2>2. /\ at' \in [Threads -> Edges \cup {NoEdge}]
        /\ \A x \in Threads : x # t => at'[x] = at[x]
    BY <1>0, <1>6 DEF WriteFails, EdgeTypes
  <2> QED
    BY <1>0, <1>1, <1>6, <2>1, <2>2 DEF WriteFails, EdgeTypes, link, receiver
<1>7. ASSUME NEW e \in Edges, Dies(e) \/ Closes(e) \/ Finish(e)
      PROVE  EdgeInv'
  BY <1>7, EndsKept DEF Dies, Closes, Finish, sender
<1>8. ASSUME wire' = wire, Arrived' = Arrived, EdgeTypes', pc' = pc, frame' = frame
      PROVE  EdgeInv'
  BY <1>8 DEF EdgeInv, AllBegun, WireInOrder, WireIsNew, OnceInOrder
<1>9. ASSUME cached' = cached, pc' = pc, at' = at, frame' = frame, edges' = edges, wire' = wire,
             mail' = mail, taken' = taken
      PROVE  EdgeInv'
  <2>1. EdgeTypes' /\ Arrived' = Arrived
    BY <1>0, <1>9 DEF EdgeTypes, Arrived
  <2> QED
    BY <1>8, <1>9, <2>1
<1>10. CASE RecvBytes
  <2>1. CASE mail # << >> /\ taken' = Append(taken, Head(mail)) /\ mail' = Tail(mail)
    <3>1. mail \in Seq(Frames) /\ taken \in Seq(Frames)
      BY <1>0 DEF EdgeTypes
    <3>2. Head(mail) \in Frames /\ Tail(mail) \in Seq(Frames)
      BY <2>1, <3>1, HeadTailProperties
    <3>3. mail' \in Seq(Frames) /\ taken' \in Seq(Frames)
      BY <2>1, <3>1, <3>2, AppendProperties
    <3>4. cached' = cached /\ pc' = pc /\ at' = at /\ frame' = frame /\ edges' = edges /\ wire' = wire
      BY <1>10 DEF RecvBytes, sender, link
    <3>5. EdgeTypes'
      BY <1>0, <3>3, <3>4 DEF EdgeTypes
    <3>6. Arrived' = Arrived
      BY <1>0, <2>1, <3>5, TakenSame
    <3> QED
      BY <1>8, <3>4, <3>5, <3>6
  <2>2. CASE UNCHANGED <<taken, mail>>
    BY <1>9, <1>10, <2>2 DEF RecvBytes, sender, link
  <2> QED
    BY <1>10, <2>1, <2>2 DEF RecvBytes
<1>11. CASE Drop
  BY <1>9, <1>11 DEF Drop, link, receiver
<1>12. ASSUME NEW e \in Edges, ReadEnd(e)
       PROVE  EdgeInv'
  BY <1>9, <1>12 DEF ReadEnd, sender
<1>13. CASE UNCHANGED edgeVars
  BY <1>9, <1>13 DEF edgeVars, sender, link, receiver
<1> QED
  BY <1>2, <1>3, <1>4, <1>5, <1>6, <1>7, <1>10, <1>11, <1>12, <1>13, WriteKept, ReadKept DEF EdgeNext

\* The iroh transport delivers at most once and keeps the order of an edge: however
\* many threads send, redial and evict each other's connections, and wherever
\* connections fail, no frame arrives twice and the frames one thread sent over one
\* connection arrive in their order.
THEOREM ArrivesOnce == EdgeSpec => []OnceInOrder
<1>1. EdgeInit => EdgeInv
  <2> SUFFICES ASSUME EdgeInit
               PROVE  EdgeInv
    OBVIOUS
  <2>1. EdgeTypes
    BY BoundAssumption DEF EdgeInit, EdgeTypes, NoEdge
  <2>2. Arrived = << >> /\ \A e \in Edges : wire[e] = << >>
    BY DEF EdgeInit, Arrived
  <2> QED
    BY <2>1, <2>2 DEF EdgeInv, AllBegun, WireInOrder, WireIsNew, OnceInOrder
<1>2. EdgeInv /\ [EdgeNext]_edgeVars => EdgeInv'
  BY EdgeStep
<1>3. EdgeInv => OnceInOrder
  BY DEF EdgeInv
<1> QED
  BY <1>1, <1>2, <1>3, PTL DEF EdgeSpec

=============================================================================
