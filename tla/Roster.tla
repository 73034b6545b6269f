------------------------------- MODULE Roster -------------------------------
(***************************************************************************)
(* The coordinator's bookkeeping during a rendezvous (rendezvous.rs,       *)
(* struct Roster): which data address holds which rank, and what the       *)
(* coordinator answers to a registration.  A data address is named by the  *)
(* process that bound it: every registering process binds an ephemeral     *)
(* port of its own, so a restarted worker is a new member of Workers.      *)
(***************************************************************************)
EXTENDS RankMaps

CONSTANTS Coord,      \* the data address of rank 0
          Workers,    \* the data addresses of the processes that register
          WorldArgs,  \* what rank 0's WORLD may be: at least 2, or Open (auto)
          Wants       \* what RANK and WORLD a worker may be started with

\* The `?' of a registration: RANK=auto, or WORLD left out.
NoOpt == -1

ASSUME AddressAssumption == Coord \notin Workers /\ IsFiniteSet(Workers)
ASSUME ArgumentAssumption ==
    /\ WorldArgs \subseteq Nat \ {1}
    /\ Wants \subseteq [rank : Nat \cup {NoOpt}, world : (Nat \ {0}) \cup {NoOpt}]

\* The world of an open roster (WORLD=auto), until close() sets it.
Open == 0

Addr == Workers \cup {Coord}

\* A parsed RLXREG line.
Reg == [addr : Workers, rank : Nat \cup {NoOpt}, world : (Nat \ {0}) \cup {NoOpt}]

Ranks(ro) == DOMAIN ro.peers

\* A map from finitely many ranks to S.
RankMap(f, S) ==
    /\ DOMAIN f \subseteq Nat /\ IsFiniteSet(DOMAIN f)
    /\ f \in [DOMAIN f -> S]

IsRoster(ro) ==
    /\ ro = [world |-> ro.world, peers |-> ro.peers]
    /\ ro.world \in Nat
    /\ RankMap(ro.peers, Addr)

Least(S) == CHOOSE x \in S : \A y \in S : x =< y

(***************************************************************************)
(* Roster::new                                                             *)
(***************************************************************************)
NewRoster(world) == [world |-> world, peers |-> [r \in {0} |-> Coord]]

(***************************************************************************)
(* Roster::admit.  The WORLD of the registration is compared before its    *)
(* address is looked up, and not at all while the roster is open.          *)
(***************************************************************************)
RanksOf(ro, addr) == {r \in Ranks(ro) : ro.peers[r] = addr}

FreeRanks(ro) == (1..(ro.world - 1)) \ Ranks(ro)

WorldMismatch(ro, reg) ==
    ro.world # Open /\ reg.world # NoOpt /\ reg.world # ro.world

\* Mutant: a full roster refuses a retransmit too.
NoRankForAnyone(ro, reg) ==
    /\ ro.world # Open
    /\ IF reg.rank = NoOpt THEN FreeRanks(ro) = {} ELSE reg.rank \notin FreeRanks(ro)

\* Mutant: an explicit RANK is only compared with the world, not with the roster.
NoRankForTakenIgnored(ro, reg) ==
    /\ ro.world # Open
    /\ RanksOf(ro, reg.addr) = {}
    /\ IF reg.rank = NoOpt THEN FreeRanks(ro) = {} ELSE reg.rank \notin 1..(ro.world - 1)

NoRankFor(ro, reg) ==
    /\ ro.world # Open
    /\ RanksOf(ro, reg.addr) = {}
    /\ IF reg.rank = NoOpt
       THEN FreeRanks(ro) = {}
       ELSE reg.rank \notin FreeRanks(ro)

Refuses(ro, reg) == WorldMismatch(ro, reg) \/ NoRankFor(ro, reg)

\* Mutant: a retransmit is given another rank while there is one.
AdmittedRankForgets(ro, reg) ==
    CASE ro.world = Open -> Cardinality(Ranks(ro))
      [] ro.world # Open /\ FreeRanks(ro) # {} -> Least(FreeRanks(ro))
      [] ro.world # Open /\ FreeRanks(ro) = {} -> Least(RanksOf(ro, reg.addr))

AdmittedRank(ro, reg) ==
    CASE RanksOf(ro, reg.addr) # {} -> Least(RanksOf(ro, reg.addr))
      [] RanksOf(ro, reg.addr) = {} /\ ro.world = Open -> Cardinality(Ranks(ro))
      [] RanksOf(ro, reg.addr) = {} /\ ro.world # Open ->
            IF reg.rank = NoOpt THEN Least(FreeRanks(ro)) ELSE reg.rank

Insert(ro, r, addr) == [ro EXCEPT !.peers = Put(ro.peers, r, addr)]

Admit(ro, reg) == Insert(ro, AdmittedRank(ro, reg), reg.addr)

(***************************************************************************)
(* Roster::full, Roster::close and Roster::list.  list() is the values in  *)
(* key order: position i+1 is rank i's address only if no rank is missing. *)
(***************************************************************************)
Full(ro) == Cardinality(Ranks(ro)) = ro.world

Close(ro) == [ro EXCEPT !.world = Cardinality(Ranks(ro))]

List(ro) == Values(ro.peers)

\* What rank r reads from the RLXPEERS line written for it (peers_line,
\* parse_reply): an Assignment.
PeersLine(r, ro) ==
    [st |-> "assigned", rank |-> r, world |-> ro.world, peers |-> List(ro)]

=============================================================================
