------------------------------ MODULE RankMaps ------------------------------
(***************************************************************************)
(* The BTreeMap<u32, SocketAddr> both ways of finding the peers keep: a    *)
(* function whose domain is the map's keys, the ranks heard of so far.     *)
(* values() forgets the keys: its (i+1)-st element is rank i's only if no  *)
(* rank is missing.                                                        *)
(***************************************************************************)
EXTENDS Integers, Sequences, FiniteSets

Put(f, r, v) == [q \in DOMAIN f \cup {r} |-> IF q = r THEN v ELSE f[q]]

NthKey(f, i) ==
    CHOOSE r \in DOMAIN f : Cardinality({q \in DOMAIN f : q < r}) = i - 1

Values(f) == [i \in 1..Cardinality(DOMAIN f) |-> f[NthKey(f, i)]]

=============================================================================
