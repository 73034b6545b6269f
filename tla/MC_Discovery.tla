---------------------------- MODULE MC_Discovery ----------------------------
(***************************************************************************)
(* A job of three on a port of its own, and a job of two that shares the   *)
(* port with a process of another job: of four, whose rank is also a rank  *)
(* of the job of two, or is beyond its world, or of two, which may take    *)
(* its list for complete and say so.                                       *)
(***************************************************************************)
EXTENDS Discovery

Job(j, world, ranks) == {[job |-> j, rank |-> r, world |-> world] : r \in ranks}

Strangers == Job("c", 4, {1}) \cup Job("c", 4, {3}) \cup Job("d", 2, {1})

MCLans == {Job("a", 3, 0..2)} \cup {Job("b", 2, 0..1) \cup {s} : s \in Strangers}
MCProcs == UNION MCLans

=============================================================================
