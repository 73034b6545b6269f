---------------------------- MODULE MC_Collectives ----------------------------
(* Three ranks and every pair of calls, for TLC.                           *)
EXTENDS Collectives

MCRootless == [kind : {"all_gather", "all_to_all", "all_to_all_v"}, root : {0}, perm : {{}}]
MCRooted   == [kind : {"broadcast", "reduce"}, root : 0..2, perm : {{}}]
\* A rotation, a shift off the end, and one in which rank 0 keeps its data and rank
\* 2 gets none.
MCPerms    == {{<<0, 1>>, <<1, 2>>, <<2, 0>>}, {<<0, 1>>, <<1, 2>>}, {<<0, 0>>, <<2, 1>>}}
MCPermutes == [kind : {"ppermute"}, root : {0}, perm : MCPerms]
MCCalls    == MCRootless \cup MCRooted \cup MCPermutes

MCSchedules == [1..2 -> MCCalls]

\* Rank 0 has nothing for rank 1, rank 1 nothing for rank 2.
MCCounts == [r \in 0..2 |-> [p \in 0..2 |-> (2 * r + p + 2) % 3]]

=============================================================================
