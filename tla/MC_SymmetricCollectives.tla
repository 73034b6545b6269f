---------------------- MODULE MC_SymmetricCollectives ----------------------
(* Instances of SymmetricCollectives for TLC.                              *)
EXTENDS SymmetricCollectives

Run(algo, net, calls) == [algo |-> algo, net |-> net, calls |-> calls]

\* The ring twice in one process, all_reduce and the ring once over sockets.
AllModes   == {Run("ring", FALSE, 2), Run("naive", TRUE, 1), Run("ring", TRUE, 1)}
RingOnNet  == {Run("ring", TRUE, 1)}
=============================================================================
