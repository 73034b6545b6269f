------------------------------- MODULE MC_Rpc -------------------------------
(* Two clients: one that calls twice, so that the second call may meet the   *)
(* late reply of the first, and one whose only call may stop the server.     *)
EXTENDS Rpc

CONSTANTS c1, c2

MCClients  == {c1, c2}
MCMaxCalls == [c \in MCClients |-> IF c = c1 THEN 2 ELSE 1]

=============================================================================
