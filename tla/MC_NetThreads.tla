--------------------------- MODULE MC_NetThreads ---------------------------
(* Instances of NetThreads for TLC.                                        *)
EXTENDS NetThreads

\* Two ranks get each other's slot while a thread of rank 0 sends to rank 1.
GetAndSend ==
    (<<0, "main">>   :> <<Op("get", 1)>>) @@
    (<<1, "main">>   :> <<Op("get", 0)>>) @@
    (<<0, "sender">> :> <<Op("send", 1)>>)

AllPrograms  == {RingProgram, PipelineProgram(2), GetAndSend, GetProgram}
PipelineOnly == {PipelineProgram(4)}

\* Responses that fit a socket of two units, and larger ones.
Responses == [p \in AllPrograms |-> IF p \in {GetAndSend, GetProgram} THEN {2, 3} ELSE {2}]
OneUnit   == [p \in PipelineOnly |-> {1}]
=============================================================================
