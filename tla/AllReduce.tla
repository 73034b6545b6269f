------------------------------ MODULE AllReduce ------------------------------
(***************************************************************************)
(* What an all-reduce promises (transport.rs, ProcessGroup::all_reduce:    *)
(* "on return every rank holds op({each rank's input})"): the ranks make   *)
(* the same calls; a call returns on a rank only when every rank has       *)
(* entered it, and returns that call's reduction everywhere.               *)
(***************************************************************************)
CONSTANTS Ranks, Calls,
          Reduction,    \* per call: the reduction of what the ranks put in
          NoResult

VARIABLES entered,      \* per rank: the calls it has entered
          result        \* per rank and call: NoResult, or what it returned

vars == <<entered, result>>

Init == /\ entered = [r \in Ranks |-> {}]
        /\ result = [r \in Ranks |-> [b \in Calls |-> NoResult]]

Enter(r, b) ==
    /\ b \notin entered[r]
    /\ entered' = [entered EXCEPT ![r] = @ \cup {b}]
    /\ UNCHANGED result

Return(r, b) ==
    /\ result[r][b] = NoResult
    /\ \A q \in Ranks : b \in entered[q]
    /\ result' = [result EXCEPT ![r][b] = Reduction[b]]
    /\ UNCHANGED entered

Next == \E r \in Ranks, b \in Calls : Enter(r, b) \/ Return(r, b)

Spec == Init /\ [][Next]_vars

=============================================================================
