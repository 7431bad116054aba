----------------------------- MODULE MCTlsControl -----------------------------
(***************************************************************************)
(* Constants for the model checking of TlsHandshakeControl.  Two pqc       *)
(* combinations, one hybrid and one classic: every way of leaving a        *)
(* combination (next combination, next type, next run, end) is taken.      *)
(***************************************************************************)
EXTENDS TlsHandshakeControl

MCCombo == {"sig1_kem1", "sig1_kem2", "hybrid", "classic"}

MCList == [t \in TestType |-> CASE t = 0 -> <<"sig1_kem1", "sig1_kem2">>
                                [] t = 1 -> <<"hybrid">>
                                [] t = 2 -> <<"classic">>]

MCCombos == [p \in Side |-> MCList]

TwoRuns == [p \in Side |-> 2]
OneRun  == [p \in Side |-> 1]

NoneBroken == {}
===============================================================================
