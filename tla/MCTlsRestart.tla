----------------------------- MODULE MCTlsRestart -----------------------------
(* Constants for the model checking of TlsRestart.                          *)
EXTENDS TlsRestart

MCCombo  == {"sig1_kem1", "sig1_kem2", "hybrid", "classic"}
MCList   == [t \in TestType |-> CASE t = 0 -> <<"sig1_kem1", "sig1_kem2">>
                                  [] t = 1 -> <<"hybrid">>
                                  [] t = 2 -> <<"classic">>]
MCCombos == [p \in Side |-> MCList]
\* The prompts of the two machines were answered differently.
UnequalRuns == [p \in Side |-> IF p = "client" THEN 2 ELSE 1]

NoneBroken == {}
===============================================================================
