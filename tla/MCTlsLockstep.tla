---------------------------- MODULE MCTlsLockstep ----------------------------
(* Constants for the model checking of the inductive invariant.            *)
EXTENDS TlsStranded

MCCombo  == {"sig1_kem1", "sig1_kem2", "hybrid", "classic"}
MCList   == [t \in TestType |-> CASE t = 0 -> <<"sig1_kem1", "sig1_kem2">>
                                  [] t = 1 -> <<"hybrid">>
                                  [] t = 2 -> <<"classic">>]
MCCombos == [p \in Side |-> MCList]
MCNumRun == [p \in Side |-> 2]
MCBroken == {"classic"}
===============================================================================
