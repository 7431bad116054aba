----------------------------- MODULE TlsTestPlan -----------------------------
(***************************************************************************)
(* What the two TLS handshake test scripts promise together, without       *)
(* signals, ports or retries: the tests of the plan are numbered in the    *)
(* order of the nested loops; one after the other, each is offered by the  *)
(* server, measured once while it is offered, and withdrawn.               *)
(***************************************************************************)
EXTENDS Naturals

CONSTANT NumTests    \* how many tests there are to do

VARIABLES
  offered,    \* the test whose s_server is up, 0 when none is
  measured    \* the number of tests measured so far

plan == <<offered, measured>>

Init == offered = 0 /\ measured = 0

Offer ==
  /\ offered = 0
  /\ measured < NumTests
  /\ offered' = measured + 1
  /\ UNCHANGED measured

Measure ==
  /\ offered = measured + 1
  /\ measured' = offered
  /\ UNCHANGED offered

Withdraw ==
  /\ offered # 0
  /\ offered = measured
  /\ offered' = 0
  /\ UNCHANGED measured

Next == Offer \/ Measure \/ Withdraw

Spec == Init /\ [][Next]_plan
==============================================================================
