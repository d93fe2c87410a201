----------------------------- MODULE MCHarness -----------------------------
(***************************************************************************)
(* Every invocation of both callers on guests of up to three test cases.   *)
(***************************************************************************)
EXTENDS Harness

\* The process has ended: the only states without a step
Ended == exit # NoExit /\ UNCHANGED harnessVars

MCSpec == HarnessInit /\ [][HarnessNext \/ Ended]_harnessVars /\ WF_harnessVars(HarnessNext)
=============================================================================
