------------------------------ MODULE AdvisoryMC ------------------------------
(***************************************************************************)
(* Two workers, two triggers and a cancel on two jobs of one context, with *)
(* one broken connection or crashed worker and one restart of the          *)
(* orchestrator.                                                           *)
(***************************************************************************)
EXTENDS Advisory, TLC

CONSTANTS a, w1, w2, t1, t2, k1

MCPriority == a :> 1
=============================================================================
