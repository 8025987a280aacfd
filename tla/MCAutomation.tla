---------------------------- MODULE MCAutomation ----------------------------
(***************************************************************************)
(* One automation, an interval or a heartbeat that expires and completes   *)
(* one fire at most, two rows, and two processes.                          *)
(***************************************************************************)
EXTENDS Automation, TLC

CONSTANTS a1, f1, f2, h1, h2

MCAutomation == {a1}
MCFire == {f1, f2}
MCHost == {h1, h2}
MCAutomationOf == [f \in MCFire |-> a1]
MCInput == {<<"interval", 0, "never">>, <<"heartbeat", 1, "later">>}
Symmetry == Permutations(MCHost)
=============================================================================
