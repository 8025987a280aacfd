------------------------- MODULE SchedulerContract -------------------------
(***************************************************************************)
(* What the scheduler of the resources promises to those who give it tool  *)
(* calls: which calls conflict never changes, and no call is started       *)
(* beside one that it conflicts with, nor when all slots are taken.        *)
(* ToolScheduler, which has the queue and the pump, implements this;       *)
(* ToolExecution, which has everything else that happens to a call and     *)
(* keeps the scheduler to its contract, implements it too.                 *)
(***************************************************************************)
EXTENDS Naturals, FiniteSets

CONSTANTS Call, Slots

VARIABLES
    running,   \* calls that hold their resources
    clash      \* pairs of calls whose declared accesses conflict

contractVars == <<running, clash>>

ContractInit == running = {} /\ clash \subseteq Call \X Call

Compatible(c, d) == <<c, d>> \notin clash /\ <<d, c>> \notin clash

MayRun(c) == /\ c \notin running
             /\ Cardinality(running) < Slots
             /\ \A d \in running : Compatible(c, d)

\* the call's start() is called, and returns a promise
Take(c) == MayRun(c) /\ running' = running \cup {c} /\ UNCHANGED clash

\* the promise has settled
Give(c) == c \in running /\ running' = running \ {c} /\ UNCHANGED clash

\* the process is gone
Drop == running' = {} /\ UNCHANGED clash

ContractNext == (\E c \in Call : Take(c) \/ Give(c)) \/ Drop

ContractSpec == ContractInit /\ [][ContractNext]_contractVars
=============================================================================
