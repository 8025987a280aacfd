---------------------------- MODULE SingleWriter ----------------------------
(***************************************************************************)
(* What Biny promises about the files of one session, whichever processes  *)
(* open it and whatever becomes of them: a runtime writes the session only *)
(* while it holds it, and the session passes from one runtime to another   *)
(* only after the first has left it.  SessionLease, which makes the lease  *)
(* out of file calls, and AgentRun, which runs under a lease, both         *)
(* implement this.                                                         *)
(***************************************************************************)
CONSTANT Runtime

VARIABLES
    holders,   \* runtimes that hold the session
    writers    \* runtimes at work on it

writerVars == <<holders, writers>>

WriterInit == holders = {} /\ writers = {}

\* acquire() gives the session to p, or p has it already, and p goes to work
Work(p) ==
    /\ holders \subseteq {p}
    /\ holders' = {p}
    /\ writers' = {p}

\* p is through and keeps the session: its runtime does not count as idle
Rest(p) ==
    /\ holders = {p}
    /\ writers' = {}
    /\ UNCHANGED holders

\* p lets go of the session, or dies
Leave(p) ==
    /\ holders = {p}
    /\ holders' = {}
    /\ writers' = {}

WriterNext == \E p \in Runtime : Work(p) \/ Rest(p) \/ Leave(p)

WriterSpec == WriterInit /\ [][WriterNext]_writerVars
=============================================================================
