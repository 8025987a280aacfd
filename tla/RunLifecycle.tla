---------------------------- MODULE RunLifecycle ----------------------------
(***************************************************************************)
(* What Biny promises about one root run, whatever crashes in between      *)
(* (README.md, "终态顺序"): the canonical terminal fact of the session JSONL  *)
(* comes first and is written once, the row of the run authority only ever *)
(* repeats it, and the host tells its clients a terminal status only after *)
(* the row has it.                                                         *)
(***************************************************************************)
CONSTANT Run

VARIABLES
    fact,    \* [Run -> "none" or a terminal status]: turn_status in the JSONL
    row,     \* [Run -> status of the run in the authority]
    told     \* [Run -> "none" or the terminal status the clients were told]

lifecycleVars == <<fact, row, told>>

TerminalStatus == {"completed", "incomplete", "blocked", "cancelled", "aborted", "failed"}

LifecycleInit ==
    /\ fact = [r \in Run |-> "none"]
    /\ row = [r \in Run |-> "none"]
    /\ told = [r \in Run |-> "none"]

\* a run is admitted once; the row may say running in the same step
Admit(r) ==
    /\ row[r] = "none"
    /\ row' \in {[row EXCEPT ![r] = "admitted"], [row EXCEPT ![r] = "running"]}
    /\ UNCHANGED <<fact, told>>

\* the terminal fact of an admitted run is written once
Conclude(r) ==
    /\ row[r] \in {"admitted", "running"}
    /\ fact[r] = "none"
    /\ \E status \in TerminalStatus : fact' = [fact EXCEPT ![r] = status]
    /\ UNCHANGED <<row, told>>

\* rows catch up with the facts, one by one or all at a start
Project ==
    /\ \E S \in SUBSET {r \in Run : row[r] \in {"admitted", "running"} /\ fact[r] # "none"} :
          row' = [r \in Run |-> IF r \in S THEN fact[r] ELSE row[r]]
    /\ UNCHANGED <<fact, told>>

\* clients hear of a terminal status the row has, once
Tell(r) ==
    /\ row[r] \in TerminalStatus
    /\ told[r] = "none"
    /\ told' = [told EXCEPT ![r] = row[r]]
    /\ UNCHANGED <<fact, row>>

LifecycleNext ==
    \/ Project
    \/ \E r \in Run : Admit(r) \/ Conclude(r) \/ Tell(r)

LifecycleSpec == LifecycleInit /\ [][LifecycleNext]_lifecycleVars
=============================================================================
