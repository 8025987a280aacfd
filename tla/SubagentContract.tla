-------------------------- MODULE SubagentContract --------------------------
(***************************************************************************)
(* What the task manager promises of each child task, whoever cancels it    *)
(* and whatever its code does with the abort signal: its code is started at *)
(* most once and returns at most once, only a task that still runs takes    *)
(* over what its code returned, an end stands, and a task that was revoked  *)
(* (its manager closed, its parent run cancelled) neither waits nor runs    *)
(* from that moment on.  Tasks are independent of each other: a handler     *)
(* that frees a slot moves several.                                         *)
(***************************************************************************)
CONSTANT Task

VARIABLES
    mark,      \* mark[t]: what the manager says of the task
    code,      \* code[t]: the child's code: waiting, going or over
    revoked    \* tasks that must not wait or run any more, submitted or not

contractVars == <<mark, code, revoked>>

Cut == {"aborted", "timed_out"}
Own == {"completed", "failed"}

ContractInit ==
    /\ mark = [t \in Task |-> "none"]
    /\ code = [t \in Task |-> "waiting"]
    /\ revoked = {}

Enter(t) ==
    /\ mark[t] = "none" /\ mark'[t] = "queued"
    /\ code'[t] = code[t]

\* with or without a wait
Start(t) ==
    /\ mark[t] \in {"none", "queued"} /\ mark'[t] = "running"
    /\ code[t] = "waiting" /\ code'[t] = "going"

\* never to be started
Withdraw(t) ==
    /\ mark[t] \in {"none", "queued"} /\ mark'[t] \in Cut
    /\ code[t] = "waiting" /\ code'[t] = "over"

\* the code goes on, for nobody
Abandon(t) ==
    /\ mark[t] = "running" /\ mark'[t] \in Cut
    /\ code[t] = "going" /\ code'[t] = "going"

CodeReturns(t) ==
    /\ code[t] = "going" /\ code'[t] = "over"
    /\ \/ mark[t] = "running" /\ mark'[t] \in Own
       \/ mark[t] \in Cut /\ mark'[t] = mark[t]

Stays(t) == mark'[t] = mark[t] /\ code'[t] = code[t]

ContractNext ==
    /\ \A t \in Task : \/ Enter(t) \/ Start(t) \/ Withdraw(t) \/ Abandon(t)
                       \/ CodeReturns(t) \/ Stays(t)
    /\ revoked \subseteq revoked'
    /\ \A t \in revoked' : mark'[t] \notin {"queued", "running"}

ContractSpec == ContractInit /\ [][ContractNext]_contractVars
=============================================================================
