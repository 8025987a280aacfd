---------------------------- MODULE SubagentTasks ----------------------------
(***************************************************************************)
(* SubagentTaskManager: the child tasks that a run delegates or a user     *)
(* starts in the background, their queue, the slots they execute in, and   *)
(* everything that may end them: their own code, their deadline, a cancel  *)
(* of the task or of its parent run, an observer, the close.               *)
(*                                                                         *)
(* JavaScript runs each handler to its end, the drain() at its end and the *)
(* notifications on the way included; a child's code may ignore the abort  *)
(* signal and go on for as long as it likes.                               *)
(*                                                                         *)
(* Left out: the history of 200 ended tasks, the snapshots themselves.     *)
(***************************************************************************)
EXTENDS Naturals, FiniteSets

CONSTANTS
  Task,           \* child tasks, each submitted at most once
  Run, NoRun,     \* parent runs; a task without one was started by the user
  ParentOf,       \* ParentOf[t]: the run whose signal the task follows
  MaxConcurrent,  \* maxConcurrentSubagents
  MaxPending      \* maxPendingSubagents

ASSUME ParentAssumption == ParentOf \in [Task -> Run \cup {NoRun}]
ASSUME LimitAssumption == MaxConcurrent \in Nat \ {0} /\ MaxPending \in Nat

Terminal == {"completed", "failed", "aborted", "timed_out"}
Status == {"none", "queued", "running"} \cup Terminal

VARIABLES
  status,     \* status[t]; "none" before it is submitted
  queue,      \* the entries of the queue
  ahead,      \* ahead[t]: the entries before t in the queue
  executing,  \* tasks whose code was started and has not settled
  active,     \* activeTasks, the counter that slots are granted by
  cancelled,  \* runs whose signal has fired
  closed      \* close() was called

vars == <<status, queue, ahead, executing, active, cancelled, closed>>

TypeOK ==
  /\ status \in [Task -> Status]
  /\ queue \in SUBSET Task
  /\ ahead \in [Task -> SUBSET Task]
  /\ executing \in SUBSET Task
  /\ active \in Nat
  /\ cancelled \in SUBSET Run
  /\ closed \in BOOLEAN

Init ==
  /\ status = [t \in Task |-> "none"]
  /\ queue = {}
  /\ ahead = [t \in Task |-> {}]
  /\ executing = {}
  /\ active = 0
  /\ cancelled = {}
  /\ closed = FALSE

Ended(t) == status[t] \in Terminal
Live == {t \in Task : status[t] \in {"queued", "running"}}

\* What complete() and fail() do: an ended task keeps its status.
Settled(S, outcome) ==
  [t \in Task |-> IF t \in S /\ ~Ended(t) THEN outcome ELSE status[t]]

Among(before, q) == [t \in Task |-> IF t \in q THEN before[t] \cap q ELSE {}]

(***************************************************************************)
(* drain(): entries leave the queue in order while there is a free slot.   *)
(* An observer of the notification "running" may cancel the task, which    *)
(* gives its slot back before any code has run.  The arguments are what    *)
(* the handler has made of the variables when it calls drain().            *)
(***************************************************************************)

\* Mutant: a task vetoed by its observer keeps its slot.
MutDrain(q, before, st, running, slots) ==
  IF closed
    THEN /\ queue' = q
         /\ ahead' = Among(before, q)
         /\ status' = st
         /\ executing' = running
         /\ active' = slots
    ELSE \E started \in SUBSET q : \E vetoed \in SUBSET (q \ started) :
           LET left == q \ (started \cup vetoed)
               taken == slots + Cardinality(started \cup vetoed)
           IN  /\ taken <= MaxConcurrent \/ left = q
               /\ left = {} \/ taken >= MaxConcurrent
               /\ \A t \in q \ left : before[t] \cap left = {}
               /\ queue' = left
               /\ ahead' = Among(before, left)
               /\ status' = [t \in Task |-> IF t \in started THEN "running"
                                            ELSE IF t \in vetoed THEN "aborted"
                                            ELSE st[t]]
               /\ executing' = running \cup started
               /\ active' = taken

Drain(q, before, st, running, slots) ==
  IF closed
    THEN /\ queue' = q
         /\ ahead' = Among(before, q)
         /\ status' = st
         /\ executing' = running
         /\ active' = slots
    ELSE \E started \in SUBSET q : \E vetoed \in SUBSET (q \ started) :
           LET left == q \ (started \cup vetoed)
               full == slots + Cardinality(started) >= MaxConcurrent
           IN  /\ slots + Cardinality(started) <= MaxConcurrent \/ started = {}
               /\ left = {} \/ full
               /\ \A t \in started \cup vetoed : before[t] \cap left = {}
               /\ full => \A v \in vetoed : \E t \in started : v \in before[t]
               /\ queue' = left
               /\ ahead' = Among(before, left)
               /\ status' = [t \in Task |-> IF t \in started THEN "running"
                                            ELSE IF t \in vetoed THEN "aborted"
                                            ELSE st[t]]
               /\ executing' = running \cup started
               /\ active' = slots + Cardinality(started)

(***************************************************************************)
(* submit().                                                               *)
(***************************************************************************)

Admitted ==
  \/ active < MaxConcurrent /\ queue = {}
  \/ Cardinality(queue) < MaxPending

\* Mutant: the parent's signal is listened to but not looked at.
MutSubmit(t) ==
  /\ ~closed
  /\ status[t] = "none"
  /\ Admitted
  /\ Drain(queue \cup {t}, [ahead EXCEPT ![t] = queue],
           [status EXCEPT ![t] = "queued"], executing, active)
  /\ UNCHANGED <<cancelled, closed>>

\* A task of a run that is already cancelled is queued, aborted and taken
\* out again before the drain.
Submit(t) ==
  /\ ~closed
  /\ status[t] = "none"
  /\ Admitted
  /\ IF ParentOf[t] \in cancelled
       THEN Drain(queue, ahead, [status EXCEPT ![t] = "aborted"], executing, active)
       ELSE Drain(queue \cup {t}, [ahead EXCEPT ![t] = queue],
                  [status EXCEPT ![t] = "queued"], executing, active)
  /\ UNCHANGED <<cancelled, closed>>

(***************************************************************************)
(* execute(): the child's code settles.  An ended task keeps its status.   *)
(***************************************************************************)

\* Mutant: nobody drains the queue when a child's code settles.
MutReturn(t, outcome) ==
  /\ t \in executing
  /\ status' = Settled({t}, outcome)
  /\ executing' = executing \ {t}
  /\ active' = active - 1
  /\ UNCHANGED <<queue, ahead, cancelled, closed>>

Return(t, outcome) ==
  /\ t \in executing
  /\ Drain(queue, ahead, Settled({t}, outcome), executing \ {t}, active - 1)
  /\ UNCHANGED <<cancelled, closed>>

(***************************************************************************)
(* abortTask(): queued tasks leave the queue, running ones keep their slot *)
(* until their code settles.                                               *)
(***************************************************************************)

\* Mutant: an aborted task gives its slot back before its code settles.
MutAbortTasks(S, outcome) ==
  /\ Drain(queue \ S, ahead, Settled(S, outcome), executing,
           active - Cardinality({t \in S : status[t] = "running"}))
  /\ UNCHANGED closed

AbortTasks(S, outcome) ==
  /\ Drain(queue \ S, ahead, Settled(S, outcome), executing, active)
  /\ UNCHANGED closed

\* Mutant: the timer is set when the task starts to run.
MutExpires(t) == status[t] = "running"

\* The timer runs from the submission, so it also bounds the wait.
Expires(t) == status[t] \in {"queued", "running"}

Timeout(t) ==
  /\ Expires(t)
  /\ AbortTasks({t}, "timed_out")
  /\ UNCHANGED cancelled

CancelTask(t) ==
  /\ t \in Live
  /\ AbortTasks({t}, "aborted")
  /\ UNCHANGED cancelled

\* cancelRun: the tasks, then the signal, which later submissions see.
CancelParent(r) ==
  /\ r \notin cancelled
  /\ cancelled' = cancelled \cup {r}
  /\ AbortTasks({t \in Live : ParentOf[t] = r}, "aborted")

\* close() sets its flag first, so that nothing is drained, and then waits
\* for the executions, for at most shutdownDrainMs.
Close ==
  /\ ~closed
  /\ closed' = TRUE
  /\ queue' = queue \ Live
  /\ ahead' = Among(ahead, queue')
  /\ status' = Settled(Live, "aborted")
  /\ UNCHANGED <<executing, active, cancelled>>

-----------------------------------------------------------------------------

Next ==
  \/ \E t \in Task : Submit(t) \/ Timeout(t) \/ CancelTask(t)
  \/ \E t \in Task, outcome \in {"completed", "failed"} : Return(t, outcome)
  \/ \E r \in Run : CancelParent(r)
  \/ Close

Spec == Init /\ [][Next]_vars

\* Timers fire.  Nothing is assumed of the children's code.
FairSpec == Spec /\ \A t \in Task : WF_vars(Timeout(t))

(***************************************************************************)
(* Properties.                                                             *)
(***************************************************************************)

\* The counter counts the executions, the aborted ones that go on included:
\* no slot leaks, none is given twice, and no more children run at a time
\* than configured (activeTasks in drain and execute).
SlotsCounted ==
  /\ active = Cardinality(executing)
  /\ active <= MaxConcurrent

\* No task waits while a slot is free, and the queue stays within its bound
\* and holds exactly the queued tasks (submit, drain, abortTask).
NoIdleSlot ==
  /\ queue = {t \in Task : status[t] = "queued"}
  /\ queue # {} => active = MaxConcurrent
  /\ Cardinality(queue) <= MaxPending

\* How a task ended never changes: neither the late result of a child that
\* ignored its abort, nor a second cancel, nor the close rewrites it
\* (complete, fail).
OutcomeStands ==
  [][\A t \in Task : status[t] \in Terminal => status'[t] = status[t]]_vars

\* Once the manager is closed or a parent run is cancelled, no code of its
\* tasks is started any more and none of them is left unsettled (closeTasks,
\* cancelParent, the parent's signal in submit).
CancelReaches ==
  [][\A t \in Task : closed \/ ParentOf[t] \in cancelled =>
        /\ t \in executing' => t \in executing
        /\ status[t] \notin {"queued", "running"}]_vars

\* Status and code of every task together keep what SubagentContract promises,
\* over drains that start or veto several, late results, cancels and the close
\* (drain, execute, abortTask, closeTasks).
Contract == INSTANCE SubagentContract
  WITH mark <- status,
       code <- [t \in Task |-> IF t \in executing THEN "going"
                                ELSE IF status[t] \in {"none", "queued"} THEN "waiting"
                                ELSE "over"],
       revoked <- {t \in Task : closed \/ ParentOf[t] \in cancelled}

ImplementsContract == Contract!ContractSpec

\* Every task settles by its deadline, even one that waits behind children
\* that ignore their abort for ever (the timer in submit).
EveryTaskSettles ==
  \A t \in Task : status[t] # "none" ~> status[t] \in Terminal
=============================================================================
