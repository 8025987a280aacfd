--------------------------- MODULE ToolScheduler ---------------------------
(***************************************************************************)
(* src/tools/scheduler.ts: the scheduler that decides when the tool calls  *)
(* of one model turn may start.  Calls whose declared accesses conflict    *)
(* keep their submission order, at most MaxConcurrency run at once and at  *)
(* most MaxQueued wait.                                                    *)
(*                                                                         *)
(* JavaScript runs each of the scheduler's methods to its end, but pump()  *)
(* starts one call at a time and a call's start() may throw, so pump is a  *)
(* loop of steps here: `pumping' is the source's own flag, and while it is *)
(* set, or while abort listeners are still being delivered, nothing else   *)
(* is entered.                                                             *)
(***************************************************************************)
EXTENDS ToolAccess, FiniteSets

CONSTANTS
    Task,            \* the calls of a turn; each is scheduled at most once
    Signal,          \* the abort signals the calls carry
    AccessesOf,      \* [Task -> set of accesses]
    SignalOf,        \* [Task -> Signal]
    MaxConcurrency,
    MaxQueued

ASSUME SchedulerAssumption ==
    /\ IsFiniteSet(Task)
    /\ SignalOf \in [Task -> Signal]
    /\ MaxConcurrency \in Nat \ {0}
    /\ MaxQueued \in Nat \ {0}

VARIABLES
    queue,     \* calls pushed and not yet finished, started ones included
    ticket,    \* [Task -> Nat]: the order in which calls were pushed
    clock,     \* the number of calls pushed so far
    active,    \* calls started and not yet finished
    promise,   \* [Task -> the promise of schedule(): resolved and rejected are one]
    aborted,   \* signals that have fired
    aborting,  \* calls whose abort listener is still to run
    pumping    \* pump() is on the stack

vars == <<queue, ticket, clock, active, promise, aborted, aborting, pumping>>

PromiseState == {"none", "pending", "settled"}

ConflictingCalls(t, u) == Conflict(AccessesOf[t], AccessesOf[u])

Waiting == queue \ active

Before(u, t) == ticket[u] < ticket[t]

\* mutant: only the running calls block, as before the writer-starvation fix
MutIsBlocked(t) == \E u \in active : ConflictingCalls(t, u)

\* isBlocked for a call already in the queue
IsBlocked(t) ==
    \/ \E u \in active : ConflictingCalls(t, u)
    \/ \E u \in Waiting : Before(u, t) /\ ConflictingCalls(t, u)

\* isBlocked(task, queue.length): every waiting call is an earlier one
IsBlockedOnArrival(t) ==
    \E u \in active \cup Waiting : ConflictingCalls(t, u)

Runnable == {t \in Waiting : ~IsBlocked(t)}

NextRunnable == {t \in Runnable : \A u \in Runnable : u = t \/ Before(t, u)}

Quiet == ~pumping /\ aborting = {}

Init ==
    /\ queue = {}
    /\ ticket = [t \in Task |-> 0]
    /\ clock = 0
    /\ active = {}
    /\ promise = [t \in Task |-> "none"]
    /\ aborted = {}
    /\ aborting = {}
    /\ pumping = FALSE

-----------------------------------------------------------------------------
CanStartImmediately(t) ==
    /\ Cardinality(active) < MaxConcurrency
    /\ ~IsBlockedOnArrival(t)

Refused(t) ==
    \/ SignalOf[t] \in aborted
    \/ ~CanStartImmediately(t) /\ Cardinality(Waiting) >= MaxQueued

\* schedule() of a call whose signal has fired, or that finds the queue full
ScheduleRefused(t) ==
    /\ Quiet
    /\ promise[t] = "none"
    /\ Refused(t)
    /\ promise' = [promise EXCEPT ![t] = "settled"]
    /\ UNCHANGED <<queue, ticket, clock, active, aborted, aborting, pumping>>

\* schedule() of a call that enters the queue; it ends in pump()
ScheduleQueued(t) ==
    /\ Quiet
    /\ promise[t] = "none"
    /\ ~Refused(t)
    /\ promise' = [promise EXCEPT ![t] = "pending"]
    /\ queue' = queue \cup {t}
    /\ ticket' = [ticket EXCEPT ![t] = clock + 1]
    /\ clock' = clock + 1
    /\ pumping' = TRUE
    /\ UNCHANGED <<active, aborted, aborting>>

\* one turn of the loop of pump() whose start() returned a promise
StartCall(t) ==
    /\ pumping
    /\ Cardinality(active) < MaxConcurrency
    /\ t \in NextRunnable
    /\ SignalOf[t] \notin aborted
    /\ active' = active \cup {t}
    /\ aborting' = aborting \ {t}
    /\ UNCHANGED <<queue, ticket, clock, promise, aborted, pumping>>

\* one turn of the loop whose start threw, or whose signal had fired: the call
\* becomes active and finish() takes it out again before pump goes on
StartThrows(t) ==
    /\ pumping
    /\ Cardinality(active) < MaxConcurrency
    /\ t \in NextRunnable
    /\ queue' = queue \ {t}
    /\ promise' = [promise EXCEPT ![t] = "settled"]
    /\ aborting' = aborting \ {t}
    /\ UNCHANGED <<ticket, clock, active, aborted, pumping>>

PumpReturns ==
    /\ pumping
    /\ Cardinality(active) >= MaxConcurrency \/ Runnable = {}
    /\ pumping' = FALSE
    /\ UNCHANGED <<queue, ticket, clock, active, promise, aborted, aborting>>

\* the promise of start() settled; the caller sees it before finish() runs
Settle(t) ==
    /\ Quiet
    /\ t \in active
    /\ promise[t] = "pending"
    /\ promise' = [promise EXCEPT ![t] = "settled"]
    /\ UNCHANGED <<queue, ticket, clock, active, aborted, aborting, pumping>>

\* mutant: the call leaves the queue and stays among the active ones
MutFinishKeepsActive(t) ==
    /\ Quiet
    /\ t \in active
    /\ promise[t] # "pending"
    /\ queue' = queue \ {t}
    /\ pumping' = TRUE
    /\ UNCHANGED <<ticket, clock, active, promise, aborted, aborting>>

\* mutant: finish() forgets to pump
MutFinishNoPump(t) ==
    /\ Quiet
    /\ t \in active
    /\ promise[t] # "pending"
    /\ active' = active \ {t}
    /\ queue' = queue \ {t}
    /\ UNCHANGED <<ticket, clock, promise, aborted, aborting, pumping>>

\* finish(), from the .finally of a settled call; it ends in pump()
Finish(t) ==
    /\ Quiet
    /\ t \in active
    /\ promise[t] # "pending"
    /\ active' = active \ {t}
    /\ queue' = queue \ {t}
    /\ pumping' = TRUE
    /\ UNCHANGED <<ticket, clock, promise, aborted, aborting>>

\* AbortController.abort(): the listeners of the calls that have not started
Abort(s) ==
    /\ Quiet
    /\ s \notin aborted
    /\ aborted' = aborted \cup {s}
    /\ aborting' = {t \in Waiting : SignalOf[t] = s}
    /\ UNCHANGED <<queue, ticket, clock, active, promise, pumping>>

\* mutant: an aborted call leaves the queue and nobody looks who it was blocking
MutOnAbort(t) ==
    /\ ~pumping
    /\ t \in aborting
    /\ \A u \in aborting : u = t \/ Before(t, u)
    /\ queue' = queue \ {t}
    /\ promise' = [promise EXCEPT ![t] = "settled"]
    /\ aborting' = aborting \ {t}
    /\ UNCHANGED <<ticket, clock, active, aborted, pumping>>

\* onAbort of the next listener in registration order; it ends in pump()
OnAbort(t) ==
    /\ ~pumping
    /\ t \in aborting
    /\ \A u \in aborting : u = t \/ Before(t, u)
    /\ queue' = queue \ {t}
    /\ promise' = [promise EXCEPT ![t] = "settled"]
    /\ aborting' = aborting \ {t}
    /\ pumping' = TRUE
    /\ UNCHANGED <<ticket, clock, active, aborted>>

\* the turn is over: every call was answered and nothing is left to run
Done ==
    /\ Quiet
    /\ queue = {}
    /\ \A t \in Task : promise[t] # "none"
    /\ UNCHANGED vars

PumpStep == PumpReturns \/ \E t \in Task : StartCall(t) \/ StartThrows(t)

CallStep(t) == Settle(t) \/ Finish(t)

Next ==
    \/ PumpStep
    \/ \E t \in Task :
          \/ ScheduleRefused(t)
          \/ ScheduleQueued(t)
          \/ CallStep(t)
          \/ OnAbort(t)
    \/ \E s \in Signal : Abort(s)
    \/ Done

Spec == Init /\ [][Next]_vars

\* pump and listeners are synchronous code, and a started tool call returns:
\* every execute() of the repository is bounded by the run's abort signal.
Fairness ==
    /\ WF_vars(PumpStep)
    /\ \A t \in Task : WF_vars(CallStep(t)) /\ WF_vars(OnAbort(t))

FairSpec == Spec /\ Fairness

-----------------------------------------------------------------------------
(* Every variable keeps its type; an active call is in the queue and has a *)
(* ticket no later than the clock.                                         *)
TypeOK ==
    /\ queue \subseteq Task
    /\ active \subseteq queue
    /\ ticket \in [Task -> Nat]
    /\ clock \in Nat
    /\ promise \in [Task -> PromiseState]
    /\ aborted \subseteq Signal
    /\ aborting \subseteq Waiting
    /\ pumping \in BOOLEAN

(* Two calls whose declared accesses conflict never run at the same time,  *)
(* whatever the order of submissions, failures and aborts.                 *)
NoConflictingActive ==
    \A t, u \in active : t = u \/ ~ConflictingCalls(t, u)

(* Conflicting calls run in submission order: a call that has started has  *)
(* no conflicting call submitted before it that is still unfinished, so a  *)
(* stream of readers cannot pass a writer that waits (scheduler.ts 172).   *)
ConflictsKeepOrder ==
    \A t \in active, u \in queue : Before(u, t) => ~ConflictingCalls(t, u)

(* The waiting list stays within its limit, although a call that could     *)
(* start at once is pushed without testing the limit (scheduler.ts 86-87). *)
QueueBound == Quiet => Cardinality(Waiting) <= MaxQueued

(* Work conservation: once the scheduler is at rest no call that could run *)
(* is left waiting beside a free slot, i.e. no path forgets to pump.       *)
WorkConserving ==
    ~pumping => Cardinality(active) >= MaxConcurrency \/ Runnable = {}

(* After its signal fired no call is started any more, even by the pumps   *)
(* that run between two abort listeners of the same signal.                *)
NoStartAfterAbort ==
    [][\A t \in active' \ active : SignalOf[t] \notin aborted]_vars

(* The scheduler does what the module of the tool calls takes it to do: it *)
(* starts a call only beside compatible ones, in a free slot.              *)
Contract == INSTANCE SchedulerContract
    WITH Call <- Task, Slots <- MaxConcurrency, running <- active,
         clash <- {p \in Task \X Task : ConflictingCalls(p[1], p[2])}

ImplementsContract == Contract!ContractSpec

(* Every call that enters the queue is answered.                           *)
EveryCallAnswered ==
    \A t \in Task : promise[t] = "pending" ~> promise[t] = "settled"
=============================================================================
