------------------------ MODULE ToolSchedulerProofs ------------------------
(* Proofs about ToolScheduler for any set of calls, any access declarations *)
(* and any limits.                                                          *)
EXTENDS ToolScheduler, FiniteSetTheorems, TLAPS

(* Whether two calls conflict does not depend on the order of the operands *)
(* (ToolAccesses.conflict of access.ts).                                   *)
LEMMA ConflictSymmetric ==
    ASSUME NEW left, NEW right, Conflict(left, right)
    PROVE  Conflict(right, left)
<1>1. PICK l \in left, r \in right : Conflicts(l, r)
  BY DEF Conflict
<1>2. Conflicts(r, l)
  BY <1>1 DEF Conflicts, PathOverlaps
<1> QED BY <1>1, <1>2 DEF Conflict

-----------------------------------------------------------------------------
(* A queued call was given a ticket and a promise; while pump() runs there *)
(* may be one waiting call too many, and then one of them can start.       *)
TicketsIssued ==
    \A t \in queue : promise[t] # "none" /\ ticket[t] <= clock

OverfullOnlyWhileStarting ==
    \/ Cardinality(Waiting) <= MaxQueued
    \/ /\ pumping
       /\ Cardinality(Waiting) <= MaxQueued + 1
       /\ Cardinality(active) < MaxConcurrency
       /\ Runnable # {}

IInv ==
    /\ TypeOK
    /\ TicketsIssued
    /\ NoConflictingActive
    /\ ConflictsKeepOrder
    /\ OverfullOnlyWhileStarting
    /\ WorkConserving

(* The empty scheduler is well typed.                                      *)
LEMMA TypeCorrectInitially == Init => TypeOK
<1> SUFFICES ASSUME Init PROVE TypeOK
  OBVIOUS
<1>1. ticket \in [Task -> Nat] /\ promise \in [Task -> PromiseState]
  BY DEF Init, PromiseState
<1>2. clock \in Nat /\ pumping \in BOOLEAN
  BY DEF Init
<1> QED BY <1>1, <1>2 DEF Init, TypeOK, Waiting

(* Every variable of the scheduler keeps its type, and only queued calls   *)
(* are active.                                                             *)
THEOREM TypeCorrect == Spec => []TypeOK
<1>1. TypeOK /\ [Next]_vars => TypeOK'
  <2> SUFFICES ASSUME TypeOK, [Next]_vars PROVE TypeOK'
    OBVIOUS
  <2> USE DEF TypeOK, PromiseState, Waiting
  <2>1. CASE PumpStep
    BY <2>1 DEF PumpStep, StartCall, StartThrows, PumpReturns, NextRunnable, Runnable
  <2>2. CASE \E t \in Task : ScheduleRefused(t) \/ ScheduleQueued(t)
    <3>1. PICK t \in Task : ScheduleRefused(t) \/ ScheduleQueued(t)
      BY <2>2
    <3>2. CASE ScheduleRefused(t)
      BY <3>2 DEF ScheduleRefused
    <3>3. CASE ScheduleQueued(t)
      <4>1. clock' \in Nat /\ ticket' \in [Task -> Nat] /\ aborting' \subseteq Waiting'
        BY <3>3 DEF ScheduleQueued, Quiet
      <4> QED BY <3>3, <4>1 DEF ScheduleQueued
    <3> QED BY <3>1, <3>2, <3>3
  <2>3. CASE \E t \in Task : CallStep(t) \/ OnAbort(t)
    <3>1. PICK t \in Task : Settle(t) \/ Finish(t) \/ OnAbort(t)
      BY <2>3 DEF CallStep
    <3>2. CASE Settle(t)
      BY <3>2 DEF Settle
    <3>3. CASE Finish(t)
      BY <3>3 DEF Finish, Quiet
    <3>4. CASE OnAbort(t)
      BY <3>4 DEF OnAbort
    <3> QED BY <3>1, <3>2, <3>3, <3>4
  <2>4. CASE \E s \in Signal : Abort(s)
    BY <2>4 DEF Abort
  <2>5. CASE Done \/ UNCHANGED vars
    BY <2>5 DEF Done, vars
  <2> QED BY <2>1, <2>2, <2>3, <2>4, <2>5 DEF Next
<1> QED BY <1>1, TypeCorrectInitially, PTL DEF Spec

-----------------------------------------------------------------------------
(* What a step does to the number of waiting calls.                        *)
LEMMA WaitingFinite ==
    ASSUME TypeOK PROVE IsFiniteSet(Waiting) /\ IsFiniteSet(active)
                        /\ Cardinality(Waiting) \in Nat /\ Cardinality(active) \in Nat
<1>1. Waiting \subseteq Task /\ active \subseteq Task
  BY DEF TypeOK, Waiting
<1> QED BY <1>1, FS_Subset, FS_CardinalityType, SchedulerAssumption

(* Neither pump() returning nor a step that leaves the four sets alone     *)
(* changes which calls are blocked.                                        *)
LEMMA RunnableUnchanged ==
    ASSUME queue' = queue, active' = active, ticket' = ticket
    PROVE  Runnable' = Runnable /\ Waiting' = Waiting
BY DEF Runnable, Waiting, IsBlocked, Before

(* Waiting calls leave one by one: removing one makes room for another.    *)
LEMMA WaitingLeaves ==
    ASSUME TypeOK, NEW t \in Waiting, Waiting' = Waiting \ {t},
           OverfullOnlyWhileStarting
    PROVE  Cardinality(Waiting') <= MaxQueued
<1>1. Cardinality(Waiting') = Cardinality(Waiting) - 1
  BY WaitingFinite, FS_RemoveElement
<1> QED
  BY <1>1, WaitingFinite, SchedulerAssumption DEF OverfullOnlyWhileStarting

LEMMA Step == TypeOK /\ TypeOK' /\ IInv /\ [Next]_vars => IInv'
<1> SUFFICES ASSUME TypeOK, TypeOK', IInv, [Next]_vars PROVE IInv'
  OBVIOUS
<1> USE DEF IInv
<1>1. ASSUME NEW t \in Task, ScheduleQueued(t) PROVE IInv'
  <2> USE <1>1 DEF ScheduleQueued
  <2>1. t \notin queue /\ t \notin active
    BY DEF TicketsIssued, TypeOK
  <2>2. /\ ticket'[t] = clock + 1
        /\ \A u \in queue : ticket'[u] = ticket[u] /\ ticket[u] <= clock
        /\ \A u \in queue : ticket[u] \in Nat
    BY <2>1 DEF TypeOK, TicketsIssued
  <2>3. TicketsIssued'
    BY <2>1, <2>2 DEF TicketsIssued, TypeOK
  <2>4. NoConflictingActive'
    BY DEF NoConflictingActive
  <2>5. ConflictsKeepOrder'
    <3> SUFFICES ASSUME NEW v \in active, NEW u \in queue', Before(u, v)'
                 PROVE  ~ConflictingCalls(v, u)
      BY DEF ConflictsKeepOrder
    <3>1. v \in queue
      BY DEF TypeOK
    <3>2. u # t
      BY <2>2, <3>1 DEF Before, TypeOK
    <3>3. u \in queue /\ Before(u, v)
      BY <2>2, <3>1, <3>2 DEF Before
    <3> QED BY <3>3 DEF ConflictsKeepOrder
  <2>6. OverfullOnlyWhileStarting'
    <3>1. Waiting' = Waiting \cup {t} /\ t \notin Waiting
      BY <2>1 DEF Waiting
    <3>2. Cardinality(Waiting') = Cardinality(Waiting) + 1
      BY <3>1, WaitingFinite, FS_AddElement
    <3>3. Cardinality(Waiting) <= MaxQueued
      BY DEF OverfullOnlyWhileStarting, Quiet
    <3>4. CASE CanStartImmediately(t)
      <4>1. t \in Runnable'
        BY <3>1, <3>4, <2>1, <2>2
        DEF CanStartImmediately, IsBlockedOnArrival, Runnable, IsBlocked, Waiting, Before, TypeOK
      <4>2. pumping' /\ Cardinality(active') < MaxConcurrency
        BY <3>4 DEF CanStartImmediately
      <4> QED
        BY <3>2, <3>3, <4>1, <4>2, WaitingFinite, SchedulerAssumption
        DEF OverfullOnlyWhileStarting
    <3>5. CASE ~CanStartImmediately(t)
      <4>1. Cardinality(Waiting) < MaxQueued
        BY <3>5, WaitingFinite, SchedulerAssumption DEF Refused
      <4> QED
        BY <3>2, <4>1, WaitingFinite, SchedulerAssumption DEF OverfullOnlyWhileStarting
    <3> QED BY <3>4, <3>5
  <2>7. WorkConserving'
    BY DEF WorkConserving
  <2> QED BY <2>3, <2>4, <2>5, <2>6, <2>7
<1>2. ASSUME NEW t \in Task, StartCall(t) PROVE IInv'
  <2> USE <1>2 DEF StartCall
  <2>1. t \in Waiting /\ ~IsBlocked(t)
    BY DEF NextRunnable, Runnable
  <2>2. TicketsIssued'
    BY DEF TicketsIssued
  <2>3. NoConflictingActive'
    <3> SUFFICES ASSUME NEW u \in active PROVE ~ConflictingCalls(t, u) /\ ~ConflictingCalls(u, t)
      BY DEF NoConflictingActive
    <3> QED BY <2>1, ConflictSymmetric DEF IsBlocked, ConflictingCalls
  <2>4. ConflictsKeepOrder'
    <3>1. \A u \in queue : Before(u, t) => ~ConflictingCalls(t, u)
      BY <2>1 DEF IsBlocked, Waiting
    <3> QED BY <3>1 DEF ConflictsKeepOrder, Before
  <2>5. OverfullOnlyWhileStarting'
    <3>1. Waiting' = Waiting \ {t}
      BY <2>1 DEF Waiting
    <3> QED BY <2>1, <3>1, WaitingLeaves DEF OverfullOnlyWhileStarting
  <2> QED BY <2>2, <2>3, <2>4, <2>5 DEF WorkConserving
<1>3. ASSUME NEW t \in Task, StartThrows(t) PROVE IInv'
  <2> USE <1>3 DEF StartThrows
  <2>1. t \in Waiting
    BY DEF NextRunnable, Runnable
  <2>2. TicketsIssued'
    BY DEF TicketsIssued, TypeOK
  <2>3. NoConflictingActive' /\ ConflictsKeepOrder'
    BY DEF NoConflictingActive, ConflictsKeepOrder, Before
  <2>4. OverfullOnlyWhileStarting'
    <3>1. Waiting' = Waiting \ {t}
      BY <2>1 DEF Waiting
    <3> QED BY <2>1, <3>1, WaitingLeaves DEF OverfullOnlyWhileStarting
  <2> QED BY <2>2, <2>3, <2>4 DEF WorkConserving
<1>4. ASSUME PumpReturns PROVE IInv'
  <2> USE <1>4 DEF PumpReturns
  <2>1. Runnable' = Runnable /\ Waiting' = Waiting
    BY RunnableUnchanged
  <2>2. OverfullOnlyWhileStarting'
    BY <2>1, WaitingFinite, SchedulerAssumption DEF OverfullOnlyWhileStarting
  <2>3. WorkConserving'
    BY <2>1 DEF WorkConserving
  <2> QED BY <2>2, <2>3 DEF TicketsIssued, NoConflictingActive, ConflictsKeepOrder, Before
<1>5. ASSUME NEW t \in Task, Finish(t) PROVE IInv'
  <2> USE <1>5 DEF Finish
  <2>1. Waiting' = Waiting
    BY DEF Waiting, TypeOK
  <2>2. OverfullOnlyWhileStarting'
    BY <2>1 DEF OverfullOnlyWhileStarting, Quiet
  <2> QED BY <2>2 DEF TicketsIssued, NoConflictingActive, ConflictsKeepOrder, Before, WorkConserving
<1>6. ASSUME NEW t \in Task, OnAbort(t) PROVE IInv'
  <2> USE <1>6 DEF OnAbort
  <2>1. t \in Waiting /\ Waiting' = Waiting \ {t}
    BY DEF TypeOK, Waiting
  <2>2. OverfullOnlyWhileStarting'
    BY <2>1, WaitingLeaves DEF OverfullOnlyWhileStarting
  <2>3. TicketsIssued'
    BY DEF TicketsIssued, TypeOK
  <2> QED BY <2>2, <2>3 DEF NoConflictingActive, ConflictsKeepOrder, Before, WorkConserving
<1>7. ASSUME UNCHANGED <<queue, ticket, clock, active, pumping>>,
             \A t \in queue : promise'[t] # "none"
      PROVE  IInv'
  <2>1. Runnable' = Runnable /\ Waiting' = Waiting
    BY <1>7, RunnableUnchanged
  <2>2. OverfullOnlyWhileStarting' /\ WorkConserving'
    BY <1>7, <2>1 DEF OverfullOnlyWhileStarting, WorkConserving
  <2> QED BY <1>7, <2>2 DEF TicketsIssued, NoConflictingActive, ConflictsKeepOrder, Before
<1>8. ASSUME NEW t \in Task, ScheduleRefused(t) \/ Settle(t) PROVE IInv'
  <2>1. \A u \in queue : promise'[u] # "none"
    BY <1>8 DEF ScheduleRefused, Settle, TicketsIssued, TypeOK
  <2> QED BY <1>7, <1>8, <2>1 DEF ScheduleRefused, Settle
<1>9. ASSUME (\E s \in Signal : Abort(s)) \/ Done \/ UNCHANGED vars PROVE IInv'
  <2>1. UNCHANGED <<queue, ticket, clock, active, promise, pumping>>
    BY <1>9 DEF Abort, Done, vars
  <2> QED BY <1>7, <2>1 DEF TicketsIssued
<1> QED
  BY <1>1, <1>2, <1>3, <1>4, <1>5, <1>6, <1>8, <1>9 DEF Next, PumpStep, CallStep

LEMMA Invariance == Spec => []IInv
<1>1. Init => IInv
  <2> SUFFICES ASSUME Init PROVE IInv
    OBVIOUS
  <2>1. TypeOK
    BY TypeCorrectInitially
  <2>2. Waiting = {} /\ Runnable = {}
    BY DEF Init, Waiting, Runnable
  <2>3. OverfullOnlyWhileStarting
    BY <2>2, FS_EmptySet, SchedulerAssumption DEF OverfullOnlyWhileStarting
  <2> QED
    BY <2>1, <2>2, <2>3
    DEF Init, IInv, TicketsIssued, NoConflictingActive, ConflictsKeepOrder, WorkConserving
<1> QED BY <1>1, TypeCorrect, Step, PTL DEF Spec

(* Calls whose declared accesses conflict never run together.              *)
THEOREM Exclusion == Spec => []NoConflictingActive
BY Invariance, PTL DEF IInv

(* Conflicting calls run in the order in which they were submitted.        *)
THEOREM SubmissionOrder == Spec => []ConflictsKeepOrder
BY Invariance, PTL DEF IInv

(* No path of the scheduler leaves a call waiting beside a free slot.      *)
THEOREM NoForgottenPump == Spec => []WorkConserving
BY Invariance, PTL DEF IInv

(* At rest no more than MaxQueued calls wait.                              *)
THEOREM BoundedQueue == Spec => []QueueBound
<1>1. IInv => QueueBound
  BY DEF IInv, OverfullOnlyWhileStarting, QueueBound, Quiet
<1> QED BY <1>1, Invariance, PTL

(* A call whose signal fired is never started.                             *)
THEOREM AbortedNeverStarts == Spec => NoStartAfterAbort
<1>1. [Next]_vars => [\A t \in active' \ active : SignalOf[t] \notin aborted]_vars
  <2> SUFFICES ASSUME Next PROVE \A t \in active' \ active : SignalOf[t] \notin aborted
    OBVIOUS
  <2> QED
    BY DEF Next, PumpStep, CallStep, ScheduleRefused, ScheduleQueued, StartCall, StartThrows,
           PumpReturns, Settle, Finish, Abort, OnAbort, Done, vars
<1> QED BY <1>1, PTL DEF Spec, NoStartAfterAbort
-----------------------------------------------------------------------------
(* The scheduler implements its contract: start() is a Take, finish() a    *)
(* Give, everything else is nothing to the contract.                       *)
LEMMA StartImplements ==
    ASSUME TypeOK, NEW t \in Task, StartCall(t)
    PROVE  Contract!Take(t)
<1>1. t \in Waiting /\ ~IsBlocked(t) /\ Cardinality(active) < MaxConcurrency
      /\ active' = active \cup {t}
  BY DEF StartCall, NextRunnable, Runnable
<1>2. t \notin active /\ active \subseteq Task
  BY <1>1 DEF Waiting, TypeOK
<1>3. ASSUME NEW u \in active
      PROVE  ~ConflictingCalls(t, u) /\ ~ConflictingCalls(u, t)
  BY <1>1, <1>3, ConflictSymmetric DEF IsBlocked, ConflictingCalls
<1>4. Contract!Cardinality(active) = Cardinality(active)
  BY DEF Cardinality, Contract!Cardinality
<1> QED
  BY <1>1, <1>2, <1>3, <1>4 DEF Contract!Take, Contract!MayRun, Contract!Compatible

LEMMA StepImplements ==
    ASSUME TypeOK, [Next]_vars
    PROVE  [Contract!ContractNext]_(Contract!contractVars)
<1> USE DEF Contract!contractVars
<1>1. ASSUME NEW t \in Task, StartCall(t)
      PROVE  Contract!ContractNext
  BY <1>1, StartImplements DEF Contract!ContractNext
<1>2. ASSUME NEW t \in Task, Finish(t)
      PROVE  Contract!ContractNext
  <2>1. t \in active /\ active' = active \ {t}
    BY <1>2 DEF Finish
  <2> QED
    BY <2>1 DEF Contract!ContractNext, Contract!Give
<1>3. ASSUME active' = active
      PROVE  UNCHANGED Contract!contractVars
  BY <1>3
<1>4. ASSUME ~ (\E t \in Task : StartCall(t) \/ Finish(t))
      PROVE  active' = active
  BY <1>4 DEF Next, PumpStep, CallStep, ScheduleRefused, ScheduleQueued, StartThrows,
              PumpReturns, Settle, Abort, OnAbort, Done, vars
<1> QED
  BY <1>1, <1>2, <1>3, <1>4

(* ToolExecution relies on the contract; here the scheduler is shown to    *)
(* keep it, for any calls, declarations and limits.                        *)
THEOREM SchedulerKeepsContract == Spec => ImplementsContract
<1>1. Init => Contract!ContractInit
  BY DEF Init, Contract!ContractInit
<1>2. TypeOK /\ [Next]_vars => [Contract!ContractNext]_(Contract!contractVars)
  BY StepImplements
<1> QED
  BY <1>1, <1>2, TypeCorrect, PTL DEF Spec, ImplementsContract, Contract!ContractSpec
=============================================================================
