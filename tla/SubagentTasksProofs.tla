------------------------ MODULE SubagentTasksProofs ------------------------
(***************************************************************************)
(* The slots are counted exactly, none idles while a task waits, ends      *)
(* stand and a cancel reaches: for any number of tasks, runs, slots and    *)
(* places in the queue.  Each handler ends in drain(), so the argument is  *)
(* in two halves: what the handler hands to drain() is sound, and          *)
(* drain() keeps that and fills the slots.                                 *)
(***************************************************************************)
EXTENDS SubagentTasks, FiniteSetTheorems, TLAPS

\* What holds of the variables, and of what a handler hands to drain().
Sound(q, before, st, running, slots) ==
  /\ q \in SUBSET Task /\ IsFiniteSet(q)
  /\ before \in [Task -> SUBSET Task]
  /\ st \in [Task -> Status]
  /\ running \in SUBSET Task /\ IsFiniteSet(running)
  /\ slots = Cardinality(running) /\ slots <= MaxConcurrent
  /\ q = {t \in Task : st[t] = "queued"}
  /\ \A t \in Task : st[t] = "running" => t \in running
  /\ \A t \in running : st[t] \notin {"none", "queued"}

Coherent == Sound(queue, ahead, status, executing, active)

\* The queue is bounded, and only full slots keep a task in it.
Waiting ==
  /\ queue # {} => active = MaxConcurrent
  /\ Cardinality(queue) <= MaxPending

\* Nothing of a closed manager or a cancelled run waits or runs.
Reached ==
  \A t \in Task : closed \/ ParentOf[t] \in cancelled =>
     status[t] \notin {"queued", "running"}

IInv ==
  /\ Coherent
  /\ Waiting
  /\ Reached
  /\ cancelled \in SUBSET Run
  /\ closed \in BOOLEAN

(***************************************************************************)
(* drain() keeps what it is given sound, fills the slots, and starts and   *)
(* settles only tasks that were in the queue.                              *)
(***************************************************************************)
LEMMA DrainFills ==
  ASSUME NEW q, NEW before, NEW st, NEW running, NEW slots,
         Sound(q, before, st, running, slots),
         closed => q = {},
         Drain(q, before, st, running, slots)
  PROVE  /\ Sound(queue', ahead', status', executing', active')
         /\ queue' \subseteq q
         /\ queue' # {} => active' = MaxConcurrent
         /\ queue' = q => active' = slots
         /\ executing' \ running \subseteq q
         /\ \A t \in Task \ q : status'[t] = st[t]
<1> USE DEF Sound
<1>1. CASE closed
  <2>1. queue' = {} /\ ahead' = [t \in Task |-> {}] /\ status' = st
        /\ executing' = running /\ active' = slots
    BY <1>1 DEF Drain, Among
  <2> QED
    BY <1>1, <2>1
<1>2. CASE ~closed
  <2> PICK started \in SUBSET q : \E vetoed \in SUBSET (q \ started) :
         LET left == q \ (started \cup vetoed)
             full == slots + Cardinality(started) >= MaxConcurrent
         IN  /\ slots + Cardinality(started) <= MaxConcurrent \/ started = {}
             /\ left = {} \/ full
             /\ \A t \in started \cup vetoed : before[t] \cap left = {}
             /\ full => \A v \in vetoed : \E t \in started : v \in before[t]
             /\ queue' = left
             /\ ahead' = Among(before, left)
             /\ status' = [t \in Task |-> IF t \in started THEN "running"
                                          ELSE IF t \in vetoed THEN "aborted"
                                          ELSE st[t]]
             /\ executing' = running \cup started
             /\ active' = slots + Cardinality(started)
    BY <1>2 DEF Drain
  <2> PICK vetoed \in SUBSET (q \ started) :
         LET left == q \ (started \cup vetoed)
             full == slots + Cardinality(started) >= MaxConcurrent
         IN  /\ slots + Cardinality(started) <= MaxConcurrent \/ started = {}
             /\ left = {} \/ full
             /\ \A t \in started \cup vetoed : before[t] \cap left = {}
             /\ full => \A v \in vetoed : \E t \in started : v \in before[t]
             /\ queue' = left
             /\ ahead' = Among(before, left)
             /\ status' = [t \in Task |-> IF t \in started THEN "running"
                                          ELSE IF t \in vetoed THEN "aborted"
                                          ELSE st[t]]
             /\ executing' = running \cup started
             /\ active' = slots + Cardinality(started)
    OBVIOUS
  <2>1. /\ IsFiniteSet(started)
        /\ IsFiniteSet(queue')
        /\ Cardinality(started) \in Nat
        /\ slots \in Nat
    BY FS_Subset, FS_CardinalityType
  <2>2. running \cap started = {}
    OBVIOUS
  <2>3. /\ IsFiniteSet(executing')
        /\ active' = Cardinality(executing')
    <3>1. IsFiniteSet(running \cup started)
      BY <2>1, FS_Union
    <3>2. Cardinality(running \cup started)
            = Cardinality(running) + Cardinality(started) - Cardinality(running \cap started)
      BY <2>1, FS_Union
    <3>3. Cardinality(running \cap started) = 0
      BY <2>2, FS_EmptySet
    <3> QED
      BY <2>1, <3>1, <3>2, <3>3
  <2>4. active' <= MaxConcurrent /\ (queue' # {} => active' = MaxConcurrent)
    <3>1. started = {} => Cardinality(started) = 0
      BY FS_EmptySet
    <3> QED
      BY <2>1, <3>1, LimitAssumption
  <2>5. status' \in [Task -> Status]
    BY DEF Status, Terminal
  <2>6. ahead' \in [Task -> SUBSET Task]
    BY DEF Among
  <2>7. queue' = {t \in Task : status'[t] = "queued"}
    OBVIOUS
  <2>8. /\ \A t \in Task : status'[t] = "running" => t \in executing'
        /\ \A t \in executing' : status'[t] \notin {"none", "queued"}
    OBVIOUS
  <2>9. \A t \in Task \ q : status'[t] = st[t]
    OBVIOUS
  <2>10. queue' = q => active' = slots
    <3>1. queue' = q => started = {}
      OBVIOUS
    <3> QED
      BY <3>1, <2>1, FS_EmptySet
  <2> QED
    BY <2>1, <2>3, <2>4, <2>5, <2>6, <2>7, <2>8, <2>9, <2>10
<1> QED
  BY <1>1, <1>2

(* Aborting tasks hands a sound state to drain(), and they have settled.   *)
LEMMA AbortSettles ==
  ASSUME IInv, NEW S \in SUBSET Task, NEW outcome \in {"aborted", "timed_out"}
  PROVE  /\ Sound(queue \ S, ahead, Settled(S, outcome), executing, active)
         /\ IsFiniteSet(queue \ S) /\ Cardinality(queue \ S) <= Cardinality(queue)
         /\ \A t \in S : Settled(S, outcome)[t] \in Terminal
         /\ \A t \in Task \ S : Settled(S, outcome)[t] = status[t]
<1> USE DEF IInv, Coherent, Sound, Settled, Ended, Status, Terminal
<1>1. IsFiniteSet(queue \ S) /\ Cardinality(queue \ S) <= Cardinality(queue)
  BY FS_Subset
<1>2. Settled(S, outcome) \in [Task -> Status]
  OBVIOUS
<1>3. queue \ S = {t \in Task : Settled(S, outcome)[t] = "queued"}
  OBVIOUS
<1>4. /\ \A t \in Task : Settled(S, outcome)[t] = "running" => t \in executing
      /\ \A t \in executing : Settled(S, outcome)[t] \notin {"none", "queued"}
  OBVIOUS
<1>5. /\ \A t \in S : Settled(S, outcome)[t] \in Terminal
      /\ \A t \in Task \ S : Settled(S, outcome)[t] = status[t]
  OBVIOUS
<1> QED
  BY <1>1, <1>2, <1>3, <1>4, <1>5

\* What one step may do to a task: its end stands, and the code of a task
\* of a closed manager or a cancelled run is not started.
PerTask ==
  \A t \in Task :
    /\ status[t] \in Terminal => status'[t] = status[t]
    /\ closed \/ ParentOf[t] \in cancelled => (t \in executing' => t \in executing)

LEMMA Initially == Init => IInv
<1> SUFFICES ASSUME Init PROVE IInv
  OBVIOUS
<1>1. Cardinality({}) = 0 /\ IsFiniteSet({})
  BY FS_EmptySet
<1>2. Coherent
  BY <1>1, LimitAssumption DEF Init, Coherent, Sound, Status, Terminal
<1>3. Waiting /\ Reached
  BY <1>1, LimitAssumption DEF Init, Waiting, Reached
<1> QED
  BY <1>2, <1>3 DEF Init, IInv

(***************************************************************************)
(* What a handler owes drain(): sound values within the bounds, in which   *)
(* ends stand and nothing of a closed manager or a cancelled run waits.    *)
(* What drain() then leaves: the invariant, and PerTask for the step.      *)
(***************************************************************************)
Handed(q, before, st, running, slots) ==
  /\ Sound(q, before, st, running, slots)
  /\ Cardinality(q) <= MaxPending \/ (slots < MaxConcurrent /\ Cardinality(q) <= 1)
  /\ \A t \in Task : closed \/ ParentOf[t] \in cancelled' =>
        st[t] \notin {"queued", "running"}
  /\ \A t \in Task : status[t] \in Terminal => st[t] = status[t]
  /\ \A t \in q : ~closed /\ ParentOf[t] \notin cancelled
  /\ running \subseteq executing

LEMMA DrainKeeps ==
  ASSUME NEW q, NEW before, NEW st, NEW running, NEW slots,
         Handed(q, before, st, running, slots),
         Drain(q, before, st, running, slots),
         closed' = closed, closed \in BOOLEAN, cancelled' \in SUBSET Run
  PROVE  IInv' /\ PerTask
<1> USE DEF Handed
<1>1. /\ Sound(queue', ahead', status', executing', active')
      /\ queue' \subseteq q
      /\ queue' # {} => active' = MaxConcurrent
      /\ queue' = q => active' = slots
      /\ executing' \ running \subseteq q
      /\ \A t \in Task \ q : status'[t] = st[t]
  BY DrainFills
<1>2. Coherent'
  BY <1>1 DEF Coherent
<1>3. Reached'
  BY <1>1 DEF Reached, Sound
<1>4. Cardinality(queue') <= MaxPending
  <2>1. /\ IsFiniteSet(q) /\ IsFiniteSet(queue')
        /\ Cardinality(queue') \in Nat /\ Cardinality(q) \in Nat
        /\ Cardinality(queue') <= Cardinality(q)
        /\ Cardinality(queue') = Cardinality(q) => queue' = q
    BY <1>1, FS_Subset, FS_CardinalityType DEF Sound
  <2>2. CASE Cardinality(q) <= MaxPending
    BY <2>1, <2>2, LimitAssumption
  <2>3. CASE slots < MaxConcurrent /\ Cardinality(q) <= 1
    <3>1. queue' = {}
      <4>1. SUFFICES ASSUME queue' # {} PROVE FALSE
        OBVIOUS
      <4>2. Cardinality(queue') # 0
        BY <4>1, <2>1, FS_EmptySet
      <4>3. queue' = q
        BY <4>2, <2>1, <2>3
      <4> QED
        BY <4>1, <4>3, <1>1, <2>3, LimitAssumption
    <3> QED
      BY <3>1, FS_EmptySet, LimitAssumption
  <2> QED
    BY <2>2, <2>3
<1>5. PerTask
  BY <1>1 DEF PerTask, Sound, Terminal
<1> QED
  BY <1>1, <1>2, <1>3, <1>4, <1>5 DEF IInv, Waiting

(***************************************************************************)
(* Every step keeps the invariant, and does to a task what PerTask allows. *)
(***************************************************************************)
LEMMA Inductive == IInv /\ [Next]_vars => IInv' /\ PerTask
<1> SUFFICES ASSUME IInv, [Next]_vars PROVE IInv' /\ PerTask
  OBVIOUS
<1>b. Cardinality(queue) \in Nat /\ Cardinality(executing) \in Nat
  BY FS_CardinalityType DEF IInv, Coherent, Sound
<1>c. \A t \in queue : ~closed /\ ParentOf[t] \notin cancelled
  BY DEF IInv, Coherent, Sound, Reached
<1>1. CASE UNCHANGED vars
  BY <1>1 DEF vars, IInv, Coherent, Sound, Waiting, Reached, PerTask
<1>2. ASSUME NEW t \in Task, Submit(t) PROVE IInv' /\ PerTask
  <2>1. CASE ParentOf[t] \in cancelled
    <3> DEFINE st == [status EXCEPT ![t] = "aborted"]
    <3>1. Drain(queue, ahead, st, executing, active)
      BY <1>2, <2>1 DEF Submit
    <3>2. Sound(queue, ahead, st, executing, active)
      BY <1>2 DEF Submit, IInv, Coherent, Sound, Status, Terminal
    <3>3. \A u \in Task : closed \/ ParentOf[u] \in cancelled' =>
             st[u] \notin {"queued", "running"}
      BY <1>2 DEF Submit, IInv, Coherent, Sound, Reached
    <3>4. \A u \in Task : status[u] \in Terminal => st[u] = status[u]
      BY <1>2 DEF Submit, Terminal, IInv, Coherent, Sound
    <3>5. ~closed /\ closed' = closed /\ closed \in BOOLEAN /\ cancelled' \in SUBSET Run
          /\ Cardinality(queue) <= MaxPending
      BY <1>2 DEF Submit, IInv, Waiting
    <3> HIDE DEF st
    <3> QED
      <4>1. Handed(queue, ahead, st, executing, active)
        BY <1>c, <3>2, <3>3, <3>4, <3>5 DEF Handed
      <4> QED
        BY <3>1, <3>5, <4>1, DrainKeeps
  <2>2. CASE ParentOf[t] \notin cancelled
    <3> DEFINE st == [status EXCEPT ![t] = "queued"]
               before == [ahead EXCEPT ![t] = queue]
               q == queue \cup {t}
    <3>1. Drain(q, before, st, executing, active)
      BY <1>2, <2>2 DEF Submit
    <3>2. IsFiniteSet(q) /\ Cardinality(q) = Cardinality(queue) + 1
      <4>1. t \notin queue
        BY <1>2 DEF Submit, IInv, Coherent, Sound
      <4> QED
        BY <4>1, FS_AddElement DEF IInv, Coherent, Sound
    <3>3. Sound(q, before, st, executing, active)
      BY <1>2, <3>2 DEF Submit, IInv, Coherent, Sound, Status, Terminal
    <3>4. Cardinality(q) <= MaxPending \/ (active < MaxConcurrent /\ Cardinality(q) <= 1)
      <4>1. queue = {} => Cardinality(queue) = 0
        BY FS_EmptySet
      <4>2. Cardinality(q) <= MaxPending \/ (active < MaxConcurrent /\ queue = {})
        BY <1>2, <1>b, <3>2, LimitAssumption DEF Submit, Admitted
      <4> HIDE DEF q
      <4> QED
        BY <1>b, <3>2, <4>1, <4>2, LimitAssumption
    <3>5. \A u \in Task : closed \/ ParentOf[u] \in cancelled' =>
             st[u] \notin {"queued", "running"}
      BY <1>2, <2>2 DEF Submit, IInv, Coherent, Sound, Reached
    <3>6. ~closed /\ closed' = closed /\ closed \in BOOLEAN /\ cancelled' \in SUBSET Run
      BY <1>2 DEF Submit, IInv
    <3>7. \A u \in Task : status[u] \in Terminal => st[u] = status[u]
      BY <1>2 DEF Submit, Terminal, IInv, Coherent, Sound
    <3>8. \A u \in q : ~closed /\ ParentOf[u] \notin cancelled
      BY <1>c, <2>2, <3>6
    <3> HIDE DEF st, before, q
    <3> QED
      <4>1. Handed(q, before, st, executing, active)
        BY <3>3, <3>4, <3>5, <3>7, <3>8 DEF Handed
      <4> QED
        BY <3>1, <3>6, <4>1, DrainKeeps
  <2> QED
    BY <2>1, <2>2
<1>3. ASSUME NEW t \in Task, NEW outcome \in {"completed", "failed"}, Return(t, outcome)
      PROVE IInv' /\ PerTask
  <2> DEFINE st == Settled({t}, outcome)
             running == executing \ {t}
             slots == active - 1
  <2>1. Drain(queue, ahead, st, running, slots)
    BY <1>3 DEF Return
  <2>2. t \in executing /\ status[t] \notin {"none", "queued"}
    BY <1>3 DEF Return, IInv, Coherent, Sound
  <2>3. IsFiniteSet(running) /\ slots = Cardinality(running) /\ slots <= MaxConcurrent
    BY <1>b, <2>2, FS_RemoveElement, LimitAssumption DEF IInv, Coherent, Sound
  <2>4. /\ st \in [Task -> Status]
        /\ \A u \in Task : u # t => st[u] = status[u]
        /\ st[t] \in Terminal
    BY <2>2 DEF Settled, Ended, IInv, Coherent, Sound, Status, Terminal
  <2>5. Sound(queue, ahead, st, running, slots)
    <3>1. queue = {u \in Task : st[u] = "queued"}
      BY <2>2, <2>4 DEF IInv, Coherent, Sound, Terminal
    <3>2. /\ \A u \in Task : st[u] = "running" => u \in running
          /\ \A u \in running : st[u] \notin {"none", "queued"}
      BY <2>2, <2>4 DEF IInv, Coherent, Sound, Terminal
    <3> QED
      BY <2>3, <2>4, <3>1, <3>2 DEF IInv, Coherent, Sound
  <2>6. \A u \in Task : closed \/ ParentOf[u] \in cancelled' =>
           st[u] \notin {"queued", "running"}
    BY <1>3, <2>4 DEF Return, IInv, Reached, Terminal
  <2>7. closed' = closed /\ closed \in BOOLEAN /\ cancelled' \in SUBSET Run
        /\ Cardinality(queue) <= MaxPending
    BY <1>3 DEF Return, IInv, Waiting
  <2>8. \A u \in Task : status[u] \in Terminal => st[u] = status[u]
    BY DEF Settled, Ended
  <2>9. running \subseteq executing
    OBVIOUS
  <2> HIDE DEF st, running, slots
  <2> QED
    <3>1. Handed(queue, ahead, st, running, slots)
      BY <1>c, <2>5, <2>6, <2>7, <2>8, <2>9 DEF Handed
    <3> QED
      BY <2>1, <2>7, <3>1, DrainKeeps
<1>4. ASSUME NEW S \in SUBSET Task, NEW outcome \in {"aborted", "timed_out"},
             AbortTasks(S, outcome), cancelled' \in SUBSET Run,
             \A t \in Task : ParentOf[t] \in cancelled' \ cancelled =>
                t \in S \/ status[t] \notin {"queued", "running"}
      PROVE  IInv' /\ PerTask
  <2> DEFINE st == Settled(S, outcome)
             q == queue \ S
  <2>1. /\ Sound(q, ahead, st, executing, active)
        /\ IsFiniteSet(q) /\ Cardinality(q) <= Cardinality(queue)
        /\ \A t \in S : st[t] \in Terminal
        /\ \A t \in Task \ S : st[t] = status[t]
    BY AbortSettles
  <2>2. Drain(q, ahead, st, executing, active) /\ closed' = closed
    BY <1>4 DEF AbortTasks
  <2>3. Cardinality(q) <= MaxPending
    <3>1. Cardinality(q) \in Nat
      BY <2>1, FS_CardinalityType
    <3> HIDE DEF q
    <3> QED
      BY <1>b, <2>1, <3>1, LimitAssumption DEF IInv, Waiting
  <2>4. \A t \in Task : closed \/ ParentOf[t] \in cancelled' =>
           st[t] \notin {"queued", "running"}
    BY <1>4, <2>1 DEF IInv, Reached, Terminal
  <2>6. closed \in BOOLEAN
    BY DEF IInv
  <2>7. \A t \in Task : status[t] \in Terminal => st[t] = status[t]
    BY DEF Settled, Ended
  <2>8. \A t \in q : ~closed /\ ParentOf[t] \notin cancelled
    BY <1>c
  <2> HIDE DEF st, q
  <2> QED
    <3>1. Handed(q, ahead, st, executing, active)
      BY <2>1, <2>3, <2>4, <2>7, <2>8 DEF Handed
    <3> QED
      BY <1>4, <2>2, <2>6, <3>1, DrainKeeps
<1>5. ASSUME NEW t \in Task, Timeout(t) PROVE IInv' /\ PerTask
  BY <1>4, <1>5 DEF Timeout, IInv
<1>6. ASSUME NEW t \in Task, CancelTask(t) PROVE IInv' /\ PerTask
  BY <1>4, <1>6 DEF CancelTask, IInv
<1>7. ASSUME NEW r \in Run, CancelParent(r) PROVE IInv' /\ PerTask
  <2>1. \A t \in Task : ParentOf[t] \in cancelled' \ cancelled =>
           t \in {u \in Live : ParentOf[u] = r} \/ status[t] \notin {"queued", "running"}
    BY <1>7 DEF CancelParent, Live
  <2>2. {u \in Live : ParentOf[u] = r} \in SUBSET Task
    BY DEF Live
  <2>3. cancelled' \in SUBSET Run
    BY <1>7 DEF CancelParent, IInv
  <2>4. AbortTasks({u \in Live : ParentOf[u] = r}, "aborted")
    BY <1>7 DEF CancelParent
  <2> QED
    BY <1>4, <2>1, <2>2, <2>3, <2>4
<1>8. CASE Close
  <2> DEFINE st == Settled(Live, "aborted")
  <2>1. Live \in SUBSET Task /\ queue \ Live = {}
    BY DEF Live, IInv, Coherent, Sound
  <2>2. Sound(queue \ Live, ahead, st, executing, active)
    BY <2>1, AbortSettles
  <2>3. queue' = {} /\ ahead' = [t \in Task |-> {}]
    BY <1>8, <2>1 DEF Close, Among
  <2>4. /\ \A t \in Live : st[t] \in Terminal
        /\ \A t \in Task \ Live : st[t] = status[t]
    BY <2>1, AbortSettles
  <2>5. status' = st /\ executing' = executing /\ active' = active
        /\ closed' = TRUE /\ cancelled' = cancelled
    BY <1>8 DEF Close
  <2>6. Coherent'
    BY <2>1, <2>2, <2>3, <2>5 DEF Coherent, Sound
  <2>7. Reached'
    BY <2>4, <2>5 DEF Reached, Live, Terminal
  <2>8. Waiting'
    BY <2>3, FS_EmptySet, LimitAssumption DEF Waiting
  <2>9. PerTask
    BY <2>5 DEF PerTask, Settled, Ended
  <2> QED
    BY <2>5, <2>6, <2>7, <2>8, <2>9 DEF IInv
<1> QED
  BY <1>1, <1>2, <1>3, <1>5, <1>6, <1>7, <1>8 DEF Next

LEMMA Invariance == Spec => []IInv
  BY Initially, Inductive, PTL DEF Spec

(* Type correctness, for any number of tasks, runs, slots and places.      *)
THEOREM TypeCorrect == Spec => []TypeOK
<1>1. IInv => TypeOK
  BY FS_CardinalityType DEF IInv, Coherent, Sound, TypeOK
<1> QED
  BY <1>1, Invariance, PTL

(* The counter by which drain() grants slots is the number of children     *)
(* whose code has not settled, and never above the limit.                  *)
THEOREM ExactSlots == Spec => []SlotsCounted
<1>1. IInv => SlotsCounted
  BY DEF IInv, Coherent, Sound, SlotsCounted
<1> QED
  BY <1>1, Invariance, PTL

(* A task waits only while all slots are taken, in a bounded queue that    *)
(* holds exactly the queued tasks.                                         *)
THEOREM WorkConserving == Spec => []NoIdleSlot
<1>1. IInv => NoIdleSlot
  BY DEF IInv, Coherent, Sound, Waiting, NoIdleSlot
<1> QED
  BY <1>1, Invariance, PTL

(* No late result, second cancel or close rewrites how a task ended.       *)
THEOREM EndsStand == Spec => OutcomeStands
<1>1. IInv /\ [Next]_vars =>
        [\A t \in Task : status[t] \in Terminal => status'[t] = status[t]]_vars
  BY Inductive DEF PerTask
<1> QED
  BY <1>1, Invariance, PTL DEF Spec, OutcomeStands

(* A cancel of the parent run and a close reach every task, those that are *)
(* submitted later included.                                               *)
THEOREM CancelsReach == Spec => CancelReaches
<1>1. IInv /\ [Next]_vars =>
        [\A t \in Task : closed \/ ParentOf[t] \in cancelled =>
            /\ t \in executing' => t \in executing
            /\ status[t] \notin {"queued", "running"}]_vars
  BY Inductive DEF PerTask, IInv, Reached
<1> QED
  BY <1>1, Invariance, PTL DEF Spec, CancelReaches

-----------------------------------------------------------------------------
(* The contract of each task.  A handler does one thing to a task before   *)
(* it calls drain(), and drain() at most one more: both together are one   *)
(* step of the contract.                                                   *)

Code == [t \in Task |-> IF t \in executing THEN "going"
                        ELSE IF status[t] \in {"none", "queued"} THEN "waiting"
                        ELSE "over"]

Moves(t) ==
  \/ Contract!Enter(t) \/ Contract!Start(t) \/ Contract!Withdraw(t) \/ Contract!Abandon(t)
  \/ Contract!CodeReturns(t) \/ Contract!Stays(t)

\* What a handler makes of a task before the drain: nothing, a queued or a
\* refused entry, an abort, or the end of its code.
Prepared(t, st, running) ==
  \/ st[t] = status[t] /\ (t \in running <=> t \in executing)
  \/ /\ status[t] = "none" /\ st[t] \in {"queued", "aborted"}
     /\ t \notin running /\ t \notin executing
  \/ /\ status[t] \in {"queued", "running"} /\ st[t] \in {"aborted", "timed_out"}
     /\ t \in running <=> t \in executing
  \/ /\ t \in executing /\ t \notin running
     /\ \/ status[t] = "running" /\ st[t] \in {"completed", "failed"}
        \/ status[t] \in {"aborted", "timed_out"} /\ st[t] = status[t]

\* What drain() makes of it: nothing, a start or a veto.
Drained(t, st, running) ==
  \/ status'[t] = st[t] /\ (t \in executing' <=> t \in running)
  \/ st[t] = "queued" /\ t \notin running /\ status'[t] = "running" /\ t \in executing'
  \/ st[t] = "queued" /\ t \notin running /\ status'[t] = "aborted" /\ t \notin executing'

LEMMA DrainTouches ==
  ASSUME NEW q, NEW before, NEW st, NEW running, NEW slots,
         Sound(q, before, st, running, slots),
         Drain(q, before, st, running, slots),
         NEW t \in Task
  PROVE  Drained(t, st, running)
<1> USE DEF Sound, Drained
<1>1. CASE closed
  BY <1>1 DEF Drain
<1>2. CASE ~closed
  <2>1. \E started \in SUBSET q, vetoed \in SUBSET q :
          /\ status' = [u \in Task |-> IF u \in started THEN "running"
                                       ELSE IF u \in vetoed THEN "aborted"
                                       ELSE st[u]]
          /\ executing' = running \cup started
    BY <1>2 DEF Drain
  <2>2. \A u \in q : st[u] = "queued" /\ u \notin running
    OBVIOUS
  <2> QED
    BY <2>1, <2>2
<1> QED
  BY <1>1, <1>2

\* What the invariant says of one task.
LEMMA TaskCoherent ==
  ASSUME IInv, NEW t \in Task
  PROVE  /\ status[t] \in Status
         /\ status[t] = "running" => t \in executing
         /\ t \in executing => status[t] \notin {"none", "queued"}
BY DEF IInv, Coherent, Sound

LEMMA HandlerMoves ==
  ASSUME IInv, NEW t \in Task, NEW st, NEW running,
         Prepared(t, st, running), Drained(t, st, running)
  PROVE  Moves(t)
<1> USE DEF Moves, Contract!Cut, Contract!Own
<1>0. /\ status[t] \in Status
      /\ status[t] = "running" => t \in executing
      /\ t \in executing => status[t] \notin {"none", "queued"}
  BY TaskCoherent
<1>1. CASE st[t] = status[t] /\ (t \in running <=> t \in executing)
  BY <1>0, <1>1 DEF Drained, Contract!Stays, Contract!Start, Contract!Withdraw
<1>2. CASE /\ status[t] = "none" /\ st[t] \in {"queued", "aborted"}
           /\ t \notin running /\ t \notin executing
  BY <1>0, <1>2 DEF Drained, Contract!Enter, Contract!Start, Contract!Withdraw
<1>3. CASE /\ status[t] \in {"queued", "running"} /\ st[t] \in {"aborted", "timed_out"}
           /\ t \in running <=> t \in executing
  BY <1>0, <1>3 DEF Drained, Contract!Withdraw, Contract!Abandon
<1>4. CASE /\ t \in executing /\ t \notin running
           /\ \/ status[t] = "running" /\ st[t] \in {"completed", "failed"}
              \/ status[t] \in {"aborted", "timed_out"} /\ st[t] = status[t]
  BY <1>0, <1>4 DEF Drained, Contract!CodeReturns
<1> QED
  BY <1>1, <1>2, <1>3, <1>4 DEF Prepared

\* A child whose code still runs was not ended by that code.
Owed == \A t \in executing : status[t] \in {"running", "aborted", "timed_out"}

LEMMA OwedKept ==
  ASSUME IInv, Owed, \A t \in Task : Moves(t), executing' \subseteq Task
  PROVE  Owed'
<1> SUFFICES ASSUME NEW t \in executing' PROVE status'[t] \in {"running", "aborted", "timed_out"}
  BY DEF Owed
<1>1. t \in Task /\ Moves(t)
  OBVIOUS
<1>2. CASE t \in executing
  <2>1. status[t] \in {"running", "aborted", "timed_out"}
    BY <1>2 DEF Owed
  <2> QED
    BY <1>1, <1>2, <2>1
       DEF Moves, Contract!Enter, Contract!Start, Contract!Withdraw, Contract!Abandon,
           Contract!CodeReturns, Contract!Stays, Contract!Cut
<1>3. CASE t \notin executing
  BY <1>1, <1>3
     DEF Moves, Contract!Enter, Contract!Start, Contract!Withdraw, Contract!Abandon,
         Contract!CodeReturns, Contract!Stays
<1> QED
  BY <1>2, <1>3

LEMMA AbortMoves ==
  ASSUME IInv, NEW S \in SUBSET Task, NEW outcome \in {"aborted", "timed_out"},
         S \subseteq Live, AbortTasks(S, outcome), NEW t \in Task
  PROVE  Moves(t)
<1> DEFINE st == Settled(S, outcome)
<1>1. Sound(queue \ S, ahead, st, executing, active)
  BY AbortSettles
<1>2. Drain(queue \ S, ahead, st, executing, active)
  BY DEF AbortTasks
<1>3. Prepared(t, st, executing)
  BY DEF Prepared, Settled, Ended, Live, Terminal
<1>4. Drained(t, st, executing)
  <2> HIDE DEF st
  <2> QED
    BY <1>1, <1>2, DrainTouches
<1> QED
  BY <1>3, <1>4, HandlerMoves

LEMMA SubmitMoves ==
  ASSUME IInv, NEW u \in Task, Submit(u), NEW t \in Task
  PROVE  Moves(t)
<1>1. status[u] = "none" /\ u \notin executing /\ u \notin queue
  BY DEF Submit, IInv, Coherent, Sound
<1>2. CASE ParentOf[u] \in cancelled
  <2> DEFINE st == [status EXCEPT ![u] = "aborted"]
  <2>1. Drain(queue, ahead, st, executing, active)
    BY <1>2 DEF Submit
  <2>2. Sound(queue, ahead, st, executing, active)
    BY <1>1 DEF IInv, Coherent, Sound, Status, Terminal
  <2>3. Prepared(t, st, executing)
    BY <1>1 DEF Prepared, IInv, Coherent, Sound
  <2> HIDE DEF st
  <2> QED
    BY <2>1, <2>2, <2>3, DrainTouches, HandlerMoves
<1>3. CASE ParentOf[u] \notin cancelled
  <2> DEFINE st == [status EXCEPT ![u] = "queued"]
             before == [ahead EXCEPT ![u] = queue]
             q == queue \cup {u}
  <2>1. Drain(q, before, st, executing, active)
    BY <1>3 DEF Submit
  <2>2. Sound(q, before, st, executing, active)
    <3>1. IsFiniteSet(q)
      BY FS_AddElement DEF IInv, Coherent, Sound
    <3> QED
      BY <1>1, <3>1 DEF IInv, Coherent, Sound, Status, Terminal
  <2>3. Prepared(t, st, executing)
    BY <1>1 DEF Prepared, IInv, Coherent, Sound
  <2> HIDE DEF st, before, q
  <2> QED
    BY <2>1, <2>2, <2>3, DrainTouches, HandlerMoves
<1> QED
  BY <1>2, <1>3

LEMMA ReturnMoves ==
  ASSUME IInv, Owed, NEW u \in Task, NEW outcome \in {"completed", "failed"}, Return(u, outcome),
         NEW t \in Task
  PROVE  Moves(t)
<1> DEFINE st == Settled({u}, outcome)
           running == executing \ {u}
           slots == active - 1
<1>1. Drain(queue, ahead, st, running, slots)
  BY DEF Return
<1>2. u \in executing /\ status[u] \in {"running", "aborted", "timed_out"}
  BY DEF Return, Owed
<1>3. /\ st \in [Task -> Status]
      /\ \A v \in Task : v # u => st[v] = status[v]
      /\ status[u] = "running" => st[u] = outcome
      /\ status[u] # "running" => st[u] = status[u]
  BY <1>2 DEF Settled, Ended, IInv, Coherent, Sound, Status, Terminal
<1>4. Prepared(t, st, running)
  BY <1>2, <1>3 DEF Prepared
<1>5. Sound(queue, ahead, st, running, slots)
  <2>1. IsFiniteSet(running) /\ slots = Cardinality(running) /\ slots <= MaxConcurrent
    <3>1. Cardinality(executing) \in Nat
      BY FS_CardinalityType DEF IInv, Coherent, Sound
    <3> QED
      BY <1>2, <3>1, FS_RemoveElement, LimitAssumption DEF IInv, Coherent, Sound
  <2>2. queue = {v \in Task : st[v] = "queued"}
    BY <1>2, <1>3 DEF IInv, Coherent, Sound
  <2>3. /\ \A v \in Task : st[v] = "running" => v \in running
        /\ \A v \in running : st[v] \notin {"none", "queued"}
    BY <1>2, <1>3 DEF IInv, Coherent, Sound
  <2> QED
    BY <1>3, <2>1, <2>2, <2>3 DEF IInv, Coherent, Sound
<1>6. Drained(t, st, running)
  <2> HIDE DEF st, running, slots
  <2> QED
    BY <1>1, <1>5, DrainTouches
<1> QED
  BY <1>4, <1>6, HandlerMoves

LEMMA CloseMoves ==
  ASSUME IInv, Close, NEW t \in Task
  PROVE  Moves(t)
<1> DEFINE st == Settled(Live, "aborted")
<1>1. status' = st /\ executing' = executing
  BY DEF Close
<1>2. Prepared(t, st, executing)
  BY DEF Prepared, Settled, Ended, Live, Terminal
<1>3. Drained(t, st, executing)
  BY <1>1 DEF Drained
<1> QED
  BY <1>2, <1>3, HandlerMoves

LEMMA TaskMoves ==
  ASSUME IInv, Owed, [Next]_vars, NEW t \in Task
  PROVE  Moves(t)
<1>1. ASSUME NEW u \in Task, Submit(u) PROVE Moves(t)
  BY <1>1, SubmitMoves
<1>2. ASSUME NEW u \in Task, Timeout(u) PROVE Moves(t)
  <2>1. {u} \subseteq Live /\ {u} \in SUBSET Task /\ AbortTasks({u}, "timed_out")
    BY <1>2 DEF Timeout, Expires, Live
  <2> QED
    BY <2>1, AbortMoves
<1>3. ASSUME NEW u \in Task, CancelTask(u) PROVE Moves(t)
  <2>1. {u} \subseteq Live /\ {u} \in SUBSET Task /\ AbortTasks({u}, "aborted")
    BY <1>3 DEF CancelTask
  <2> QED
    BY <2>1, AbortMoves
<1>4. ASSUME NEW r \in Run, CancelParent(r) PROVE Moves(t)
  <2> DEFINE S == {u \in Live : ParentOf[u] = r}
  <2>1. S \subseteq Live /\ S \in SUBSET Task /\ AbortTasks(S, "aborted")
    BY <1>4 DEF CancelParent, Live
  <2> HIDE DEF S
  <2> QED
    BY <2>1, AbortMoves
<1>5. ASSUME NEW u \in Task, NEW outcome \in {"completed", "failed"}, Return(u, outcome)
      PROVE  Moves(t)
  BY <1>5, ReturnMoves
<1>6. ASSUME Close PROVE Moves(t)
  BY <1>6, CloseMoves
<1>7. ASSUME UNCHANGED vars PROVE Moves(t)
  BY <1>7 DEF vars, Moves, Contract!Stays
<1> QED
  BY <1>1, <1>2, <1>3, <1>4, <1>5, <1>6, <1>7 DEF Next

\* A signal that has fired and a close are for ever.
LEMMA RevokedGrows ==
  ASSUME [Next]_vars
  PROVE  cancelled \subseteq cancelled' /\ (closed => closed')
<1> DEFINE Grows == cancelled \subseteq cancelled' /\ (closed => closed')
<1>1. ASSUME NEW t \in Task, Submit(t) PROVE Grows
  BY <1>1 DEF Submit
<1>2. ASSUME NEW t \in Task, Timeout(t) PROVE Grows
  BY <1>2 DEF Timeout, AbortTasks
<1>3. ASSUME NEW t \in Task, CancelTask(t) PROVE Grows
  BY <1>3 DEF CancelTask, AbortTasks
<1>4. ASSUME NEW r \in Run, CancelParent(r) PROVE Grows
  <2>1. closed' = closed
    BY <1>4 DEF CancelParent, AbortTasks
  <2>2. cancelled' = cancelled \cup {r}
    BY <1>4 DEF CancelParent, AbortTasks
  <2> QED
    BY <2>1, <2>2
<1>5. ASSUME NEW t \in Task, NEW outcome \in {"completed", "failed"}, Return(t, outcome)
      PROVE  Grows
  BY <1>5 DEF Return
<1>6. ASSUME Close PROVE Grows
  BY <1>6 DEF Close
<1>7. ASSUME UNCHANGED vars PROVE Grows
  BY <1>7 DEF vars
<1> QED
  BY <1>1, <1>2, <1>3, <1>4, <1>5, <1>6, <1>7 DEF Next

LEMMA ContractStep ==
  ASSUME IInv, IInv', Owed, [Next]_vars
  PROVE  [Contract!ContractNext]_(Contract!contractVars)
<1>1. \A t \in Task : Moves(t)
  BY TaskMoves
<1>2. {t \in Task : closed \/ ParentOf[t] \in cancelled}
        \subseteq {t \in Task : closed' \/ ParentOf[t] \in cancelled'}
  BY RevokedGrows
<1>3. \A t \in Task : closed' \/ ParentOf[t] \in cancelled' =>
         status'[t] \notin {"queued", "running"}
  BY DEF IInv, Reached
<1> QED
  BY <1>1, <1>2, <1>3 DEF Contract!ContractNext, Moves

(* Whoever cancels a task and whatever its code does with the abort, the   *)
(* code is started and returns at most once, only a running task takes its *)
(* result over, ends stand and nothing that was revoked waits or runs.     *)
THEOREM TasksKeepContract == Spec => ImplementsContract
<1>1. Init => Owed /\ Contract!ContractInit
  <2> SUFFICES ASSUME Init PROVE Owed /\ Contract!ContractInit
    OBVIOUS
  <2>1. {t \in Task : closed \/ ParentOf[t] \in cancelled} = {}
    BY DEF Init
  <2>2. Owed
    BY DEF Init, Owed
  <2> QED
    BY <2>1, <2>2 DEF Init, Contract!ContractInit
<1>2. IInv /\ Owed /\ [Next]_vars => IInv' /\ Owed'
  <2> SUFFICES ASSUME IInv, Owed, [Next]_vars PROVE IInv' /\ Owed'
    OBVIOUS
  <2>1. IInv'
    BY Inductive
  <2>2. executing' \subseteq Task
    BY <2>1 DEF IInv, Coherent, Sound
  <2> QED
    BY <2>1, <2>2, TaskMoves, OwedKept
<1>3. IInv /\ Owed /\ IInv' /\ [Next]_vars => [Contract!ContractNext]_(Contract!contractVars)
  BY ContractStep
<1> QED
  BY <1>1, <1>2, <1>3, Initially, PTL DEF Spec, ImplementsContract, Contract!ContractSpec
=============================================================================
