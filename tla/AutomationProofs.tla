-------------------------- MODULE AutomationProofs --------------------------
(***************************************************************************)
(* Proofs about Automation, for any number of automations, rows and        *)
(* processes.                                                              *)
(***************************************************************************)
EXTENDS Automation, FiniteSetTheorems, TLAPS

USE DEF automations, fires, works, hosts

(***************************************************************************)
(* Types.                                                                  *)
(***************************************************************************)

\* The next row of an automation is one that has not been used.
LEMMA NewRowSpare ==
  ASSUME NEW a \in Automation, Spare(a) # {}
  PROVE  NewRow(a) \in Spare(a)
BY DEF NewRow

LEMMA EnqueuedType ==
  ASSUME TypeOK, NEW h \in Host, NEW S
  PROVE  Enqueued(h, S) \in [Host -> [Fire -> 0 .. MaxWaiting]]
<1> DEFINE W == [f \in Fire |-> IF f \in S /\ waiting[h][f] < MaxWaiting
                                  THEN waiting[h][f] + 1 ELSE waiting[h][f]]
<1>1. W \in [Fire -> 0 .. MaxWaiting]
  <2> SUFFICES ASSUME NEW f \in Fire PROVE W[f] \in 0 .. MaxWaiting
    OBVIOUS
  <2>1. waiting[h][f] \in 0 .. MaxWaiting
    BY DEF TypeOK
  <2> QED BY <2>1, BoundAssumption
<1> QED BY <1>1 DEF Enqueued, TypeOK

\* An operation that is over, and one that throws, free their executor.
LEMMA DoneTypes ==
  ASSUME TypeOK, NEW h \in Host, Done(h)
  PROVE  /\ pc' \in [Host -> Place]
         /\ cur' \in [Host -> Fire \cup {NoFire}]
         /\ read' \in [Host -> Nat]
         /\ \A g \in Host : pc'[g] = "free" <=> cur'[g] = NoFire
BY DEF Done, TypeOK, Place

LEMMA ThrowsTypes ==
  ASSUME TypeOK, NEW h \in Host, Throws(h)
  PROVE  /\ host' \in [Host -> {"new", "starting", "up", "stopping", "exited"}]
         /\ todo' \in SUBSET (Fire \X BOOLEAN)
<1>1. host' \in [Host -> {"new", "starting", "up", "stopping", "exited"}]
  BY DEF Throws, TypeOK
<1> QED BY <1>1 DEF Throws, TypeOK

\* A look gives the executor its fire, or frees it.
LEMMA LookTypes ==
  ASSUME TypeOK, NEW h \in Host, NEW f \in Fire, NEW place \in Place \ {"free"},
         LookOrStop(h, f, place)
  PROVE  /\ pc' \in [Host -> Place]
         /\ cur' \in [Host -> Fire \cup {NoFire}]
         /\ read' \in [Host -> Nat]
         /\ \A g \in Host : pc'[g] = "free" <=> cur'[g] = NoFire
<1>1. CASE Look(h, f, place)
  BY <1>1, NoFireAssumption DEF Look, TypeOK
<1> QED BY <1>1, DoneTypes DEF LookOrStop

LEMMA TypeInit == Init => TypeOK
BY BoundAssumption DEF Init, TypeOK, Status, Kind, FireStatus, RunStatus, FactStatus, Place

LEMMA ReconciledType == TypeOK => Reconciled \in [Fire -> RunStatus]
BY DEF Reconciled, TypeOK, RunStatus, FactStatus

\* What clients and the clock do.
LEMMA TypeClients ==
  ASSUME TypeOK,
         \/ \E a \in Automation :
              ComesDue(a) \/ Expires(a) \/ Pause(a) \/ Resume(a) \/ Delete(a)
         \/ \E a \in Automation, input \in Input : Create(a, input)
         \/ \E f \in Fire : FireComesDue(f)
         \/ \E h \in Host, a \in Automation : RunNow(h, a)
  PROVE  TypeOK'
<1>1. ASSUME NEW a \in Automation,
             ComesDue(a) \/ Expires(a) \/ Pause(a) \/ Resume(a) \/ Delete(a)
      PROVE  TypeOK'
  <2>1. CASE ComesDue(a)
    BY <2>1 DEF ComesDue, TypeOK
  <2>2. CASE Expires(a)
    BY <2>2 DEF Expires, TypeOK
  <2>3. CASE Pause(a)
    BY <2>3 DEF Pause, TypeOK, Status
  <2>4. CASE Resume(a)
    BY <2>4 DEF Resume, TypeOK, Status
  <2>5. CASE Delete(a)
    <3>1. fstatus' \in [Fire -> FireStatus]
      BY <2>5 DEF Delete, TypeOK, FireStatus
    <3>2. later' \in [Fire -> BOOLEAN] /\ onTime' \in [Fire -> BOOLEAN]
      BY <2>5 DEF Delete, TypeOK
    <3>3. /\ status' \in [Automation -> Status]
          /\ count' \in [Automation -> Nat] /\ failures' \in [Automation -> Nat]
      BY <2>5 DEF Delete, TypeOK, Status
    <3>4. /\ next' \in [Automation -> {"none", "later", "due"}]
          /\ expires' \in [Automation -> {"never", "later", "past"}]
      BY <2>5 DEF Delete, TypeOK
    <3> QED BY <2>5, <3>1, <3>2, <3>3, <3>4 DEF Delete, TypeOK
  <2> QED BY <1>1, <2>1, <2>2, <2>3, <2>4, <2>5
<1>2. ASSUME NEW a \in Automation, NEW input \in Input, Create(a, input) PROVE TypeOK'
  <2>1. input[1] \in Kind /\ input[2] \in Nat /\ input[3] \in {"never", "later", "past"}
    BY InputAssumption
  <2> QED BY <1>2, <2>1 DEF Create, TypeOK, Status
<1>3. ASSUME NEW f \in Fire, FireComesDue(f) PROVE TypeOK'
  BY <1>3 DEF FireComesDue, TypeOK
<1>4. ASSUME NEW h \in Host, NEW a \in Automation, RunNow(h, a) PROVE TypeOK'
  <2>1. fstatus' \in [Fire -> FireStatus]
    BY <1>4, NewRowSpare DEF RunNow, TypeOK, FireStatus
  <2>2. waiting' \in [Host -> [Fire -> 0 .. MaxWaiting]]
    BY <1>4, EnqueuedType DEF RunNow
  <2> QED BY <1>4, <2>1, <2>2 DEF RunNow, TypeOK
<1> QED BY <1>1, <1>2, <1>3, <1>4

\* What the operations of the store do that end a fire, put it off or give
\* it to a person.
LEMMA TypeEnds ==
  ASSUME TypeOK, NEW h \in Host,
         CompleteFire(h) \/ ReadFailures(h) \/ FailFire(h) \/ AskPerson(h) \/ DeferFire(h)
  PROVE  TypeOK'
<1> DEFINE f == cur[h]
<1> DEFINE a == AutomationOf[cur[h]]
<1>1. f \in Fire
  BY DEF CompleteFire, ReadFailures, FailFire, AskPerson, DeferFire, TypeOK
<1>2. a \in Automation
  BY <1>1, AutomationOfAssumption
<1>3. CASE CompleteFire(h)
  <2>1. fstatus' \in [Fire -> FireStatus] /\ counted' \in [Fire -> Nat]
    BY <1>3 DEF CompleteFire, TypeOK, FireStatus, Ended
  <2>2. count' \in [Automation -> Nat] /\ failures' \in [Automation -> Nat]
    <3>1. /\ count' \in {count, [count EXCEPT ![a] = @ + 1]}
          /\ failures' \in {failures, [failures EXCEPT ![a] = 0]}
      BY <1>3 DEF CompleteFire
    <3>2. count \in [Automation -> Nat] /\ failures \in [Automation -> Nat]
      BY DEF TypeOK
    <3> QED BY <1>2, <3>1, <3>2
  <2>3. status' \in [Automation -> Status]
    <3> DEFINE s == IF max[a] # 0 /\ count[a] + 1 >= max[a] THEN "completed" ELSE status[a]
    <3>1. s \in Status
      BY <1>2 DEF TypeOK, Status
    <3>2. status' \in {status, [status EXCEPT ![a] = s]}
      BY <1>3 DEF CompleteFire
    <3>3. status \in [Automation -> Status]
      BY DEF TypeOK
    <3> HIDE DEF s, a
    <3> QED BY <3>1, <3>2, <3>3
  <2>4. Done(h) /\ (Throws(h) \/ UNCHANGED <<host, todo>>)
    BY <1>3 DEF CompleteFire, Throws
  <2>5. UNCHANGED <<kind, max, next, expires, later, onTime, submits, fact, run, bound,
                    waiting, busy>>
    BY <1>3 DEF CompleteFire
  <2> QED BY <2>1, <2>2, <2>3, <2>4, <2>5, DoneTypes, ThrowsTypes DEF TypeOK
<1>4. CASE ReadFailures(h)
  <2>1. CASE Throws(h)
    BY <1>4, <2>1, DoneTypes, ThrowsTypes DEF ReadFailures, Throws, TypeOK
  <2>2. CASE ~Throws(h)
    <3>1. /\ pc' = [pc EXCEPT ![h] = "counting"] /\ read' = [read EXCEPT ![h] = failures[a]]
          /\ pc[h] # "free"
          /\ UNCHANGED <<automations, fires, host, todo, waiting, cur, busy>>
      BY <1>4, <2>2 DEF ReadFailures
    <3>2. failures[a] \in Nat
      BY <1>2 DEF TypeOK
    <3>3. read' \in [Host -> Nat]
      BY <3>1, <3>2 DEF TypeOK
    <3>4. pc' \in [Host -> Place] /\ \A g \in Host : pc'[g] = "free" <=> cur'[g] = NoFire
      BY <3>1 DEF TypeOK, Place, InStore
    <3> QED BY <3>1, <3>3, <3>4 DEF TypeOK
  <2> QED BY <2>1, <2>2
<1>5. CASE FailFire(h)
  <2>1. fstatus' \in [Fire -> FireStatus]
    BY <1>5 DEF FailFire, TypeOK, FireStatus, Ended
  <2>2. failures' \in [Automation -> Nat]
    BY <1>2, <1>5 DEF FailFire, TypeOK
  <2>3. status' \in [Automation -> Status]
    <3> DEFINE s == IF read[h] + 1 >= PauseAfter THEN "failed" ELSE "active"
    <3>1. s \in Status
      BY DEF Status
    <3>2. status' \in {status, [status EXCEPT ![a] = s]}
      BY <1>5 DEF FailFire
    <3> QED BY <3>1, <3>2 DEF TypeOK
  <2>4. Done(h) /\ (Throws(h) \/ UNCHANGED <<host, todo>>)
    BY <1>5 DEF FailFire, Throws
  <2>5. UNCHANGED <<kind, max, next, expires, count, later, onTime, works, waiting, busy>>
    BY <1>5 DEF FailFire
  <2> QED BY <2>1, <2>2, <2>3, <2>4, <2>5, DoneTypes, ThrowsTypes DEF TypeOK
<1>6. CASE AskPerson(h)
  <2>1. fstatus' \in [Fire -> FireStatus]
    <3>1. fstatus' \in {fstatus, [fstatus EXCEPT ![f] = "needs_approval"]}
      BY <1>1, <1>6 DEF AskPerson, TypeOK
    <3> QED BY <3>1 DEF TypeOK, FireStatus, Ended
  <2>2. Done(h) /\ (Throws(h) \/ UNCHANGED <<host, todo>>)
    BY <1>6 DEF AskPerson, Throws
  <2>3. UNCHANGED <<automations, later, onTime, works, waiting, busy>>
    BY <1>6 DEF AskPerson
  <2> QED BY <2>1, <2>2, <2>3, DoneTypes, ThrowsTypes DEF TypeOK
<1>7. CASE DeferFire(h)
  <2>1. /\ fstatus' \in [Fire -> FireStatus]
        /\ later' \in [Fire -> BOOLEAN] /\ onTime' \in [Fire -> BOOLEAN]
    BY <1>7 DEF DeferFire, TypeOK, FireStatus
  <2>2. Done(h) /\ UNCHANGED <<automations, works, host, todo, waiting, busy>>
    BY <1>7 DEF DeferFire
  <2> QED BY <2>1, <2>2, DoneTypes DEF TypeOK
<1> QED BY <1>3, <1>4, <1>5, <1>6, <1>7

\* What an executor does before and around the run of its fire.
LEMMA TypeRuns ==
  ASSUME TypeOK, NEW h \in Host,
         \/ \E f \in Fire : Execute(h, f)
         \/ \E outcome \in {"completed", "failed"} : RunRecords(h, outcome)
         \/ DeferLook(h) \/ Rebuilt(h) \/ Submit(h) \/ BindFireRun(h) \/ PrepareFails(h)
         \/ RunEnds(h) \/ RunRejects(h) \/ Settle(h)
  PROVE  TypeOK'
<1>1. ASSUME NEW f \in Fire, Execute(h, f) PROVE TypeOK'
  <2>1. waiting' \in [Host -> [Fire -> 0 .. MaxWaiting]]
    <3>1. /\ waiting \in [Host -> [Fire -> 0 .. MaxWaiting]]
          /\ waiting[h][f] > 0
          /\ waiting' = [waiting EXCEPT ![h] = [waiting[h] EXCEPT ![f] = @ - 1]]
      BY <1>1 DEF Execute, TypeOK
    <3>2. waiting[h] \in [Fire -> 0 .. MaxWaiting] /\ waiting[h][f] - 1 \in 0 .. MaxWaiting
      BY <3>1, BoundAssumption
    <3>3. [waiting[h] EXCEPT ![f] = @ - 1] \in [Fire -> 0 .. MaxWaiting]
      BY <3>2
    <3> QED BY <3>1, <3>3
  <2>2. fstatus' \in [Fire -> FireStatus]
    BY <1>1 DEF Execute, TypeOK, FireStatus
  <2>3. /\ pc' \in [Host -> Place]
        /\ cur' \in [Host -> Fire \cup {NoFire}]
        /\ \A g \in Host : pc'[g] = "free" <=> cur'[g] = NoFire
    <3>1. CASE UNCHANGED <<pc, cur>>
      BY <3>1 DEF TypeOK
    <3>2. CASE \E to \in {"claimed", "preparing", "building"} :
                 pc' = [pc EXCEPT ![h] = to] /\ cur' = [cur EXCEPT ![h] = f]
      BY <3>2, NoFireAssumption DEF TypeOK, Place, InStore
    <3> QED BY <1>1, <3>1, <3>2 DEF Execute
  <2>4. UNCHANGED <<automations, later, onTime, works, host, todo, read, busy>>
    BY <1>1 DEF Execute
  <2> QED BY <2>1, <2>2, <2>3, <2>4 DEF TypeOK
<1>2. ASSUME NEW outcome \in {"completed", "failed"}, RunRecords(h, outcome) PROVE TypeOK'
  BY <1>2 DEF RunRecords, TypeOK, FactStatus
<1>3. CASE Rebuilt(h)
  <2>1. run' \in [Fire -> RunStatus]
    BY <1>3, ReconciledType DEF Rebuilt
  <2> QED BY <1>3, <2>1 DEF Rebuilt, TypeOK, Place
<1>5. CASE Submit(h)
  <2>1. cur[h] \in Fire
    BY <1>5 DEF Submit, TypeOK
  <2>2. LookOrStop(h, cur[h], "binding") /\ "binding" \in Place \ {"free"}
    BY <1>5 DEF Submit, Place, InStore
  <2>3. /\ submits' \in [Fire -> Nat] /\ run' \in [Fire -> RunStatus]
        /\ busy' \in [Host -> BOOLEAN]
    BY <1>5 DEF Submit, TypeOK, RunStatus
  <2>4. /\ pc' \in [Host -> Place]
        /\ cur' \in [Host -> Fire \cup {NoFire}]
        /\ read' \in [Host -> Nat]
        /\ \A g \in Host : pc'[g] = "free" <=> cur'[g] = NoFire
    BY <2>1, <2>2, LookTypes
  <2> QED BY <1>5, <2>3, <2>4 DEF Submit, TypeOK
<1>6. CASE BindFireRun(h)
  <2>1. bound' \in [Fire -> BOOLEAN]
    BY <1>6 DEF BindFireRun, TypeOK
  <2>2. CASE Done(h)
    BY <1>6, <2>1, <2>2, DoneTypes DEF BindFireRun, TypeOK
  <2>3. CASE ~Done(h)
    <3>1. /\ pc' = [pc EXCEPT ![h] = "running"] /\ pc[h] # "free"
          /\ UNCHANGED <<cur, read, busy>>
      BY <1>6, <2>3 DEF BindFireRun
    <3>2. pc' \in [Host -> Place] /\ \A g \in Host : pc'[g] = "free" <=> cur'[g] = NoFire
      BY <3>1 DEF TypeOK, Place
    <3> QED BY <1>6, <2>1, <3>1, <3>2 DEF BindFireRun, TypeOK
  <2> QED BY <2>2, <2>3
<1>7. CASE RunEnds(h)
  <2>1. run' \in [Fire -> RunStatus]
    <3>1. cur[h] \in Fire
      BY <1>7 DEF RunEnds, TypeOK
    <3>2. fact[cur[h]] \in RunStatus
      BY <1>7, <3>1 DEF RunEnds, TypeOK, FactStatus, RunStatus
    <3>3. run' = [run EXCEPT ![cur[h]] = fact[cur[h]]]
      BY <1>7 DEF RunEnds
    <3> QED BY <3>2, <3>3 DEF TypeOK
  <2>2. pc' \in [Host -> Place] /\ \A g \in Host : pc'[g] = "free" <=> cur'[g] = NoFire
    BY <1>7 DEF RunEnds, TypeOK, Place
  <2> QED BY <1>7, <2>1, <2>2 DEF RunEnds, TypeOK
<1>8. CASE DeferLook(h) \/ PrepareFails(h) \/ RunRejects(h) \/ Settle(h)
  <2>1. cur[h] \in Fire
    BY <1>8 DEF DeferLook, PrepareFails, RunRejects, Settle, TypeOK
  <2>2. \E place \in {"deferring", "failing", "completing"} : LookOrStop(h, cur[h], place)
    BY <1>8 DEF DeferLook, PrepareFails, RunRejects, Settle
  <2>3. {"deferring", "failing", "completing"} \subseteq Place \ {"free"}
    BY DEF Place, InStore
  <2>4. /\ pc' \in [Host -> Place]
        /\ cur' \in [Host -> Fire \cup {NoFire}]
        /\ read' \in [Host -> Nat]
        /\ \A g \in Host : pc'[g] = "free" <=> cur'[g] = NoFire
    BY <2>1, <2>2, <2>3, LookTypes
  <2>5. busy' \in [Host -> BOOLEAN]
    BY <1>8 DEF DeferLook, PrepareFails, RunRejects, Settle, TypeOK
  <2>6. UNCHANGED <<automations, fires, host, todo, waiting>>
    BY <1>8 DEF DeferLook, PrepareFails, RunRejects, Settle
  <2> QED BY <2>4, <2>5, <2>6 DEF TypeOK
<1> QED BY <1>1, <1>2, <1>3, <1>5, <1>6, <1>7, <1>8

\* What a Host does as a whole.
LEMMA TypeHosts ==
  ASSUME TypeOK, NEW h \in Host,
         \/ \E f \in Fire, known \in BOOLEAN : RecoverFire(h, f, known)
         \/ Start(h) \/ Tick(h) \/ OthersBegin(h) \/ OthersEnd(h) \/ Stop(h) \/ Exit(h)
  PROVE  TypeOK'
<1>1. ASSUME NEW f \in Fire, NEW known \in BOOLEAN, RecoverFire(h, f, known) PROVE TypeOK'
  <2>1. todo' \in SUBSET (Fire \X BOOLEAN)
    BY <1>1 DEF RecoverFire, Throws, TypeOK
  <2>2. CASE \E place \in {"completing", "failing", "asking"} :
               /\ pc' = [pc EXCEPT ![h] = place] /\ cur' = [cur EXCEPT ![h] = f]
               /\ UNCHANGED <<read, host>>
    BY <1>1, <2>1, <2>2, NoFireAssumption DEF RecoverFire, TypeOK, Place, InStore
  <2>3. CASE UNCHANGED <<pc, cur, read, host>>
    BY <1>1, <2>1, <2>3 DEF RecoverFire, TypeOK
  <2>4. CASE Throws(h)
    BY <1>1, <2>4, DoneTypes, ThrowsTypes DEF RecoverFire, Throws, TypeOK
  <2> QED BY <1>1, <2>2, <2>3, <2>4 DEF RecoverFire, Look
<1>2. CASE Start(h)
  <2>1. run' \in [Fire -> RunStatus]
    BY <1>2, ReconciledType DEF Start
  <2>2. todo' \in SUBSET (Fire \X BOOLEAN)
    BY <1>2 DEF Start, TypeOK
  <2>3. host' \in [Host -> {"new", "starting", "up", "stopping", "exited"}]
    BY <1>2 DEF Start, TypeOK
  <2> QED BY <1>2, <2>1, <2>2, <2>3 DEF Start, TypeOK
<1>3. CASE Tick(h)
  <2>1. host' \in [Host -> {"new", "starting", "up", "stopping", "exited"}]
    BY <1>3 DEF Tick, TypeOK
  <2>2. status' \in [Automation -> Status]
    BY <1>3 DEF Tick, TypeOK, Status
  <2>3. next' \in [Automation -> {"none", "later", "due"}]
    BY <1>3 DEF Tick, TypeOK
  <2>4. fstatus' \in [Fire -> FireStatus]
    BY <1>3 DEF Tick, TypeOK, FireStatus
  <2>5. onTime' \in [Fire -> BOOLEAN]
    BY <1>3 DEF Tick, TypeOK
  <2>6. waiting' \in [Host -> [Fire -> 0 .. MaxWaiting]]
    BY <1>3, EnqueuedType DEF Tick
  <2> QED BY <1>3, <2>1, <2>2, <2>3, <2>4, <2>5, <2>6 DEF Tick, TypeOK
<1>4. CASE OthersBegin(h)
  BY <1>4 DEF OthersBegin, TypeOK
<1>5. CASE OthersEnd(h)
  BY <1>5 DEF OthersEnd, TypeOK
<1>6. CASE Stop(h)
  <2>1. host' \in [Host -> {"new", "starting", "up", "stopping", "exited"}]
    BY <1>6 DEF Stop, TypeOK
  <2> QED BY <1>6, <2>1 DEF Stop, TypeOK
<1>7. CASE Exit(h)
  <2>1. waiting' \in [Host -> [Fire -> 0 .. MaxWaiting]]
    BY <1>7, BoundAssumption DEF Exit, TypeOK
  <2>2. host' \in [Host -> {"new", "starting", "up", "stopping", "exited"}]
    BY <1>7 DEF Exit, TypeOK
  <2>3. todo' \in SUBSET (Fire \X BOOLEAN) /\ Done(h)
    BY <1>7 DEF Exit, TypeOK
  <2> QED BY <1>7, <2>1, <2>2, <2>3, DoneTypes DEF Exit, TypeOK
<1> QED BY <1>1, <1>2, <1>3, <1>4, <1>5, <1>6, <1>7

LEMMA TypeStep == TypeOK /\ [Next]_vars => TypeOK'
<1> SUFFICES ASSUME TypeOK, [Next]_vars PROVE TypeOK'
  OBVIOUS
<1>1. CASE UNCHANGED vars
  BY <1>1 DEF vars, TypeOK
<1> QED BY <1>1, TypeClients, TypeEnds, TypeRuns, TypeHosts DEF Next

\* Type correctness for any number of automations, rows and processes.
THEOREM TypeCorrect == Spec => []TypeOK
BY TypeInit, TypeStep, PTL DEF Spec

(***************************************************************************)
(* The processes.  Only one of them serves.  An executor that is left from *)
(* a stopped one and the recovery of the next may have the same fire, two  *)
(* executors or two recoveries may not.                                    *)
(***************************************************************************)

Closing == {"completing", "failing", "counting"}

Roles ==
  \A h \in Host :
    /\ host[h] \in {"new", "exited"} => pc[h] = "free"
    /\ host[h] = "starting" => pc[h] \in Closing \cup {"free", "asking"}
    /\ pc[h] = "asking" => host[h] = "starting"
    /\ host[h] \in {"new", "starting", "exited"} => \A f \in Fire : waiting[h][f] = 0

OneServes ==
  \A h, g \in Host :
    host[h] \in {"starting", "up"} /\ host[g] \in {"starting", "up"} => h = g

HInv == TypeOK /\ Roles /\ OneServes

(***************************************************************************)
(* A fire has at most one run.  An executor that has not submitted yet     *)
(* holds a fire that nobody can claim again, no other executor holds it,   *)
(* and it has no run; a fire that can be claimed has none either.          *)
(***************************************************************************)

Unclaimed == {"none", "pending", "deferred"}
Early == {"claimed", "deferring", "building", "preparing"}
Late == {"binding", "running", "ended"}
Over == {"completed", "failed"}

Executes(h) == pc[h] # "free" /\ host[h] # "starting"

\* The run of a fire that was not submitted, and one that ended.
Begun ==
  \A f \in Fire :
    /\ submits[f] = 0 <=> run[f] = "none"
    /\ submits[f] = 0 => fact[f] = "none" /\ counted[f] = 0
    /\ run[f] \in Over => fact[f] = run[f]

Waits == \A f \in Fire : fstatus[f] \in Unclaimed => submits[f] = 0

Held ==
  \A h \in Host :
    /\ Executes(h) => fstatus[cur[h]] \notin Unclaimed
    /\ pc[h] \notin {"free", "asking"} => fstatus[cur[h]] # "none"

HeldByOne ==
  \A h, g \in Host : h # g /\ Executes(h) /\ Executes(g) => cur[h] # cur[g]

NotYet ==
  \A h \in Host : pc[h] \in Early =>
    submits[cur[h]] = 0 /\ fstatus[cur[h]] \in {"running", "needs_approval", "gone"}

\* Whoever waits for a run has submitted it, the recovery goes on with runs
\* that are over, and what is being completed has a completed run.
Proven ==
  \A h \in Host :
    /\ pc[h] \in Late => submits[cur[h]] > 0
    /\ pc[h] \in Closing /\ host[h] = "starting" => submits[cur[h]] > 0
    /\ pc[h] = "completing" => run[cur[h]] = "completed"

\* Nobody begins to complete a fire that was counted, and it takes two to
\* count it twice.
Completes(h, f) == pc[h] = "completing" /\ cur[h] = f

CountedTwice ==
  \A f \in Fire :
    /\ counted[f] <= 2
    /\ counted[f] > 0 => fstatus[f] \in Ended \cup {"gone"}
    /\ counted[f] = 1 => \A h, g \in Host : Completes(h, f) /\ Completes(g, f) => h = g
    /\ counted[f] = 2 => \A h \in Host : ~Completes(h, f)

FInv ==
  /\ Begun /\ Waits /\ Held /\ HeldByOne /\ NotYet /\ Proven /\ CountedTwice
  /\ FireRunsOnce /\ CompletedFollowsRun

LEMMA HInvInit == Init => HInv
BY TypeInit DEF Init, HInv, Roles, OneServes

\* What a step may do to a process, but for its start.
HostMoves(h) ==
  /\ \/ host'[h] = host[h] /\ pc'[h] \in {"free", pc[h]}
     \/ host'[h] = host[h] /\ host[h] = "starting" /\ pc'[h] \in Closing \cup {"asking"}
     \/ host'[h] = host[h] /\ host[h] \in {"up", "stopping"} /\ pc'[h] # "asking"
     \/ host[h] = "starting" /\ host'[h] = "up" /\ pc'[h] = "free"
     \/ host[h] = "up" /\ host'[h] = "stopping" /\ pc'[h] = pc[h]
     \/ host'[h] = "exited" /\ pc'[h] = "free"
  /\ host'[h] \in {"new", "starting", "exited"} =>
       \A f \in Fire : waiting'[h][f] = 0 \/ (waiting'[h][f] = waiting[h][f] /\ host[h] \notin {"up", "stopping"})

LEMMA HostMovesKeep ==
  ASSUME HInv, TypeOK', \A h \in Host : HostMoves(h)
  PROVE  HInv'
<1>1. Roles'
  <2> SUFFICES ASSUME NEW h \in Host
               PROVE  /\ host'[h] \in {"new", "exited"} => pc'[h] = "free"
                      /\ host'[h] = "starting" => pc'[h] \in Closing \cup {"free", "asking"}
                      /\ pc'[h] = "asking" => host'[h] = "starting"
                      /\ host'[h] \in {"new", "starting", "exited"} =>
                           \A f \in Fire : waiting'[h][f] = 0
    BY DEF Roles
  <2>1. /\ host[h] \in {"new", "exited"} => pc[h] = "free"
        /\ host[h] = "starting" => pc[h] \in Closing \cup {"free", "asking"}
        /\ pc[h] = "asking" => host[h] = "starting"
        /\ host[h] \in {"new", "starting", "exited"} => \A f \in Fire : waiting[h][f] = 0
    BY DEF HInv, Roles
  <2>2. HostMoves(h) /\ host[h] \in {"new", "starting", "up", "stopping", "exited"}
    BY DEF HInv, TypeOK
  <2> QED BY <2>1, <2>2 DEF HostMoves, Closing
<1>2. OneServes'
  <2> SUFFICES ASSUME NEW h \in Host, NEW g \in Host,
                      host'[h] \in {"starting", "up"}, host'[g] \in {"starting", "up"}
               PROVE  h = g
    BY DEF OneServes
  <2>1. HostMoves(h) /\ HostMoves(g)
    OBVIOUS
  <2>2. host[h] \in {"starting", "up"} /\ host[g] \in {"starting", "up"}
    BY <2>1 DEF HostMoves
  <2> QED BY <2>2 DEF HInv, OneServes
<1> QED BY <1>1, <1>2 DEF HInv

LEMMA StartKeepsRoles ==
  ASSUME HInv, TypeOK', NEW h \in Host, Start(h)
  PROVE  HInv'
<1>1. /\ host[h] = "new" /\ host'[h] = "starting" /\ UNCHANGED <<pc, waiting>>
      /\ \A g \in Host \ {h} : host'[g] = host[g]
      /\ \A g \in Host : host[g] \notin {"starting", "up"}
  BY DEF Start, Serving, HInv, TypeOK
<1>2. Roles'
  BY <1>1 DEF HInv, Roles
<1>3. OneServes'
  BY <1>1 DEF OneServes
<1> QED BY <1>2, <1>3 DEF HInv

\* The other processes stay where they are.
Others(h) ==
  \A g \in Host \ {h} : host'[g] = host[g] /\ pc'[g] = pc[g] /\ waiting'[g] = waiting[g]

LEMMA OthersMove ==
  ASSUME HInv, NEW h \in Host, Others(h), HostMoves(h), NEW g \in Host
  PROVE  HostMoves(g)
<1>1. CASE g = h
  BY <1>1
<1>2. CASE g # h
  <2>1. host[g] \in {"new", "starting", "exited"} => \A f \in Fire : waiting[g][f] = 0
    BY DEF HInv, Roles
  <2>2. host'[g] = host[g] /\ pc'[g] = pc[g] /\ waiting'[g] = waiting[g]
    BY <1>2 DEF Others
  <2> QED BY <2>1, <2>2 DEF HostMoves
<1> QED BY <1>1, <1>2

LEMMA StillMoves ==
  ASSUME HInv, UNCHANGED <<host, pc, waiting>>, NEW g \in Host
  PROVE  HostMoves(g)
<1>1. host[g] \in {"new", "starting", "exited"} => \A f \in Fire : waiting[g][f] = 0
  BY DEF HInv, Roles
<1> QED BY <1>1 DEF HostMoves

\* Of a process whose queue stays as it is, only the place matters.
LEMMA PlaceMoves ==
  ASSUME HInv, NEW h \in Host, UNCHANGED waiting, Others(h),
         \/ host'[h] = host[h] /\ pc'[h] \in {"free", pc[h]}
         \/ host'[h] = host[h] /\ host[h] = "starting" /\ pc'[h] \in Closing \cup {"asking"}
         \/ host'[h] = host[h] /\ host[h] \in {"up", "stopping"} /\ pc'[h] # "asking"
         \/ host[h] = "up" /\ host'[h] = "stopping" /\ pc'[h] = pc[h]
         \/ host[h] = "starting" /\ host'[h] = "exited" /\ pc'[h] = "free",
         NEW g \in Host
  PROVE  HostMoves(g)
<1>1. host[h] \in {"new", "starting", "exited"} => \A f \in Fire : waiting[h][f] = 0
  BY DEF HInv, Roles
<1>2. HostMoves(h)
  BY <1>1 DEF HostMoves
<1> QED BY <1>2, OthersMove

\* Where an operation of the store ends, and where a look leads.
LEMMA DoneMoves ==
  ASSUME HInv, NEW h \in Host, UNCHANGED waiting, Done(h), UNCHANGED host \/ Throws(h),
         NEW g \in Host
  PROVE  HostMoves(g)
<1>1. pc'[h] = "free" /\ host'[h] \in {host[h], IF host[h] = "starting" THEN "exited" ELSE host[h]}
  BY DEF Done, Throws, HInv, TypeOK
<1>2. Others(h)
  BY DEF Done, Throws, Others, HInv, TypeOK
<1> QED BY <1>1, <1>2, PlaceMoves

LEMMA LookMoves ==
  ASSUME HInv, NEW h \in Host, UNCHANGED <<waiting, host>>, pc[h] \notin {"free", "asking"} \cup Closing,
         NEW f, NEW place \in Place \ {"free", "asking"}, LookOrStop(h, f, place), NEW g \in Host
  PROVE  HostMoves(g)
<1>1. CASE Done(h)
  BY <1>1, DoneMoves
<1>2. CASE Look(h, f, place)
  <2>1. pc'[h] = place /\ Others(h)
    BY <1>2 DEF Look, Others, HInv, TypeOK
  <2>2. host[h] \in {"up", "stopping"}
    BY DEF HInv, TypeOK, Roles, Closing
  <2> QED BY <2>1, <2>2, PlaceMoves
<1> QED BY <1>1, <1>2 DEF LookOrStop

LEMMA HInvStep == HInv /\ [Next]_vars => HInv'
<1> SUFFICES ASSUME HInv, [Next]_vars PROVE HInv'
  OBVIOUS
<1>0. TypeOK'
  BY TypeStep DEF HInv
<1>1. ASSUME UNCHANGED <<host, pc, waiting>> PROVE HInv'
  BY <1>0, <1>1, StillMoves, HostMovesKeep
<1>2. ASSUME NEW a \in Automation,
             \/ ComesDue(a) \/ Expires(a) \/ Pause(a) \/ Resume(a) \/ Delete(a)
             \/ \E input \in Input : Create(a, input)
      PROVE  HInv'
  BY <1>1, <1>2 DEF ComesDue, Expires, Pause, Resume, Delete, Create
<1>3. ASSUME NEW f \in Fire, FireComesDue(f) PROVE HInv'
  BY <1>1, <1>3 DEF FireComesDue
<1>4. ASSUME NEW h \in Host, NEW a \in Automation, RunNow(h, a) PROVE HInv'
  <2>1. UNCHANGED <<host, pc>> /\ host[h] = "up"
    BY <1>4 DEF RunNow
  <2>2. HostMoves(h)
    BY <2>1 DEF HostMoves
  <2>3. Others(h)
    BY <1>4, <2>1 DEF RunNow, Enqueued, Others, HInv, TypeOK
  <2> QED BY <1>0, <2>2, <2>3, OthersMove, HostMovesKeep
<1>5. ASSUME NEW h \in Host, NEW f \in Fire, Execute(h, f) PROVE HInv'
  <2>1. waiting[h][f] \in 0 .. MaxWaiting /\ waiting[h][f] > 0
    BY <1>5 DEF Execute, HInv, TypeOK
  <2>2. host[h] \in {"up", "stopping"}
    BY <2>1 DEF HInv, TypeOK, Roles
  <2>3. UNCHANGED host /\ pc' \in {pc, [pc EXCEPT ![h] = "claimed"], [pc EXCEPT ![h] = "preparing"],
                                   [pc EXCEPT ![h] = "building"]}
    BY <1>5 DEF Execute
  <2>4. pc'[h] \in {pc[h], "claimed", "preparing", "building"} /\ \A g \in Host \ {h} : pc'[g] = pc[g]
    BY <2>3 DEF HInv, TypeOK
  <2>5. HostMoves(h)
    BY <1>5, <2>2, <2>3, <2>4 DEF HostMoves, Execute
  <2>6. Others(h)
    BY <1>5, <2>3, <2>4 DEF Execute, Others, HInv, TypeOK
  <2> QED BY <1>0, <2>5, <2>6, OthersMove, HostMovesKeep
<1>6. ASSUME NEW h \in Host, NEW f \in Fire, NEW known \in BOOLEAN, RecoverFire(h, f, known) PROVE HInv'
  <2>1. UNCHANGED waiting /\ host[h] = "starting"
    BY <1>6 DEF RecoverFire
  <2>2. CASE Throws(h)
    BY <1>0, <2>1, <2>2, DoneMoves, HostMovesKeep DEF Throws
  <2>3. CASE UNCHANGED <<host, pc>>
    BY <1>1, <2>1, <2>3
  <2>4. CASE UNCHANGED host /\ \E place \in {"completing", "failing", "asking"} : pc' = [pc EXCEPT ![h] = place]
    <3>1. pc'[h] \in Closing \cup {"asking"} /\ Others(h)
      BY <2>1, <2>4 DEF HInv, TypeOK, Closing, Others
    <3> QED BY <1>0, <2>1, <2>4, <3>1, PlaceMoves, HostMovesKeep
  <2> QED BY <1>6, <2>2, <2>3, <2>4 DEF RecoverFire, Look
<1>7. ASSUME NEW h \in Host, NEW outcome \in {"completed", "failed"}, RunRecords(h, outcome) PROVE HInv'
  BY <1>1, <1>7 DEF RunRecords
<1>8. ASSUME NEW h \in Host, Start(h) PROVE HInv'
  BY <1>0, <1>8, StartKeepsRoles
<1>9. ASSUME NEW h \in Host,
             CompleteFire(h) \/ FailFire(h) \/ AskPerson(h) \/ DeferFire(h)
      PROVE  HInv'
  <2>1. UNCHANGED waiting /\ Done(h) /\ (UNCHANGED host \/ Throws(h))
    BY <1>9 DEF CompleteFire, FailFire, AskPerson, DeferFire, Throws
  <2> QED BY <1>0, <2>1, DoneMoves, HostMovesKeep
<1>10. ASSUME NEW h \in Host, ReadFailures(h) PROVE HInv'
  <2>1. CASE Throws(h)
    BY <1>0, <1>10, <2>1, DoneMoves, HostMovesKeep DEF Throws, ReadFailures
  <2>2. CASE pc' = [pc EXCEPT ![h] = "counting"] /\ UNCHANGED host
    <3>1. host[h] \in {"starting", "up", "stopping"}
      BY <1>10 DEF ReadFailures, HInv, Roles, TypeOK
    <3>2. pc'[h] = "counting" /\ Others(h) /\ UNCHANGED waiting
      BY <1>10, <2>2 DEF ReadFailures, HInv, TypeOK, Others
    <3> QED BY <1>0, <2>2, <3>1, <3>2, PlaceMoves, HostMovesKeep DEF Closing
  <2> QED BY <1>10, <2>1, <2>2 DEF ReadFailures
<1>11. ASSUME NEW h \in Host,
              DeferLook(h) \/ PrepareFails(h) \/ RunRejects(h) \/ Settle(h) \/ Submit(h)
       PROVE  HInv'
  <2>1. /\ UNCHANGED <<waiting, host>> /\ pc[h] \notin {"free", "asking"} \cup Closing
        /\ \E place \in {"deferring", "failing", "completing", "binding"} : LookOrStop(h, cur[h], place)
    BY <1>11 DEF DeferLook, PrepareFails, RunRejects, Settle, Submit, Closing
  <2>2. {"deferring", "failing", "completing", "binding"} \subseteq Place \ {"free", "asking"}
    BY DEF Place, InStore
  <2> QED BY <1>0, <2>1, <2>2, LookMoves, HostMovesKeep
<1>12. ASSUME NEW h \in Host, Rebuilt(h) \/ BindFireRun(h) \/ RunEnds(h) PROVE HInv'
  <2>1. UNCHANGED <<waiting, host>> /\ pc[h] \in {"building", "binding", "running"}
    BY <1>12 DEF Rebuilt, BindFireRun, RunEnds
  <2>2. \E place \in {"preparing", "running", "free", "ended"} : pc' = [pc EXCEPT ![h] = place]
    BY <1>12 DEF Rebuilt, BindFireRun, RunEnds, Done
  <2>3. pc'[h] \in {"preparing", "running", "free", "ended"} /\ Others(h)
    BY <2>1, <2>2 DEF HInv, TypeOK, Others
  <2>4. host[h] \in {"up", "stopping"}
    BY <2>1 DEF HInv, TypeOK, Roles, Closing
  <2> QED BY <1>0, <2>1, <2>3, <2>4, PlaceMoves, HostMovesKeep
<1>13. ASSUME NEW h \in Host, Tick(h) PROVE HInv'
  <2>1. pc[h] = "free" \/ host[h] = "up"
    BY <1>13 DEF Tick, Awaits, HInv, Roles, Closing, InStore
  <2>2. host'[h] = "up" /\ host[h] \in {"up", "starting"} /\ UNCHANGED pc
    BY <1>13 DEF Tick, HInv, TypeOK
  <2>3. HostMoves(h)
    BY <2>1, <2>2 DEF HostMoves
  <2>4. Others(h)
    BY <1>13 DEF Tick, Enqueued, Others, HInv, TypeOK
  <2> QED BY <1>0, <2>3, <2>4, OthersMove, HostMovesKeep
<1>14. ASSUME NEW h \in Host, OthersBegin(h) \/ OthersEnd(h) PROVE HInv'
  BY <1>1, <1>14 DEF OthersBegin, OthersEnd
<1>15. ASSUME NEW h \in Host, Stop(h) PROVE HInv'
  <2>1. /\ host[h] = "up" /\ host'[h] = "stopping" /\ pc'[h] = pc[h] /\ UNCHANGED waiting
        /\ Others(h)
    BY <1>15 DEF Stop, HInv, TypeOK, Others
  <2> QED BY <1>0, <2>1, PlaceMoves, HostMovesKeep
<1>16. ASSUME NEW h \in Host, Exit(h) PROVE HInv'
  <2>1. host'[h] = "exited" /\ pc'[h] = "free" /\ \A f \in Fire : waiting'[h][f] = 0
    BY <1>16 DEF Exit, Done, HInv, TypeOK
  <2>2. HostMoves(h)
    BY <2>1 DEF HostMoves
  <2>3. Others(h)
    BY <1>16 DEF Exit, Done, HInv, TypeOK, Others
  <2> QED BY <1>0, <2>2, <2>3, OthersMove, HostMovesKeep
<1>17. CASE UNCHANGED vars
  BY <1>1, <1>17 DEF vars
<1> QED
  BY <1>2, <1>3, <1>4, <1>5, <1>6, <1>7, <1>8, <1>9, <1>10, <1>11, <1>12, <1>13, <1>14, <1>15,
     <1>16, <1>17 DEF Next

(***************************************************************************)
(* The steps, by what they do to fires and their executors.                *)
(***************************************************************************)

IInv == HInv /\ FInv

Looking == {"deferring"} \cup Closing

\* Where an executor is while its fire is, for others, as it was.
SamePhase(h) ==
  /\ pc[h] # "free" /\ cur'[h] = cur[h]
  /\ host'[h] = "starting" <=> host[h] = "starting"
  /\ \/ pc'[h] = pc[h]
     \/ pc[h] = "building" /\ pc'[h] = "preparing"
     \/ pc[h] = "binding" /\ pc'[h] = "running"
     \/ pc[h] = "failing" /\ pc'[h] = "counting"

\* No claim, no submission, no end: rows are inserted, put in another state
\* in which they can be claimed, given to a person or deleted; the authority
\* takes over an end from a file; executors go on or let go.
Tame ==
  /\ UNCHANGED <<submits, counted, fact>>
  /\ \A h \in Host : pc'[h] = "free" \/ SamePhase(h)
  /\ \/ UNCHANGED <<fstatus, run>>
     \/ /\ \A h \in Host : pc[h] \in Looking => pc'[h] = pc[h] /\ cur'[h] = cur[h]
        /\ UNCHANGED fstatus \/ UNCHANGED run
  /\ run' \in {run, Reconciled}
  /\ \A f \in Fire : \/ fstatus'[f] \in {fstatus[f], "gone"}
                     \/ fstatus[f] \in Unclaimed /\ fstatus'[f] \in Unclaimed \ {"none"}
                     \/ fstatus[f] = "running" /\ fstatus'[f] = "needs_approval"

\* claimFire()
Claims(h, f) ==
  /\ pc[h] = "free" /\ host[h] # "starting"
  /\ fstatus[f] \in Unclaimed /\ fstatus[f] # "none"
  /\ fstatus' = [fstatus EXCEPT ![f] = "running"]
  /\ \E place \in Early \ {"deferring"} : pc' = [pc EXCEPT ![h] = place]
  /\ cur' = [cur EXCEPT ![h] = f]
  /\ UNCHANGED <<works, host>>

\* An operation of the store has looked at a fire.
Takes(h, f, place) ==
  /\ UNCHANGED <<fires, host>>
  /\ pc' = [pc EXCEPT ![h] = place]
  /\ cur' = [cur EXCEPT ![h] = f]
  /\ \/ /\ pc[h] # "free" /\ host[h] # "starting" /\ cur[h] = f
        /\ fstatus[f] = "running"
        /\ \/ pc[h] = "claimed" /\ place = "deferring"
           \/ place = "failing"
           \/ place = "completing" /\ run[f] = "completed"
     \/ /\ pc[h] = "free" /\ host[h] = "starting"
        /\ \/ place = "asking"
           \/ fstatus[f] = "running" /\ run[f] = "completed" /\ place = "completing"
           \/ fstatus[f] = "running" /\ run[f] = "failed" /\ place = "failing"

StepForm ==
  \/ Tame
  \/ \E h \in Host, f \in Fire : Claims(h, f)
  \/ \E h \in Host, f \in Fire, place \in Place : Takes(h, f, place)
  \/ \E h \in Host : Submit(h)
  \/ \E h \in Host, outcome \in Over : RunRecords(h, outcome)
  \/ \E h \in Host : RunEnds(h)
  \/ \E h \in Host : DeferFire(h) /\ fstatus' = [fstatus EXCEPT ![cur[h]] = "deferred"]
  \/ \E h \in Host : CompleteFire(h) /\ fstatus[cur[h]] # "gone"
  \/ \E h \in Host : FailFire(h) /\ fstatus[cur[h]] # "gone"

LEMMA SameIsTame ==
  ASSUME HInv, UNCHANGED <<fstatus, submits, counted, fact, run, pc, cur, host>>
  PROVE  Tame
<1>1. \A h \in Host : pc'[h] = "free" \/ SamePhase(h)
  BY DEF SamePhase
<1> QED BY <1>1 DEF Tame

\* An executor or the recovery that is done, and has written nothing.
LEMMA DoneIsTame ==
  ASSUME HInv, NEW h \in Host, Done(h), UNCHANGED host \/ Throws(h),
         UNCHANGED <<fstatus, submits, counted, fact, run>>
  PROVE  Tame
<1>1. ASSUME NEW g \in Host PROVE pc'[g] = "free" \/ SamePhase(g)
  <2>1. CASE g = h
    BY <2>1 DEF Done, HInv, TypeOK
  <2>2. CASE g # h
    <3>1. pc'[g] = pc[g] /\ cur'[g] = cur[g] /\ host'[g] = host[g]
      BY <2>2 DEF Done, Throws, HInv, TypeOK
    <3> QED BY <3>1 DEF SamePhase
  <2> QED BY <2>1, <2>2
<1> QED BY <1>1 DEF Tame

\* An executor that looks, or gives up.
LEMMA LookForm ==
  ASSUME HInv, NEW h \in Host, NEW place \in {"deferring", "failing", "completing"},
         pc[h] \notin {"free", "asking"} \cup Closing,
         place = "deferring" => pc[h] = "claimed",
         place = "completing" => run[cur[h]] = "completed",
         LookOrStop(h, cur[h], place), UNCHANGED <<fires, host>>
  PROVE  Tame \/ \E f \in Fire, p \in Place : Takes(h, f, p)
<1>1. CASE Done(h)
  BY <1>1, DoneIsTame
<1>2. CASE Look(h, cur[h], place)
  <2>1. cur[h] \in Fire
    BY DEF HInv, TypeOK
  <2>2. host[h] # "starting"
    BY DEF HInv, Roles
  <2>3. Takes(h, cur[h], place)
    BY <1>2, <2>2 DEF Look, Takes
  <2>4. place \in Place
    BY DEF Place, InStore
  <2> QED BY <2>1, <2>3, <2>4
<1> QED BY <1>1, <1>2 DEF LookOrStop

LEMMA StepFormsClients ==
  ASSUME HInv, TypeOK',
         \/ \E a \in Automation :
              ComesDue(a) \/ Expires(a) \/ Pause(a) \/ Resume(a) \/ Delete(a)
         \/ \E a \in Automation, input \in Input : Create(a, input)
         \/ \E f \in Fire : FireComesDue(f)
         \/ \E h \in Host, a \in Automation : RunNow(h, a)
  PROVE  Tame
<1>1. ASSUME NEW a \in Automation, Delete(a) PROVE Tame
  <2>1. UNCHANGED <<submits, counted, fact, run, pc, cur, host>>
    BY <1>1 DEF Delete
  <2>2. \A f \in Fire : fstatus'[f] \in {fstatus[f], "gone"}
    BY <1>1 DEF Delete
  <2>3. \A h \in Host : pc'[h] = "free" \/ SamePhase(h)
    BY <2>1 DEF SamePhase
  <2> QED BY <2>1, <2>2, <2>3 DEF Tame
<1>2. ASSUME NEW h \in Host, NEW a \in Automation, RunNow(h, a) PROVE Tame
  <2>1. NewRow(a) \in Fire /\ fstatus[NewRow(a)] = "none"
    BY <1>2, NewRowSpare DEF RunNow, Spare
  <2>2. UNCHANGED <<submits, counted, fact, run, pc, cur, host>>
    BY <1>2 DEF RunNow
  <2>3. fstatus' = [fstatus EXCEPT ![NewRow(a)] = "pending"]
    BY <1>2 DEF RunNow
  <2>4. \A f \in Fire : \/ fstatus'[f] = fstatus[f]
                        \/ fstatus[f] \in Unclaimed /\ fstatus'[f] \in Unclaimed \ {"none"}
    BY <2>1, <2>3 DEF HInv, TypeOK, Unclaimed
  <2>5. \A g \in Host : pc'[g] = "free" \/ SamePhase(g)
    BY <2>2 DEF SamePhase
  <2> QED BY <2>2, <2>4, <2>5 DEF Tame
<1>3. CASE UNCHANGED <<fstatus, submits, counted, fact, run, pc, cur, host>>
  BY <1>3, SameIsTame
<1> QED
  BY <1>1, <1>2, <1>3 DEF ComesDue, Expires, Pause, Resume, Create, FireComesDue

LEMMA StepFormsRecovery ==
  ASSUME HInv, TypeOK', NEW h \in Host,
         \/ \E f \in Fire, known \in BOOLEAN : RecoverFire(h, f, known)
         \/ Start(h) \/ AskPerson(h) \/ Tick(h)
         \/ OthersBegin(h) \/ OthersEnd(h) \/ Stop(h) \/ Exit(h)
  PROVE  StepForm
<1>1. ASSUME NEW f \in Fire, NEW known \in BOOLEAN, RecoverFire(h, f, known) PROVE StepForm
  <2>1. UNCHANGED fires /\ host[h] = "starting" /\ pc[h] = "free"
    BY <1>1 DEF RecoverFire
  <2>2. CASE Throws(h)
    BY <2>1, <2>2, DoneIsTame DEF Throws, StepForm
  <2>3. CASE UNCHANGED <<host, pc, cur>>
    BY <2>1, <2>3, SameIsTame DEF StepForm
  <2>4. ASSUME UNCHANGED host, run[f] \in Over,
               Look(h, f, IF run[f] = "completed" THEN "completing" ELSE "failing")
        PROVE  StepForm
    <3> DEFINE place == IF run[f] = "completed" THEN "completing" ELSE "failing"
    <3>1. Takes(h, f, place)
      BY <2>1, <2>4 DEF Look, Takes, Over
    <3>2. place \in Place
      BY DEF Place, InStore
    <3> QED BY <3>1, <3>2 DEF StepForm
  <2>5. ASSUME UNCHANGED host, pc' = [pc EXCEPT ![h] = "asking"], cur' = [cur EXCEPT ![h] = f]
        PROVE  StepForm
    <3>1. Takes(h, f, "asking")
      BY <2>1, <2>5 DEF Takes
    <3> QED BY <3>1 DEF StepForm, Place, InStore
  <2> QED BY <1>1, <2>2, <2>3, <2>4, <2>5 DEF RecoverFire, Over
<1>2. CASE Start(h)
  <2>1. UNCHANGED <<submits, counted, fact, fstatus, pc, cur>> /\ run' = Reconciled
    BY <1>2 DEF Start
  <2>2. pc[h] = "free" /\ \A g \in Host \ {h} : host'[g] = host[g]
    BY <1>2 DEF Start, HInv, TypeOK, Roles
  <2>3. \A g \in Host : pc'[g] = "free" \/ SamePhase(g)
    BY <2>1, <2>2 DEF SamePhase
  <2> QED BY <2>1, <2>3 DEF Tame, StepForm
<1>3. CASE AskPerson(h)
  <2>1. /\ pc[h] = "asking" /\ cur[h] \in Fire /\ Done(h)
        /\ UNCHANGED <<submits, counted, fact, run>> /\ (UNCHANGED host \/ Throws(h))
    BY <1>3 DEF AskPerson, HInv, TypeOK, Throws
  <2>2. CASE UNCHANGED fstatus
    BY <2>1, <2>2, DoneIsTame DEF StepForm
  <2>3. CASE /\ fstatus[cur[h]] = "running" /\ fstatus' = [fstatus EXCEPT ![cur[h]] = "needs_approval"]
             /\ UNCHANGED host
    <3>1. pc'[h] = "free" /\ \A g \in Host \ {h} : pc'[g] = pc[g] /\ cur'[g] = cur[g]
      BY <2>1 DEF Done, HInv, TypeOK
    <3>2. \A g \in Host : pc'[g] = "free" \/ SamePhase(g)
      BY <2>3, <3>1 DEF SamePhase
    <3>3. \A g \in Host : pc[g] \in Looking => pc'[g] = pc[g] /\ cur'[g] = cur[g]
      BY <2>1, <3>1 DEF Looking, Closing
    <3>4. \A f \in Fire : \/ fstatus'[f] = fstatus[f]
                          \/ fstatus[f] = "running" /\ fstatus'[f] = "needs_approval"
      BY <2>3 DEF HInv, TypeOK
    <3> QED BY <2>1, <3>2, <3>3, <3>4 DEF Tame, StepForm
  <2>4. \/ UNCHANGED fstatus
        \/ /\ fstatus[cur[h]] = "running" /\ fstatus' = [fstatus EXCEPT ![cur[h]] = "needs_approval"]
           /\ UNCHANGED host
    <3>1. \/ UNCHANGED fstatus
          \/ /\ fstatus' = [fstatus EXCEPT ![cur[h]] = IF @ = "running" THEN "needs_approval" ELSE @]
             /\ UNCHANGED host
      BY <1>3 DEF AskPerson
    <3>2. CASE fstatus[cur[h]] # "running"
      BY <2>1, <3>1, <3>2 DEF HInv, TypeOK
    <3> QED BY <3>1, <3>2
  <2> QED BY <2>2, <2>3, <2>4
<1>4. CASE Tick(h)
  <2>1. pc[h] = "free" \/ host[h] = "up"
    BY <1>4 DEF Tick, Awaits, HInv, Roles, Closing, InStore
  <2>2. UNCHANGED <<works, pc, cur>> /\ host' = [host EXCEPT ![h] = "up"]
    BY <1>4 DEF Tick
  <2>3. host'[h] = "up" /\ \A g \in Host \ {h} : host'[g] = host[g]
    BY <2>2 DEF HInv, TypeOK
  <2>4. \A g \in Host : pc'[g] = "free" \/ SamePhase(g)
    BY <2>1, <2>2, <2>3 DEF SamePhase
  <2>5. \A f \in Fire : \/ fstatus'[f] = fstatus[f]
                        \/ fstatus[f] \in Unclaimed /\ fstatus'[f] \in Unclaimed \ {"none"}
    BY <1>4 DEF Tick, Recoverable, RowsFor, Unclaimed
  <2> QED BY <2>2, <2>4, <2>5 DEF Tame, StepForm
<1>5. CASE OthersBegin(h) \/ OthersEnd(h)
  BY <1>5, SameIsTame DEF OthersBegin, OthersEnd, StepForm
<1>6. CASE Stop(h)
  <2>1. /\ UNCHANGED <<fires, pc, cur>> /\ host[h] = "up" /\ host'[h] = "stopping"
        /\ \A g \in Host \ {h} : host'[g] = host[g]
    BY <1>6 DEF Stop, HInv, TypeOK
  <2>2. \A g \in Host : pc'[g] = "free" \/ SamePhase(g)
    BY <2>1 DEF SamePhase
  <2> QED BY <2>1, <2>2 DEF Tame, StepForm
<1>7. CASE Exit(h)
  <2>1. UNCHANGED fires /\ Done(h) /\ \A g \in Host \ {h} : host'[g] = host[g]
    BY <1>7 DEF Exit, HInv, TypeOK
  <2>2. pc'[h] = "free" /\ \A g \in Host \ {h} : pc'[g] = pc[g] /\ cur'[g] = cur[g]
    BY <2>1 DEF Done, HInv, TypeOK
  <2>3. \A g \in Host : pc'[g] = "free" \/ SamePhase(g)
    BY <2>1, <2>2 DEF SamePhase
  <2> QED BY <2>1, <2>3 DEF Tame, StepForm
<1> QED BY <1>1, <1>2, <1>3, <1>4, <1>5, <1>6, <1>7

LEMMA StepFormsRuns ==
  ASSUME HInv, TypeOK', NEW h \in Host,
         \/ \E f \in Fire : Execute(h, f)
         \/ \E outcome \in {"completed", "failed"} : RunRecords(h, outcome)
         \/ DeferLook(h) \/ DeferFire(h)
         \/ Rebuilt(h) \/ Submit(h) \/ BindFireRun(h) \/ PrepareFails(h)
         \/ RunEnds(h) \/ RunRejects(h) \/ Settle(h)
         \/ CompleteFire(h) \/ ReadFailures(h) \/ FailFire(h)
  PROVE  StepForm
<1>1. ASSUME NEW f \in Fire, Execute(h, f) PROVE StepForm
  <2>1. UNCHANGED <<works, host>> /\ pc[h] = "free"
    BY <1>1 DEF Execute
  <2>2. CASE UNCHANGED <<fstatus, pc, cur>>
    BY <2>1, <2>2, SameIsTame DEF StepForm
  <2>3. CASE /\ Claimable(f) /\ fstatus' = [fstatus EXCEPT ![f] = "running"]
             /\ \E place \in {"claimed", "preparing", "building"} : pc' = [pc EXCEPT ![h] = place]
             /\ cur' = [cur EXCEPT ![h] = f]
    <3>1. waiting[h][f] \in 0 .. MaxWaiting /\ waiting[h][f] > 0
      BY <1>1 DEF Execute, HInv, TypeOK
    <3>2. host[h] # "starting"
      BY <3>1 DEF HInv, Roles
    <3>3. fstatus[f] \in Unclaimed /\ fstatus[f] # "none"
      BY <2>3 DEF Claimable, Unclaimed
    <3>4. \E place \in Early \ {"deferring"} : pc' = [pc EXCEPT ![h] = place]
      BY <2>3 DEF Early
    <3>5. Claims(h, f)
      BY <2>1, <2>3, <3>2, <3>3, <3>4 DEF Claims
    <3> QED BY <3>5 DEF StepForm
  <2>4. \/ UNCHANGED <<fstatus, pc, cur>>
        \/ /\ Claimable(f) /\ fstatus' = [fstatus EXCEPT ![f] = "running"]
           /\ \E place \in {"claimed", "preparing", "building"} : pc' = [pc EXCEPT ![h] = place]
           /\ cur' = [cur EXCEPT ![h] = f]
    BY <1>1 DEF Execute
  <2> QED BY <2>2, <2>3, <2>4
<1>2. CASE DeferLook(h)
  BY <1>2, LookForm DEF DeferLook, StepForm, Closing
<1>3. CASE DeferFire(h)
  <2>1. CASE UNCHANGED fstatus
    BY <1>3, <2>1, DoneIsTame DEF DeferFire, StepForm
  <2>2. CASE fstatus' = [fstatus EXCEPT ![cur[h]] = "deferred"]
    BY <1>3, <2>2 DEF StepForm
  <2> QED BY <1>3, <2>1, <2>2 DEF DeferFire
<1>4. CASE Rebuilt(h)
  <2>1. /\ UNCHANGED <<submits, counted, fact, fstatus, cur, host>> /\ run' = Reconciled
        /\ pc[h] = "building" /\ pc'[h] = "preparing" /\ \A g \in Host \ {h} : pc'[g] = pc[g]
    BY <1>4 DEF Rebuilt, HInv, TypeOK
  <2>2. \A g \in Host : pc'[g] = "free" \/ SamePhase(g)
    BY <2>1 DEF SamePhase
  <2>3. \A g \in Host : pc[g] \in Looking => pc'[g] = pc[g] /\ cur'[g] = cur[g]
    BY <2>1 DEF Looking, Closing
  <2> QED BY <2>1, <2>2, <2>3 DEF Tame, StepForm
<1>5. CASE BindFireRun(h)
  <2>1. UNCHANGED <<submits, counted, fact, fstatus, run, host>>
    BY <1>5 DEF BindFireRun
  <2>2. CASE Done(h)
    BY <2>1, <2>2, DoneIsTame DEF StepForm
  <2>3. CASE ~Done(h)
    <3>1. /\ pc[h] = "binding" /\ pc'[h] = "running" /\ UNCHANGED cur
          /\ \A g \in Host \ {h} : pc'[g] = pc[g]
      BY <1>5, <2>3 DEF BindFireRun, HInv, TypeOK
    <3>2. \A g \in Host : pc'[g] = "free" \/ SamePhase(g)
      BY <2>1, <3>1 DEF SamePhase
    <3> QED BY <2>1, <3>2 DEF Tame, StepForm
  <2> QED BY <2>2, <2>3
<1>6. CASE PrepareFails(h)
  BY <1>6, LookForm DEF PrepareFails, StepForm, Closing
<1>7. CASE RunRejects(h)
  BY <1>7, LookForm DEF RunRejects, StepForm, Closing
<1>8. CASE Settle(h)
  <2> DEFINE place == IF run[cur[h]] = "completed" THEN "completing" ELSE "failing"
  <2>1. /\ LookOrStop(h, cur[h], place) /\ pc[h] = "ended" /\ UNCHANGED <<fires, host>>
        /\ place \in {"deferring", "failing", "completing"} /\ place # "deferring"
        /\ place = "completing" => run[cur[h]] = "completed"
    BY <1>8 DEF Settle
  <2> HIDE DEF place
  <2>2. pc[h] \notin {"free", "asking"} \cup Closing
    BY <2>1 DEF Closing
  <2> QED BY <2>1, <2>2, LookForm DEF StepForm
<1>9. CASE CompleteFire(h)
  <2>1. CASE fstatus[cur[h]] = "gone"
    <3>1. Throws(h) /\ UNCHANGED <<fstatus, submits, counted, fact, run>>
      BY <1>9, <2>1 DEF CompleteFire
    <3> QED BY <3>1, DoneIsTame DEF Throws, StepForm
  <2> QED BY <1>9, <2>1 DEF StepForm
<1>10. CASE FailFire(h)
  <2>1. CASE fstatus[cur[h]] = "gone"
    <3>1. Throws(h) /\ UNCHANGED <<fstatus, submits, counted, fact, run>>
      BY <1>10, <2>1 DEF FailFire
    <3> QED BY <3>1, DoneIsTame DEF Throws, StepForm
  <2> QED BY <1>10, <2>1 DEF StepForm
<1>11. CASE ReadFailures(h)
  <2>1. CASE Throws(h)
    BY <1>11, <2>1, DoneIsTame DEF ReadFailures, Throws, StepForm
  <2>2. CASE ~Throws(h)
    <3>1. /\ pc[h] = "failing" /\ pc'[h] = "counting" /\ UNCHANGED <<cur, host, fires>>
          /\ \A g \in Host \ {h} : pc'[g] = pc[g]
      BY <1>11, <2>2 DEF ReadFailures, HInv, TypeOK
    <3>2. \A g \in Host : pc'[g] = "free" \/ SamePhase(g)
      BY <3>1 DEF SamePhase
    <3> QED BY <3>1, <3>2 DEF Tame, StepForm
  <2> QED BY <2>1, <2>2
<1> QED
  BY <1>1, <1>2, <1>3, <1>4, <1>5, <1>6, <1>7, <1>8, <1>9, <1>10, <1>11 DEF StepForm, Over

LEMMA StepForms ==
  ASSUME HInv, [Next]_vars
  PROVE  StepForm
<1>1. TypeOK'
  BY TypeStep DEF HInv
<1>2. CASE UNCHANGED vars
  BY <1>2, SameIsTame DEF vars, StepForm
<1> QED
  BY <1>1, <1>2, StepFormsClients, StepFormsRecovery, StepFormsRuns DEF Next, StepForm

(***************************************************************************)
(* Every form of step keeps the invariant.                                 *)
(***************************************************************************)

LEMMA TameKeeps ==
  ASSUME IInv, TypeOK', Tame
  PROVE  FInv'
<1> USE DEF IInv, FInv
<1>1. UNCHANGED <<submits, counted, fact>>
  BY DEF Tame
<1>2. \A f \in Fire :
        \/ run'[f] = run[f]
        \/ run[f] = "active" /\ run'[f] = fact[f] /\ fact[f] \in Over
  BY DEF Tame, Reconciled, HInv, TypeOK, FactStatus, Over
<1>3. \A f \in Fire : \/ fstatus'[f] \in {fstatus[f], "gone"}
                      \/ fstatus[f] \in Unclaimed /\ fstatus'[f] \in Unclaimed \ {"none"}
                      \/ fstatus[f] = "running" /\ fstatus'[f] = "needs_approval"
  BY DEF Tame
<1>4. \A h \in Host : pc'[h] # "free" => SamePhase(h) /\ cur[h] \in Fire
  BY DEF Tame, SamePhase, HInv, TypeOK
<1>5. Begun'
  BY <1>1, <1>2 DEF Begun, Over
<1>6. Waits'
  BY <1>1, <1>3 DEF Waits, Unclaimed
<1>7. ASSUME NEW h \in Host, Executes(h)' PROVE Executes(h) /\ cur'[h] = cur[h] /\ cur[h] \in Fire
  BY <1>4, <1>7 DEF Executes, SamePhase
<1>8. Held'
  <2> SUFFICES ASSUME NEW h \in Host
               PROVE  /\ Executes(h)' => fstatus'[cur'[h]] \notin Unclaimed
                      /\ pc'[h] \notin {"free", "asking"} => fstatus'[cur'[h]] # "none"
    BY DEF Held
  <2>1. Executes(h)' => fstatus'[cur'[h]] \notin Unclaimed
    BY <1>3, <1>7 DEF Held, Unclaimed
  <2>2. ASSUME pc'[h] \notin {"free", "asking"} PROVE fstatus'[cur'[h]] # "none"
    <3>1. cur'[h] = cur[h] /\ cur[h] \in Fire /\ pc[h] \notin {"free", "asking"}
      BY <1>4, <2>2 DEF SamePhase
    <3>2. fstatus[cur[h]] # "none"
      BY <3>1 DEF Held
    <3> QED BY <1>3, <3>1, <3>2
  <2> QED BY <2>1, <2>2
<1>9. HeldByOne'
  <2> SUFFICES ASSUME NEW h \in Host, NEW g \in Host, h # g, Executes(h)', Executes(g)'
               PROVE  cur'[h] # cur'[g]
    BY DEF HeldByOne
  <2> QED BY <1>7 DEF HeldByOne
<1>10. NotYet'
  <2> SUFFICES ASSUME NEW h \in Host, pc'[h] \in Early
               PROVE  /\ submits'[cur'[h]] = 0
                      /\ fstatus'[cur'[h]] \in {"running", "needs_approval", "gone"}
    BY DEF NotYet
  <2>1. cur'[h] = cur[h] /\ cur[h] \in Fire /\ pc[h] \in Early
    BY <1>4 DEF SamePhase, Early
  <2>2. submits[cur[h]] = 0 /\ fstatus[cur[h]] \in {"running", "needs_approval", "gone"}
    BY <2>1 DEF NotYet
  <2> QED BY <1>1, <1>3, <2>1, <2>2 DEF Unclaimed
<1>11. Proven'
  <2> SUFFICES ASSUME NEW h \in Host
               PROVE  /\ pc'[h] \in Late => submits'[cur'[h]] > 0
                      /\ pc'[h] \in Closing /\ host'[h] = "starting" => submits'[cur'[h]] > 0
                      /\ pc'[h] = "completing" => run'[cur'[h]] = "completed"
    BY DEF Proven
  <2>1. CASE pc'[h] = "free"
    BY <2>1 DEF Late, Closing
  <2>2. CASE pc'[h] # "free"
    <3>1. SamePhase(h) /\ cur'[h] = cur[h] /\ cur[h] \in Fire
      BY <1>4, <2>2 DEF SamePhase
    <3>2. /\ pc'[h] \in Late => pc[h] \in Late
          /\ pc'[h] \in Closing => pc[h] \in Closing
          /\ pc'[h] = "completing" => pc[h] = "completing"
          /\ host'[h] = "starting" <=> host[h] = "starting"
      BY <3>1 DEF SamePhase, Late, Closing
    <3> QED BY <1>1, <1>2, <3>1, <3>2 DEF Proven
  <2> QED BY <2>1, <2>2
<1>12. CountedTwice'
  <2> SUFFICES ASSUME NEW f \in Fire
               PROVE  /\ counted'[f] <= 2
                      /\ counted'[f] > 0 => fstatus'[f] \in Ended \cup {"gone"}
                      /\ counted'[f] = 1 => \A h, g \in Host : Completes(h, f)' /\ Completes(g, f)' => h = g
                      /\ counted'[f] = 2 => \A h \in Host : ~Completes(h, f)'
    BY DEF CountedTwice
  <2>1. \A h \in Host : Completes(h, f)' => Completes(h, f)
    BY <1>4 DEF Completes, SamePhase
  <2>2. fstatus[f] \in Ended \cup {"gone"} => fstatus'[f] \in Ended \cup {"gone"}
    BY <1>3 DEF Ended, Unclaimed
  <2> QED BY <1>1, <2>1, <2>2 DEF CountedTwice
<1>13. FireRunsOnce' /\ CompletedFollowsRun'
  BY <1>1, <1>2, <1>3 DEF FireRunsOnce, CompletedFollowsRun, Unclaimed
<1> QED BY <1>5, <1>6, <1>8, <1>9, <1>10, <1>11, <1>12, <1>13

LEMMA InvInit == Init => IInv
<1> SUFFICES ASSUME Init PROVE IInv
  OBVIOUS
<1>1. HInv
  BY HInvInit
<1>2. Begun /\ Waits /\ Held /\ HeldByOne
  BY DEF Init, Begun, Waits, Held, HeldByOne, Executes, Over
<1>3. NotYet /\ Proven
  BY DEF Init, NotYet, Proven, Early, Late, Closing
<1>4. CountedTwice /\ FireRunsOnce /\ CompletedFollowsRun
  BY DEF Init, CountedTwice, Completes, FireRunsOnce, CompletedFollowsRun
<1> QED BY <1>1, <1>2, <1>3, <1>4 DEF IInv, FInv

\* An executor moves, to a place and a fire, and the others do not.
Moved(h, f, place) ==
  /\ pc'[h] = place /\ cur'[h] = f /\ UNCHANGED host
  /\ \A g \in Host \ {h} : pc'[g] = pc[g] /\ cur'[g] = cur[g]

\* claimFire(): nobody executes the fire and it has no run.
LEMMA ClaimKeeps ==
  ASSUME IInv, TypeOK', NEW h \in Host, NEW f \in Fire, Claims(h, f)
  PROVE  FInv'
<1> USE DEF IInv, FInv
<1>1. PICK place \in Early : Moved(h, f, place)
  BY DEF Claims, Moved, HInv, TypeOK
<1>2. /\ fstatus'[f] = "running" /\ fstatus[f] \in Unclaimed /\ submits[f] = 0
      /\ \A e \in Fire \ {f} : fstatus'[e] = fstatus[e]
  BY DEF Claims, HInv, TypeOK, Waits
<1>3. UNCHANGED <<submits, counted, fact, run, host>> /\ pc[h] = "free" /\ host[h] # "starting"
  BY DEF Claims
<1>4. \A g \in Host : Executes(g) => cur[g] \in Fire \ {f}
  BY <1>2 DEF Held, Executes, HInv, TypeOK
<1>5. \A g \in Host : pc[g] # "free" => cur[g] \in Fire
  BY DEF HInv, TypeOK
<1>6. Begun' /\ Waits' /\ FireRunsOnce'
  BY <1>2, <1>3 DEF Begun, Waits, FireRunsOnce, Unclaimed
<1>7. Held'
  <2> SUFFICES ASSUME NEW g \in Host
               PROVE  /\ Executes(g)' => fstatus'[cur'[g]] \notin Unclaimed
                      /\ pc'[g] \notin {"free", "asking"} => fstatus'[cur'[g]] # "none"
    BY DEF Held
  <2>1. CASE g = h
    BY <1>1, <1>2, <2>1 DEF Moved, Unclaimed
  <2>2. CASE g # h
    BY <1>1, <1>2, <1>3, <1>4, <1>5, <2>2 DEF Moved, Held, Executes
  <2> QED BY <2>1, <2>2
<1>8. HeldByOne'
  <2> SUFFICES ASSUME NEW k \in Host, NEW g \in Host, k # g, Executes(k)', Executes(g)'
               PROVE  cur'[k] # cur'[g]
    BY DEF HeldByOne
  <2>1. ASSUME NEW e \in Host, e # h, Executes(e)' PROVE Executes(e) /\ cur'[e] = cur[e]
    BY <1>1, <1>3, <2>1 DEF Moved, Executes
  <2>2. CASE k = h \/ g = h
    BY <1>1, <1>4, <2>1, <2>2 DEF Moved
  <2>3. CASE k # h /\ g # h
    BY <2>1, <2>3 DEF HeldByOne
  <2> QED BY <2>2, <2>3
<1>9. NotYet'
  <2> SUFFICES ASSUME NEW g \in Host, pc'[g] \in Early
               PROVE  /\ submits'[cur'[g]] = 0
                      /\ fstatus'[cur'[g]] \in {"running", "needs_approval", "gone"}
    BY DEF NotYet
  <2>1. CASE g = h
    BY <1>1, <1>2, <1>3, <2>1 DEF Moved
  <2>2. CASE g # h
    <3>1. pc[g] \in Early /\ cur'[g] = cur[g] /\ cur[g] \in Fire
      BY <1>1, <1>5, <2>2 DEF Moved, Early
    <3> QED BY <1>2, <1>3, <3>1 DEF NotYet
  <2> QED BY <2>1, <2>2
<1>10. Proven'
  <2> SUFFICES ASSUME NEW g \in Host
               PROVE  /\ pc'[g] \in Late => submits'[cur'[g]] > 0
                      /\ pc'[g] \in Closing /\ host'[g] = "starting" => submits'[cur'[g]] > 0
                      /\ pc'[g] = "completing" => run'[cur'[g]] = "completed"
    BY DEF Proven
  <2>1. CASE g = h
    BY <1>1, <2>1 DEF Moved, Early, Late, Closing
  <2>2. CASE g # h
    BY <1>1, <1>3, <2>2 DEF Moved, Proven
  <2> QED BY <2>1, <2>2
<1>11. CountedTwice'
  <2> SUFFICES ASSUME NEW e \in Fire
               PROVE  /\ counted'[e] <= 2
                      /\ counted'[e] > 0 => fstatus'[e] \in Ended \cup {"gone"}
                      /\ counted'[e] = 1 => \A k, g \in Host : Completes(k, e)' /\ Completes(g, e)' => k = g
                      /\ counted'[e] = 2 => \A g \in Host : ~Completes(g, e)'
    BY DEF CountedTwice
  <2>1. \A g \in Host : Completes(g, e)' => Completes(g, e)
    BY <1>1 DEF Moved, Completes, Early
  <2>2. counted[f] = 0
    BY <1>2 DEF Begun
  <2> QED BY <1>2, <1>3, <2>1, <2>2 DEF CountedTwice
<1>12. CompletedFollowsRun'
  BY <1>2, <1>3 DEF CompletedFollowsRun
<1> QED BY <1>6, <1>7, <1>8, <1>9, <1>10, <1>11, <1>12

\* An operation of the store has looked: what it goes on with is its own or,
\* for the recovery, what an executor may have as well.
LEMMA TakeKeeps ==
  ASSUME IInv, TypeOK', NEW h \in Host, NEW f \in Fire, NEW place \in Place, Takes(h, f, place)
  PROVE  FInv'
<1> USE DEF IInv, FInv
<1>1. Moved(h, f, place)
  BY DEF Takes, Moved, HInv, TypeOK
<1>2. UNCHANGED <<fstatus, submits, counted, fact, run, host>>
  BY DEF Takes
<1>3. /\ place \in {"deferring", "failing", "completing", "asking"}
      /\ place # "asking" => fstatus[f] = "running"
      /\ place = "completing" => run[f] = "completed"
      /\ place = "deferring" => pc[h] = "claimed" /\ cur[h] = f
      /\ place \in Closing /\ host[h] = "starting" => run[f] \in Over
      /\ host[h] # "starting" => Executes(h) /\ cur[h] = f
  BY DEF Takes, Closing, Over, Executes
<1>4. Begun' /\ Waits' /\ FireRunsOnce' /\ CompletedFollowsRun'
  BY <1>2 DEF Begun, Waits, FireRunsOnce, CompletedFollowsRun
<1>5. Held'
  <2> SUFFICES ASSUME NEW g \in Host
               PROVE  /\ Executes(g)' => fstatus'[cur'[g]] \notin Unclaimed
                      /\ pc'[g] \notin {"free", "asking"} => fstatus'[cur'[g]] # "none"
    BY DEF Held
  <2>1. CASE g = h
    BY <1>1, <1>2, <1>3, <2>1 DEF Moved, Unclaimed, Executes, Held
  <2>2. CASE g # h
    BY <1>1, <1>2, <2>2 DEF Moved, Held, Executes
  <2> QED BY <2>1, <2>2
<1>6. HeldByOne'
  <2> SUFFICES ASSUME NEW k \in Host, NEW g \in Host, k # g, Executes(k)', Executes(g)'
               PROVE  cur'[k] # cur'[g]
    BY DEF HeldByOne
  <2>1. ASSUME NEW e \in Host, Executes(e)' PROVE Executes(e) /\ cur'[e] = cur[e]
    BY <1>1, <1>2, <1>3, <2>1 DEF Moved, Executes
  <2> QED BY <2>1 DEF HeldByOne
<1>7. NotYet'
  <2> SUFFICES ASSUME NEW g \in Host, pc'[g] \in Early
               PROVE  /\ submits'[cur'[g]] = 0
                      /\ fstatus'[cur'[g]] \in {"running", "needs_approval", "gone"}
    BY DEF NotYet
  <2>1. pc[g] \in Early /\ cur'[g] = cur[g]
    BY <1>1, <1>3 DEF Moved, Early
  <2> QED BY <1>2, <2>1 DEF NotYet
<1>8. Proven'
  <2> SUFFICES ASSUME NEW g \in Host
               PROVE  /\ pc'[g] \in Late => submits'[cur'[g]] > 0
                      /\ pc'[g] \in Closing /\ host'[g] = "starting" => submits'[cur'[g]] > 0
                      /\ pc'[g] = "completing" => run'[cur'[g]] = "completed"
    BY DEF Proven
  <2>1. CASE g = h
    <3>1. run[f] \in Over => submits[f] > 0
      BY DEF Begun, HInv, TypeOK, Over
    <3> QED BY <1>1, <1>2, <1>3, <2>1, <3>1 DEF Moved, Late
  <2>2. CASE g # h
    BY <1>1, <1>2, <2>2 DEF Moved, Proven
  <2> QED BY <2>1, <2>2
<1>9. CountedTwice'
  <2> SUFFICES ASSUME NEW e \in Fire, counted[e] > 0
               PROVE  \A g \in Host : Completes(g, e)' => Completes(g, e)
    BY <1>2 DEF CountedTwice
  <2>1. fstatus[e] # "running"
    BY DEF CountedTwice, Ended
  <2> QED BY <1>1, <1>3, <2>1 DEF Moved, Completes
<1> QED BY <1>4, <1>5, <1>6, <1>7, <1>8, <1>9

\* submitPrompt() for a fire that has no run yet.
LEMMA SubmitKeeps ==
  ASSUME IInv, TypeOK', NEW h \in Host, Submit(h)
  PROVE  FInv'
<1> USE DEF IInv, FInv
<1> DEFINE f == cur[h]
<1>1. pc[h] = "preparing" /\ f \in Fire /\ Executes(h)
  <2>1. pc[h] = "preparing" /\ host[h] # "starting"
    BY DEF Submit, HInv, Roles, Closing
  <2> QED BY <2>1 DEF Executes, HInv, TypeOK
<1>2. /\ submits[f] = 0 /\ fstatus[f] \in {"running", "needs_approval", "gone"}
      /\ run[f] = "none" /\ counted[f] = 0
  BY <1>1 DEF NotYet, Begun, Early
<1>3. /\ submits'[f] = 1 /\ run'[f] = "active"
      /\ \A e \in Fire \ {f} : submits'[e] = submits[e] /\ run'[e] = run[e]
  BY <1>1, <1>2 DEF Submit, HInv, TypeOK
<1>4. UNCHANGED <<fstatus, counted, fact, host>>
  BY DEF Submit
<1>5. /\ (pc'[h] = "binding" /\ cur'[h] = f) \/ pc'[h] = "free"
      /\ \A g \in Host \ {h} : pc'[g] = pc[g] /\ cur'[g] = cur[g]
  BY DEF Submit, LookOrStop, Look, Done, HInv, TypeOK
<1>6. \A g \in Host \ {h} : Executes(g) => cur[g] # f
  BY <1>1 DEF HeldByOne
<1>7. \A g \in Host : pc[g] # "free" => cur[g] \in Fire
  BY DEF HInv, TypeOK
<1>8. ASSUME NEW g \in Host, Executes(g)' PROVE Executes(g) /\ cur'[g] = cur[g]
  BY <1>1, <1>4, <1>5, <1>8 DEF Executes
<1>9. Begun' /\ Waits' /\ FireRunsOnce' /\ CompletedFollowsRun'
  BY <1>2, <1>3, <1>4 DEF Begun, Waits, FireRunsOnce, CompletedFollowsRun, Unclaimed, Over
<1>10. Held'
  <2> SUFFICES ASSUME NEW g \in Host
               PROVE  /\ Executes(g)' => fstatus'[cur'[g]] \notin Unclaimed
                      /\ pc'[g] \notin {"free", "asking"} => fstatus'[cur'[g]] # "none"
    BY DEF Held
  <2>1. CASE g = h
    BY <1>2, <1>4, <1>5, <2>1 DEF Executes, Unclaimed
  <2>2. CASE g # h
    BY <1>4, <1>5, <2>2 DEF Held, Executes
  <2> QED BY <2>1, <2>2
<1>11. HeldByOne'
  BY <1>8 DEF HeldByOne
<1>12. NotYet'
  <2> SUFFICES ASSUME NEW g \in Host, pc'[g] \in Early
               PROVE  /\ submits'[cur'[g]] = 0
                      /\ fstatus'[cur'[g]] \in {"running", "needs_approval", "gone"}
    BY DEF NotYet
  <2>1. g # h /\ pc[g] \in Early /\ cur'[g] = cur[g]
    BY <1>5 DEF Early
  <2>2. Executes(g)
    BY <2>1 DEF Executes, Early, HInv, Roles, Closing
  <2>3. cur[g] \in Fire \ {f}
    BY <1>6, <1>7, <2>1, <2>2 DEF Executes
  <2> QED BY <1>3, <1>4, <2>1, <2>3 DEF NotYet
<1>13. Proven'
  <2> SUFFICES ASSUME NEW g \in Host
               PROVE  /\ pc'[g] \in Late => submits'[cur'[g]] > 0
                      /\ pc'[g] \in Closing /\ host'[g] = "starting" => submits'[cur'[g]] > 0
                      /\ pc'[g] = "completing" => run'[cur'[g]] = "completed"
    BY DEF Proven
  <2>1. CASE g = h
    BY <1>3, <1>5, <2>1 DEF Late, Closing
  <2>2. CASE g # h
    <3>1. pc'[g] = pc[g] /\ cur'[g] = cur[g] /\ host'[g] = host[g]
      BY <1>4, <1>5, <2>2
    <3>2. CASE cur[g] = f
      BY <1>2, <1>3, <3>1, <3>2 DEF Proven
    <3>3. CASE cur[g] \in Fire \ {f}
      BY <1>3, <3>1, <3>3 DEF Proven
    <3>4. CASE pc[g] = "free"
      BY <3>1, <3>4 DEF Late, Closing
    <3> QED BY <1>7, <3>2, <3>3, <3>4
  <2> QED BY <2>1, <2>2
<1>14. CountedTwice'
  <2> SUFFICES ASSUME NEW e \in Fire
               PROVE  \A g \in Host : Completes(g, e)' => Completes(g, e)
    BY <1>4 DEF CountedTwice
  <2> QED BY <1>5 DEF Completes
<1> QED BY <1>9, <1>10, <1>11, <1>12, <1>13, <1>14

\* The run writes its end to the session's file.
LEMMA RunRecordsKeeps ==
  ASSUME IInv, TypeOK', NEW h \in Host, NEW outcome \in Over, RunRecords(h, outcome)
  PROVE  FInv'
<1> USE DEF IInv, FInv
<1>1. cur[h] \in Fire /\ submits[cur[h]] > 0 /\ fact[cur[h]] = "none"
  BY DEF RunRecords, Proven, Late, HInv, TypeOK
<1>2. UNCHANGED <<fstatus, submits, counted, run, host, pc, cur>>
  BY DEF RunRecords
<1>3. \A e \in Fire \ {cur[h]} : fact'[e] = fact[e]
  BY DEF RunRecords, HInv, TypeOK
<1>4. run[cur[h]] \notin Over
  BY <1>1 DEF Begun, Over
<1>5. Begun'
  <2> SUFFICES ASSUME NEW f \in Fire
               PROVE  /\ submits[f] = 0 <=> run[f] = "none"
                      /\ submits[f] = 0 => fact'[f] = "none" /\ counted[f] = 0
                      /\ run[f] \in Over => fact'[f] = run[f]
    BY <1>2 DEF Begun
  <2> QED BY <1>1, <1>3, <1>4 DEF Begun
<1>6. Waits' /\ Held' /\ HeldByOne' /\ NotYet' /\ Proven'
  BY <1>2 DEF Waits, Held, HeldByOne, NotYet, Proven, Executes
<1>7. CountedTwice' /\ FireRunsOnce' /\ CompletedFollowsRun'
  BY <1>2 DEF CountedTwice, Completes, FireRunsOnce, CompletedFollowsRun
<1> QED BY <1>5, <1>6, <1>7

\* Its row gets the end that is in the file.
LEMMA RunEndsKeeps ==
  ASSUME IInv, TypeOK', NEW h \in Host, RunEnds(h)
  PROVE  FInv'
<1> USE DEF IInv, FInv
<1> DEFINE f == cur[h]
<1>1. /\ pc[h] = "running" /\ f \in Fire /\ submits[f] > 0 /\ fact[f] \in Over
  BY DEF RunEnds, Proven, Late, HInv, TypeOK, FactStatus, Over
<1>2. UNCHANGED <<fstatus, submits, counted, fact, host, cur>>
  BY DEF RunEnds
<1>3. /\ run'[f] = fact[f] /\ \A e \in Fire \ {f} : run'[e] = run[e]
      /\ pc'[h] = "ended" /\ \A g \in Host \ {h} : pc'[g] = pc[g]
  BY DEF RunEnds, HInv, TypeOK
<1>4. run[f] \in Over => run'[f] = run[f]
  BY <1>1, <1>3 DEF Begun
<1>5. \A g \in Host : pc[g] # "free" => cur[g] \in Fire
  BY DEF HInv, TypeOK
<1>6. Begun'
  BY <1>1, <1>2, <1>3 DEF Begun, Over
<1>7. \A g \in Host : Executes(g)' <=> Executes(g)
  BY <1>1, <1>2, <1>3 DEF Executes
<1>8. Waits' /\ HeldByOne' /\ FireRunsOnce'
  BY <1>2, <1>7 DEF Waits, HeldByOne, FireRunsOnce
<1>9. Held' /\ NotYet'
  BY <1>1, <1>2, <1>3, <1>7 DEF Held, NotYet, Early
<1>10. Proven'
  <2> SUFFICES ASSUME NEW g \in Host
               PROVE  /\ pc'[g] \in Late => submits[cur[g]] > 0
                      /\ pc'[g] \in Closing /\ host[g] = "starting" => submits[cur[g]] > 0
                      /\ pc'[g] = "completing" => run'[cur[g]] = "completed"
    BY <1>2 DEF Proven
  <2>1. CASE g = h
    BY <1>1, <1>3, <2>1 DEF Closing
  <2>2. CASE g # h
    <3>1. pc'[g] = "completing" => cur[g] \in Fire /\ run[cur[g]] = "completed"
      BY <1>3, <1>5, <2>2 DEF Proven
    <3> QED BY <1>3, <1>4, <2>2, <3>1 DEF Proven, Over
  <2> QED BY <2>1, <2>2
<1>11. CountedTwice'
  <2> SUFFICES ASSUME NEW e \in Fire
               PROVE  \A g \in Host : Completes(g, e)' => Completes(g, e)
    BY <1>2 DEF CountedTwice
  <2> QED BY <1>2, <1>3 DEF Completes
<1>12. CompletedFollowsRun'
  BY <1>2, <1>3, <1>4 DEF CompletedFollowsRun, Over
<1> QED BY <1>6, <1>8, <1>9, <1>10, <1>11, <1>12

\* An operation that had looked at its fire writes the row, and lets it go.
Writes(h, to) ==
  /\ pc[h] # "free" /\ pc'[h] = "free" /\ UNCHANGED <<host, submits, fact, run>>
  /\ \A g \in Host \ {h} : pc'[g] = pc[g] /\ cur'[g] = cur[g]
  /\ fstatus' = [fstatus EXCEPT ![cur[h]] = to]

\* What every such operation keeps.
LEMMA WriteKeeps ==
  ASSUME IInv, TypeOK', NEW h \in Host,
         NEW to \in {"deferred", "completed", "failed"}, Writes(h, to),
         to = "deferred" => pc[h] \in Early,
         to = "completed" => pc[h] = "completing",
         to = "failed" => pc[h] = "counting"
  PROVE  Waits' /\ Held' /\ HeldByOne' /\ NotYet' /\ Proven' /\ FireRunsOnce' /\ CompletedFollowsRun'
<1> USE DEF IInv, FInv
<1> DEFINE f == cur[h]
<1>1. f \in Fire
  BY DEF Writes, HInv, TypeOK
<1>2. fstatus'[f] = to /\ \A e \in Fire \ {f} : fstatus'[e] = fstatus[e]
  BY <1>1 DEF Writes, HInv, TypeOK
<1>3. UNCHANGED <<submits, run, host>> /\ pc'[h] = "free"
      /\ \A g \in Host \ {h} : pc'[g] = pc[g] /\ cur'[g] = cur[g]
  BY DEF Writes
<1>4. \A g \in Host : pc[g] # "free" => cur[g] \in Fire
  BY DEF HInv, TypeOK
<1>5. pc[h] \in Early => submits[f] = 0
  BY DEF NotYet
<1>6. ASSUME NEW g \in Host \ {h}, pc[g] \in Early PROVE cur[g] \in Fire \ {f}
  <2>1. Executes(g)
    BY <1>6 DEF Executes, Early, HInv, Roles, Closing
  <2>2. cur[g] \in Fire /\ submits[cur[g]] = 0
    BY <1>4, <1>6 DEF NotYet, Early
  <2>3. CASE host[h] = "starting"
    <3>1. pc[h] \in Closing
      BY <2>3 DEF Early, Closing, HInv, Roles
    <3>2. submits[f] > 0
      BY <2>3, <3>1 DEF Proven
    <3> QED BY <2>2, <3>2
  <2>4. CASE host[h] # "starting"
    BY <2>1, <2>2, <2>4 DEF HeldByOne, Executes, Writes
  <2> QED BY <2>3, <2>4
<1>7. Waits' /\ FireRunsOnce'
  BY <1>2, <1>3, <1>5 DEF Waits, FireRunsOnce, Unclaimed
<1>8. CompletedFollowsRun'
  BY <1>2, <1>3 DEF CompletedFollowsRun, Proven
<1>9. ASSUME NEW g \in Host, pc'[g] # "free" PROVE g # h /\ pc'[g] = pc[g] /\ cur'[g] = cur[g] /\ cur[g] \in Fire
  BY <1>3, <1>4, <1>9
<1>10. HeldByOne'
  BY <1>3, <1>9 DEF HeldByOne, Executes
<1>11. NotYet'
  <2> SUFFICES ASSUME NEW g \in Host, pc'[g] \in Early
               PROVE  /\ submits'[cur'[g]] = 0
                      /\ fstatus'[cur'[g]] \in {"running", "needs_approval", "gone"}
    BY DEF NotYet
  <2>1. g # h /\ pc[g] \in Early /\ cur'[g] = cur[g]
    BY <1>9 DEF Early
  <2> QED BY <1>2, <1>3, <1>6, <2>1 DEF NotYet
<1>12. Proven'
  <2> SUFFICES ASSUME NEW g \in Host, pc'[g] # "free"
               PROVE  /\ pc'[g] \in Late => submits'[cur'[g]] > 0
                      /\ pc'[g] \in Closing /\ host'[g] = "starting" => submits'[cur'[g]] > 0
                      /\ pc'[g] = "completing" => run'[cur'[g]] = "completed"
    BY DEF Proven, Late, Closing
  <2> QED BY <1>3, <1>9 DEF Proven
<1>13. Held'
  <2> SUFFICES ASSUME NEW g \in Host, pc'[g] # "free"
               PROVE  /\ Executes(g)' => fstatus'[cur'[g]] \notin Unclaimed
                      /\ pc'[g] \notin {"free", "asking"} => fstatus'[cur'[g]] # "none"
    BY DEF Held, Executes
  <2>1. g # h /\ pc'[g] = pc[g] /\ cur'[g] = cur[g] /\ cur[g] \in Fire /\ host'[g] = host[g]
    BY <1>3, <1>9
  <2>2. CASE cur[g] # f
    BY <1>2, <2>1, <2>2 DEF Held, Executes
  <2>3. CASE cur[g] = f
    <3>1. fstatus'[cur'[g]] = to
      BY <1>2, <2>1, <2>3
    <3>2. CASE to # "deferred"
      BY <3>1, <3>2 DEF Unclaimed
    <3>3. CASE to = "deferred"
      <4>1. Executes(h)
        BY <3>3 DEF Executes, Early, HInv, Roles, Closing
      <4>2. ~Executes(g)
        BY <2>1, <2>3, <4>1 DEF HeldByOne
      <4> QED BY <2>1, <3>1, <3>3, <4>2 DEF Executes
    <3> QED BY <3>2, <3>3
  <2> QED BY <2>2, <2>3
<1> QED BY <1>7, <1>8, <1>10, <1>11, <1>12, <1>13

\* deferFire(), of a fire that was not submitted.
LEMMA DeferKeeps ==
  ASSUME IInv, TypeOK', NEW h \in Host, DeferFire(h),
         fstatus' = [fstatus EXCEPT ![cur[h]] = "deferred"]
  PROVE  FInv'
<1>1. /\ Writes(h, "deferred") /\ pc[h] = "deferring" /\ UNCHANGED counted
      /\ cur[h] \in Fire
  BY DEF DeferFire, Done, Writes, IInv, HInv, TypeOK
<1>2. Waits' /\ Held' /\ HeldByOne' /\ NotYet' /\ Proven' /\ FireRunsOnce' /\ CompletedFollowsRun'
  BY <1>1, WriteKeeps DEF Early
<1>3. Begun'
  BY <1>1 DEF Writes, Begun, IInv, FInv
<1>4. CountedTwice'
  <2>1. counted[cur[h]] = 0
    BY <1>1 DEF IInv, FInv, NotYet, Begun, Early
  <2>2. \A e \in Fire \ {cur[h]} : fstatus'[e] = fstatus[e]
    BY <1>1 DEF Writes, IInv, HInv, TypeOK
  <2>3. \A g \in Host, e \in Fire : Completes(g, e)' => Completes(g, e)
    BY <1>1 DEF Writes, Completes
  <2> QED BY <1>1, <2>1, <2>2, <2>3 DEF CountedTwice, IInv, FInv
<1> QED BY <1>2, <1>3, <1>4 DEF FInv

\* failFire()
LEMMA FailKeeps ==
  ASSUME IInv, TypeOK', NEW h \in Host, FailFire(h), fstatus[cur[h]] # "gone"
  PROVE  FInv'
<1>1. Writes(h, "failed") /\ pc[h] = "counting" /\ UNCHANGED counted
  BY DEF FailFire, Done, Writes, IInv, HInv, TypeOK
<1>2. Waits' /\ Held' /\ HeldByOne' /\ NotYet' /\ Proven' /\ FireRunsOnce' /\ CompletedFollowsRun'
  BY <1>1, WriteKeeps
<1>3. Begun'
  BY <1>1 DEF Writes, Begun, IInv, FInv
<1>4. CountedTwice'
  <2>1. \A e \in Fire : fstatus'[e] \in {fstatus[e], "failed"}
    BY <1>1 DEF Writes, IInv, HInv, TypeOK
  <2>2. \A g \in Host, e \in Fire : Completes(g, e)' => Completes(g, e)
    BY <1>1 DEF Writes, Completes
  <2> QED BY <1>1, <2>1, <2>2 DEF CountedTwice, IInv, FInv, Ended
<1> QED BY <1>2, <1>3, <1>4 DEF FInv

\* completeFire(): an executor and a recovery may each count the fire, and
\* there is no third.
LEMMA CompleteKeeps ==
  ASSUME IInv, TypeOK', NEW h \in Host, NEW f \in Fire, f = cur[h],
         CompleteFire(h), fstatus[f] # "gone"
  PROVE  FInv'
<1> USE DEF IInv, FInv
<1>1. Writes(h, "completed") /\ pc[h] = "completing"
  BY DEF CompleteFire, Done, Writes, HInv, TypeOK
<1>2. Waits' /\ Held' /\ HeldByOne' /\ NotYet' /\ Proven' /\ FireRunsOnce' /\ CompletedFollowsRun'
  BY <1>1, WriteKeeps
<1>3. counted' = [counted EXCEPT ![f] = @ + 1]
  BY DEF CompleteFire
<1>4. counted'[f] = counted[f] + 1 /\ counted[f] \in Nat /\ \A e \in Fire \ {f} : counted'[e] = counted[e]
  BY <1>1, <1>3 DEF HInv, TypeOK
<1>5. run[f] = "completed"
  BY <1>1 DEF Proven
<1>6. Begun'
  <2>1. submits[f] # 0
    BY <1>1, <1>5 DEF Begun
  <2>2. UNCHANGED <<submits, fact, run>>
    BY <1>1 DEF Writes
  <2> QED BY <1>4, <2>1, <2>2 DEF Begun
<1>7. /\ fstatus'[f] = "completed" /\ \A e \in Fire \ {f} : fstatus'[e] = fstatus[e]
  BY <1>1 DEF Writes, HInv, TypeOK
<1>8. \A g \in Host, e \in Fire : Completes(g, e)' => Completes(g, e) /\ g # h
  BY <1>1 DEF Writes, Completes
<1>9. Completes(h, f)
  BY <1>1 DEF Completes
<1>10. ASSUME NEW k \in Host, NEW g \in Host, Completes(k, f)', Completes(g, f)' PROVE k = g
  <2>1. /\ Completes(k, f) /\ Completes(g, f) /\ k # h /\ g # h
    BY <1>8, <1>10
  <2>2. ASSUME NEW x \in Host, NEW y \in Host, x # y, Completes(x, f), Completes(y, f)
        PROVE  host[x] = "starting" \/ host[y] = "starting"
    BY <2>2 DEF HeldByOne, Executes, Completes
  <2>3. ASSUME NEW x \in Host, NEW y \in Host, host[x] = "starting", host[y] = "starting"
        PROVE  x = y
    BY <2>3 DEF HInv, OneServes
  <2> QED BY <1>9, <2>1, <2>2, <2>3
<1>11. CountedTwice'
  <2> SUFFICES ASSUME NEW e \in Fire
               PROVE  /\ counted'[e] <= 2
                      /\ counted'[e] > 0 => fstatus'[e] \in Ended \cup {"gone"}
                      /\ counted'[e] = 1 => \A k, g \in Host : Completes(k, e)' /\ Completes(g, e)' => k = g
                      /\ counted'[e] = 2 => \A g \in Host : ~Completes(g, e)'
    BY DEF CountedTwice
  <2>1. CASE e # f
    BY <1>4, <1>7, <1>8, <2>1 DEF CountedTwice
  <2>2. CASE e = f
    <3>1. counted[f] <= 1
      BY <1>4, <1>9 DEF CountedTwice
    <3>2. counted'[f] = 2 => \A g \in Host : ~Completes(g, f)'
      BY <1>4, <1>8, <1>9 DEF CountedTwice
    <3> QED BY <1>4, <1>7, <1>10, <2>2, <3>1, <3>2 DEF Ended
  <2> QED BY <2>1, <2>2
<1> QED BY <1>2, <1>6, <1>11

LEMMA InvStep == IInv /\ [Next]_vars => IInv'
<1> SUFFICES ASSUME IInv, [Next]_vars PROVE IInv'
  OBVIOUS
<1>1. HInv' /\ TypeOK'
  BY HInvStep DEF IInv, HInv
<1>2. ASSUME NEW h \in Host, CompleteFire(h), fstatus[cur[h]] # "gone" PROVE FInv'
  <2>1. cur[h] \in Fire
    BY <1>2 DEF CompleteFire, IInv, HInv, TypeOK
  <2> QED BY <1>1, <1>2, <2>1, CompleteKeeps
<1>3. StepForm
  BY StepForms DEF IInv
<1>4. FInv'
  BY <1>1, <1>2, <1>3, TameKeeps, ClaimKeeps, TakeKeeps, SubmitKeeps, RunRecordsKeeps,
     RunEndsKeeps, DeferKeeps, FailKeeps DEF StepForm
<1> QED BY <1>1, <1>4 DEF IInv

LEMMA InvHolds == Spec => []IInv
BY InvInit, InvStep, PTL DEF Spec

\* For any number of automations, rows and processes, at most one run is
\* submitted for a fire.
THEOREM RunsOnce == Spec => []FireRunsOnce
<1>1. IInv => FireRunsOnce
  BY DEF IInv, FInv
<1> QED BY <1>1, InvHolds, PTL

\* No fire is completed of which the run is not, whoever wrote its end.
THEOREM VerdictsFollow == Spec => []CompletedFollowsRun
<1>1. IInv => CompletedFollowsRun
  BY DEF IInv, FInv
<1> QED BY <1>1, InvHolds, PTL

(***************************************************************************)
(* Each fire keeps its contract.                                           *)
(***************************************************************************)

\* What one step does to one fire.
Moves(f) ==
  \/ Contract!Submit(f) \/ Contract!WorkEnds(f) \/ Contract!Look(f) \/ Contract!Conclude(f)
  \/ Contract!PutOff(f) \/ Contract!AskPerson(f) \/ Contract!Remove(f) \/ Contract!Stays(f)

LookedAt(f) == \E h \in Host : cur[h] = f /\ pc[h] \in Looking

LEMMA SameLookIs ==
  ASSUME NEW f \in Fire, LookedAt(f)' <=> LookedAt(f)
  PROVE  Contract!SameLook(f)
BY DEF Contract!SameLook, LookedAt, Looking, Closing

\* A fire of which neither row nor run is written, and at which no operation
\* has looked that had not before.
LEMMA Untouched ==
  ASSUME NEW f \in Fire, fstatus'[f] = fstatus[f], run'[f] = run[f], LookedAt(f)' => LookedAt(f)
  PROVE  Moves(f)
BY DEF Moves, Contract!Stays, LookedAt, Looking, Closing

LEMMA TameMoves ==
  ASSUME IInv, Tame, NEW f \in Fire
  PROVE  Moves(f)
<1>1. LookedAt(f)' => LookedAt(f)
  BY DEF Tame, SamePhase, LookedAt, Looking, Closing
<1>2. CASE UNCHANGED <<fstatus, run>>
  BY <1>1, <1>2, Untouched
<1>3. CASE /\ \A h \in Host : pc[h] \in Looking => pc'[h] = pc[h] /\ cur'[h] = cur[h]
           /\ UNCHANGED fstatus \/ UNCHANGED run
  <2>1. Contract!SameLook(f)
    <3>1. LookedAt(f) => LookedAt(f)'
      BY <1>3 DEF LookedAt
    <3> QED BY <1>1, <3>1, SameLookIs
  <2>2. CASE UNCHANGED fstatus
    <3>1. run'[f] = run[f] \/ (run[f] = "active" /\ run'[f] \in {"completed", "failed"})
      BY DEF Tame, Reconciled, IInv, HInv, TypeOK, FactStatus
    <3>2. CASE run'[f] = run[f]
      BY <1>1, <2>2, <3>2, Untouched
    <3>3. CASE run[f] = "active" /\ run'[f] \in {"completed", "failed"}
      <4>1. Contract!WorkEnds(f)
        BY <2>1, <2>2, <3>3 DEF Contract!WorkEnds
      <4> QED BY <4>1 DEF Moves
    <3> QED BY <3>1, <3>2, <3>3
  <2>3. CASE UNCHANGED run
    <3>1. CASE fstatus'[f] = fstatus[f]
      BY <1>1, <2>3, <3>1, Untouched
    <3>2. CASE fstatus'[f] = "gone"
      <4>1. Contract!Remove(f)
        BY <2>1, <2>3, <3>2 DEF Contract!Remove
      <4> QED BY <4>1 DEF Moves
    <3>3. CASE fstatus[f] \in Unclaimed /\ fstatus'[f] \in Unclaimed
      <4>1. Contract!Stays(f)
        BY <2>1, <2>3, <3>3 DEF Contract!Stays, Contract!SameLook, Unclaimed, Ended
      <4> QED BY <4>1 DEF Moves
    <3>4. CASE fstatus[f] = "running" /\ fstatus'[f] = "needs_approval"
      <4>1. Contract!AskPerson(f)
        BY <2>1, <2>3, <3>4 DEF Contract!AskPerson, Ended
      <4> QED BY <4>1 DEF Moves
    <3> QED BY <3>1, <3>2, <3>3, <3>4 DEF Tame
  <2> QED BY <1>3, <2>2, <2>3
<1> QED BY <1>2, <1>3 DEF Tame

LEMMA ClaimMoves ==
  ASSUME IInv, NEW h \in Host, NEW e \in Fire, Claims(h, e), NEW f \in Fire
  PROVE  Moves(f)
<1>1. PICK place \in Early \ {"deferring"} : Moved(h, e, place)
  BY DEF Claims, Moved, IInv, HInv, TypeOK
<1>2. LookedAt(f)' => LookedAt(f)
  BY <1>1 DEF Moved, LookedAt, Looking, Closing, Early
<1>3. CASE f # e
  <2>1. fstatus'[f] = fstatus[f] /\ run'[f] = run[f]
    BY <1>3 DEF Claims, IInv, HInv, TypeOK
  <2> QED BY <1>2, <2>1, Untouched
<1>4. CASE f = e
  <2>1. fstatus[f] \in Unclaimed /\ fstatus'[f] = "running" /\ run'[f] = run[f]
    BY <1>4 DEF Claims, IInv, HInv, TypeOK
  <2>2. Contract!Stays(f)
    BY <1>2, <2>1 DEF Contract!Stays, Unclaimed, Ended, LookedAt, Looking, Closing
  <2> QED BY <2>2 DEF Moves
<1> QED BY <1>3, <1>4

LEMMA TakeMoves ==
  ASSUME IInv, NEW h \in Host, NEW e \in Fire, NEW place \in Place, Takes(h, e, place), NEW f \in Fire
  PROVE  Moves(f)
<1>1. Moved(h, e, place) /\ UNCHANGED <<fstatus, run>>
  BY DEF Takes, Moved, IInv, HInv, TypeOK
<1>2. CASE f # e \/ place = "asking"
  <2>1. LookedAt(f)' => LookedAt(f)
    BY <1>1, <1>2 DEF Moved, LookedAt, Looking, Closing
  <2> QED BY <1>1, <2>1, Untouched
<1>3. CASE f = e /\ place # "asking"
  <2>1. fstatus[f] = "running"
    BY <1>3 DEF Takes
  <2>2. Contract!Look(f)
    BY <1>1, <2>1 DEF Contract!Look, Ended
  <2> QED BY <2>2 DEF Moves
<1> QED BY <1>2, <1>3

LEMMA SubmitMoves ==
  ASSUME IInv, NEW h \in Host, Submit(h), NEW f \in Fire
  PROVE  Moves(f)
<1>1. /\ pc[h] = "preparing" /\ cur[h] \in Fire
      /\ run[cur[h]] = "none" /\ fstatus[cur[h]] \in {"running", "needs_approval", "gone"}
  BY DEF Submit, IInv, HInv, FInv, TypeOK, NotYet, Begun, Early
<1>2. UNCHANGED fstatus /\ run' = [run EXCEPT ![cur[h]] = "active"]
  BY DEF Submit
<1>3. /\ pc'[h] \in {"binding", "free"}
      /\ \A g \in Host \ {h} : pc'[g] = pc[g] /\ cur'[g] = cur[g]
  BY DEF Submit, LookOrStop, Look, Done, IInv, HInv, TypeOK
<1>4. LookedAt(f)' <=> LookedAt(f)
  BY <1>1, <1>3 DEF LookedAt, Looking, Closing
<1>5. CASE f # cur[h]
  <2>1. run'[f] = run[f]
    BY <1>2, <1>5 DEF IInv, HInv, TypeOK
  <2> QED BY <1>2, <1>4, <2>1, Untouched
<1>6. CASE f = cur[h]
  <2>1. run[f] = "none" /\ run'[f] = "active" /\ fstatus[f] \notin {"completed", "failed"}
    BY <1>1, <1>2, <1>6 DEF IInv, HInv, TypeOK
  <2>2. Contract!Submit(f)
    BY <1>2, <1>4, <2>1, SameLookIs DEF Contract!Submit
  <2> QED BY <2>2 DEF Moves
<1> QED BY <1>5, <1>6

LEMMA RunEndsMoves ==
  ASSUME IInv, NEW h \in Host, RunEnds(h), NEW f \in Fire
  PROVE  Moves(f)
<1>1. /\ pc[h] = "running" /\ cur[h] \in Fire /\ fact[cur[h]] \in Over
      /\ submits[cur[h]] > 0
  BY DEF RunEnds, IInv, HInv, FInv, Proven, Late, TypeOK, FactStatus, Over
<1>2. UNCHANGED <<fstatus, cur>> /\ run' = [run EXCEPT ![cur[h]] = fact[cur[h]]]
  BY DEF RunEnds
<1>3. pc'[h] = "ended" /\ \A g \in Host \ {h} : pc'[g] = pc[g]
  BY DEF RunEnds, IInv, HInv, TypeOK
<1>4. LookedAt(f)' <=> LookedAt(f)
  BY <1>1, <1>2, <1>3 DEF LookedAt, Looking, Closing
<1>5. CASE run'[f] = run[f]
  BY <1>2, <1>4, <1>5, Untouched
<1>6. CASE run'[f] # run[f]
  <2>1. f = cur[h] /\ run'[f] = fact[f]
    BY <1>2, <1>6 DEF IInv, HInv, TypeOK
  <2>2. run[f] = "active"
    <3>1. run[f] \in {"none", "active", "completed", "failed"}
      BY DEF IInv, HInv, TypeOK, RunStatus
    <3>2. run[f] # "none"
      BY <1>1, <2>1 DEF IInv, FInv, Begun
    <3> QED BY <1>6, <2>1, <3>1, <3>2 DEF IInv, FInv, Begun, Over
  <2>3. Contract!WorkEnds(f)
    BY <1>1, <1>2, <1>4, <2>1, <2>2, SameLookIs DEF Contract!WorkEnds, Over
  <2> QED BY <2>3 DEF Moves
<1> QED BY <1>5, <1>6

\* deferFire(), completeFire() and failFire()
LEMMA WriteMoves ==
  ASSUME IInv, NEW h \in Host, pc[h] \in Looking, NEW to \in {"deferred", "completed", "failed"},
         Writes(h, to), fstatus[cur[h]] # "gone",
         to = "deferred" => pc[h] = "deferring",
         to = "completed" => pc[h] = "completing",
         NEW f \in Fire
  PROVE  Moves(f)
<1>1. /\ pc'[h] = "free" /\ UNCHANGED run /\ fstatus' = [fstatus EXCEPT ![cur[h]] = to]
      /\ \A g \in Host \ {h} : pc'[g] = pc[g] /\ cur'[g] = cur[g]
  BY DEF Writes
<1>2. CASE f # cur[h]
  <2>1. LookedAt(f)' => LookedAt(f)
    BY <1>1 DEF LookedAt, Looking, Closing
  <2>2. fstatus'[f] = fstatus[f]
    BY <1>1, <1>2 DEF IInv, HInv, TypeOK
  <2> QED BY <1>1, <2>1, <2>2, Untouched
<1>3. CASE f = cur[h]
  <2>1. fstatus'[f] = to
    BY <1>1, <1>3 DEF IInv, HInv, TypeOK
  <2>2. f \in {e \in Fire : \E g \in Host :
                 cur[g] = e /\ pc[g] \in {"deferring", "completing", "failing", "counting"}}
    BY <1>3 DEF Looking, Closing
  <2>3. CASE to = "deferred"
    <3>1. run[f] = "none" /\ fstatus[f] \in {"running", "needs_approval"}
      BY <1>3, <2>3 DEF IInv, FInv, NotYet, Begun, Early
    <3>2. Contract!PutOff(f)
      BY <1>1, <2>1, <2>2, <2>3, <3>1 DEF Contract!PutOff, Ended
    <3> QED BY <3>2 DEF Moves
  <2>4. CASE to # "deferred"
    <3>1. to = "completed" => run[f] = "completed"
      BY <1>3 DEF IInv, FInv, Proven
    <3>2. Contract!Conclude(f)
      BY <1>1, <1>3, <2>1, <2>2, <2>4, <3>1 DEF Contract!Conclude, Ended
    <3> QED BY <3>2 DEF Moves
  <2> QED BY <2>3, <2>4
<1> QED BY <1>2, <1>3

LEMMA ContractStep ==
  ASSUME IInv, [Next]_vars
  PROVE  [Contract!ContractNext]_(Contract!contractVars)
<1> SUFFICES ASSUME NEW f \in Fire PROVE Moves(f)
  BY DEF Moves, Contract!ContractNext
<1>1. ASSUME NEW h \in Host, NEW outcome \in Over, RunRecords(h, outcome) PROVE Moves(f)
  BY <1>1, Untouched DEF RunRecords, LookedAt
<1>2. ASSUME NEW h \in Host, DeferFire(h), fstatus' = [fstatus EXCEPT ![cur[h]] = "deferred"]
      PROVE  Moves(f)
  <2>1. pc[h] = "deferring" /\ Writes(h, "deferred")
    BY <1>2 DEF DeferFire, Done, Writes, IInv, HInv, TypeOK
  <2>2. CASE fstatus[cur[h]] = "gone"
    <3>1. cur[h] \in Fire /\ fstatus'[cur[h]] = "deferred"
      BY <1>2, <2>1 DEF IInv, HInv, TypeOK
    <3>2. UNCHANGED fstatus
      BY <1>2, <2>2 DEF DeferFire
    <3> QED BY <2>2, <3>1, <3>2
  <2>3. CASE fstatus[cur[h]] # "gone"
    BY <2>1, <2>3, WriteMoves DEF Looking
  <2> QED BY <2>2, <2>3
<1>3. ASSUME NEW h \in Host, CompleteFire(h), fstatus[cur[h]] # "gone" PROVE Moves(f)
  <2>1. pc[h] = "completing" /\ Writes(h, "completed")
    BY <1>3 DEF CompleteFire, Done, Writes, IInv, HInv, TypeOK
  <2> QED BY <1>3, <2>1, WriteMoves DEF Looking, Closing
<1>4. ASSUME NEW h \in Host, FailFire(h), fstatus[cur[h]] # "gone" PROVE Moves(f)
  <2>1. pc[h] = "counting" /\ Writes(h, "failed")
    BY <1>4 DEF FailFire, Done, Writes, IInv, HInv, TypeOK
  <2> QED BY <1>4, <2>1, WriteMoves DEF Looking, Closing
<1>5. StepForm
  BY StepForms DEF IInv
<1> QED
  BY <1>1, <1>2, <1>3, <1>4, <1>5, TameMoves, ClaimMoves, TakeMoves, SubmitMoves, RunEndsMoves
  DEF StepForm

\* Whichever processes have a fire and wherever they stop, it is run at most
\* once, never after it was reported over, and reported completed only if its
\* run is; what was reported is overwritten by nobody but an operation that
\* had seen the fire running before.
THEOREM FiresKeepContract == Spec => ImplementsContract
<1>1. Init => Contract!ContractInit
  BY DEF Init, Contract!ContractInit, Ended
<1>2. IInv /\ [Next]_vars => [Contract!ContractNext]_(Contract!contractVars)
  BY ContractStep
<1> QED
  BY <1>1, <1>2, InvHolds, PTL DEF Spec, ImplementsContract, Contract!ContractSpec

(***************************************************************************)
(* The counters.  An automation that is active has fewer failures in a row *)
(* than stop one, and counts at least the fires that completed.  Of one    *)
(* that is not there nothing is left that could fail.                      *)
(***************************************************************************)

Completed(a) == {f \in Fire : AutomationOf[f] = a /\ fstatus[f] = "completed"}

Absent ==
  \A a \in Automation : status[a] = "absent" =>
    /\ failures[a] = 0
    /\ \A f \in Fire : AutomationOf[f] = a => fstatus[f] = "none"

NoneMissing == \A a \in Automation : count[a] >= Cardinality(Completed(a))

CInv == Absent /\ StopsAfterFailures /\ NoneMissing

\* What a step does that neither ends a fire nor deletes an automation.
Quiet ==
  /\ UNCHANGED count
  /\ \A a \in Automation : failures'[a] \in {failures[a], 0}
  /\ \A a \in Automation : status'[a] = "absent" => status[a] = "absent"
  /\ \A a \in Automation : status'[a] = "active" => status[a] = "active" \/ failures'[a] = 0
  /\ \A f \in Fire : fstatus'[f] = "completed" => fstatus[f] = "completed"
  /\ \A f \in Fire : fstatus[f] = "none" /\ fstatus'[f] # "none" =>
                       status[AutomationOf[f]] # "absent"

LEMMA CompletedFinite ==
  ASSUME NEW a \in Automation
  PROVE  IsFiniteSet(Completed(a)) /\ Cardinality(Completed(a)) \in Nat
BY FireAssumption, FS_Subset, FS_CardinalityType DEF Completed

LEMMA QuietCounts ==
  ASSUME IInv, CInv, TypeOK', Quiet
  PROVE  CInv'
<1> USE DEF CInv
<1>1. Absent'
  BY AutomationOfAssumption DEF Absent, Quiet
<1>2. StopsAfterFailures'
  BY BoundAssumption DEF StopsAfterFailures, Quiet
<1>3. ASSUME NEW a \in Automation PROVE count'[a] >= Cardinality(Completed(a)')
  <2>1. Completed(a)' \subseteq Completed(a)
    BY DEF Completed, Quiet
  <2>2. Cardinality(Completed(a)') <= Cardinality(Completed(a)) /\ Cardinality(Completed(a)') \in Nat
    BY <2>1, CompletedFinite, FS_Subset, FS_CardinalityType
  <2>3. count'[a] = count[a] /\ count[a] \in Nat /\ count[a] >= Cardinality(Completed(a))
    BY DEF Quiet, NoneMissing, IInv, HInv, TypeOK
  <2> QED BY <2>2, <2>3, CompletedFinite
<1>4. NoneMissing'
  BY <1>3 DEF NoneMissing
<1> QED BY <1>1, <1>2, <1>4

\* completeFire() counts the fire that it ends.
LEMMA CompleteCounts ==
  ASSUME IInv, CInv, TypeOK', NEW h \in Host, NEW f \in Fire, f = cur[h],
         CompleteFire(h), fstatus[f] # "gone"
  PROVE  CInv'
<1> USE DEF CInv
<1> DEFINE b == AutomationOf[f]
<1>1. fstatus[f] # "none" /\ b \in Automation /\ status[b] # "absent"
  BY AutomationOfAssumption DEF CompleteFire, IInv, FInv, Held, Absent
<1>2. /\ fstatus' = [fstatus EXCEPT ![f] = "completed"]
      /\ count' = [count EXCEPT ![b] = @ + 1]
      /\ failures' = [failures EXCEPT ![b] = 0]
      /\ status' = [status EXCEPT ![b] =
                      IF max[b] # 0 /\ count[b] + 1 >= max[b] THEN "completed" ELSE @]
  BY DEF CompleteFire
<1>3. \A a \in Automation : status'[a] \in {status[a], "completed"} /\ (a # b => status'[a] = status[a])
  BY <1>2 DEF IInv, HInv, TypeOK
<1>4. \A e \in Fire : fstatus'[e] = IF e = f THEN "completed" ELSE fstatus[e]
  BY <1>2 DEF IInv, HInv, TypeOK
<1>5. \A a \in Automation : /\ count'[a] = IF a = b THEN count[a] + 1 ELSE count[a]
                            /\ failures'[a] = IF a = b THEN 0 ELSE failures[a]
  BY <1>1, <1>2 DEF IInv, HInv, TypeOK
<1>6. Absent'
  BY <1>1, <1>3, <1>4, <1>5 DEF Absent
<1>7. StopsAfterFailures'
  BY <1>3, <1>5, BoundAssumption DEF StopsAfterFailures
<1>8. ASSUME NEW a \in Automation PROVE count'[a] >= Cardinality(Completed(a)')
  <2>1. count[a] \in Nat /\ count[a] >= Cardinality(Completed(a))
    BY DEF NoneMissing, IInv, HInv, TypeOK
  <2>2. CASE a = b
    <3>1. Completed(a)' = Completed(a) \cup {f}
      BY <1>4, <2>2 DEF Completed
    <3>2. IsFiniteSet(Completed(a)) /\ Cardinality(Completed(a)) \in Nat
      BY CompletedFinite
    <3>3. Cardinality(Completed(a) \cup {f}) \in {Cardinality(Completed(a)), Cardinality(Completed(a)) + 1}
      BY <3>2, FS_AddElement
    <3>4. Cardinality(Completed(a)') \in {Cardinality(Completed(a)), Cardinality(Completed(a)) + 1}
      BY <3>1, <3>3
    <3>5. count'[a] = count[a] + 1
      BY <1>5, <2>2
    <3> QED BY <2>1, <3>2, <3>4, <3>5
  <2>3. CASE a # b
    <3>1. Completed(a)' = Completed(a)
      BY <1>4, <2>3 DEF Completed
    <3> QED BY <1>5, <2>1, <2>3, <3>1
  <2> QED BY <2>2, <2>3
<1>9. NoneMissing'
  BY <1>8 DEF NoneMissing
<1> QED BY <1>6, <1>7, <1>9

\* failFire() stops the automation at the last failure it may have.
LEMMA FailCounts ==
  ASSUME IInv, CInv, TypeOK', NEW h \in Host, NEW f \in Fire, f = cur[h],
         FailFire(h), fstatus[f] # "gone"
  PROVE  CInv'
<1> USE DEF CInv
<1> DEFINE b == AutomationOf[f]
<1>1. fstatus[f] # "none" /\ b \in Automation /\ status[b] # "absent" /\ read[h] \in Nat
  <2>1. pc[h] = "counting"
    BY DEF FailFire
  <2>2. fstatus[f] # "none" /\ b \in Automation
    BY <2>1, AutomationOfAssumption DEF IInv, FInv, Held
  <2>3. read[h] \in Nat
    BY DEF IInv, HInv, TypeOK
  <2> QED BY <2>2, <2>3 DEF Absent
<1>2. /\ fstatus' = [fstatus EXCEPT ![f] = "failed"]
      /\ UNCHANGED count
      /\ failures' = [failures EXCEPT ![b] = read[h] + 1]
      /\ status' = [status EXCEPT ![b] = IF read[h] + 1 >= PauseAfter THEN "failed" ELSE "active"]
  BY DEF FailFire
<1>3. \A e \in Fire : fstatus'[e] = IF e = f THEN "failed" ELSE fstatus[e]
  BY <1>2 DEF IInv, HInv, TypeOK
<1>4. /\ status'[b] = IF read[h] + 1 >= PauseAfter THEN "failed" ELSE "active"
      /\ failures'[b] = read[h] + 1
      /\ \A a \in Automation \ {b} : status'[a] = status[a] /\ failures'[a] = failures[a]
  BY <1>1, <1>2 DEF IInv, HInv, TypeOK
<1>5. Absent'
  BY <1>1, <1>3, <1>4 DEF Absent
<1>6. StopsAfterFailures'
  <2>1. status'[b] = "active" => failures'[b] < PauseAfter
    BY <1>1, <1>4, BoundAssumption
  <2> QED BY <1>4, <2>1 DEF StopsAfterFailures
<1>7. ASSUME NEW a \in Automation PROVE count'[a] >= Cardinality(Completed(a)')
  <2>1. count[a] \in Nat /\ count[a] >= Cardinality(Completed(a))
    BY DEF NoneMissing, IInv, HInv, TypeOK
  <2>2. Completed(a)' \subseteq Completed(a)
    BY <1>3 DEF Completed
  <2>3. Cardinality(Completed(a)') <= Cardinality(Completed(a)) /\ Cardinality(Completed(a)') \in Nat
    BY <2>2, CompletedFinite, FS_Subset, FS_CardinalityType
  <2> QED BY <1>2, <2>1, <2>3, CompletedFinite
<1>8. NoneMissing'
  BY <1>7 DEF NoneMissing
<1> QED BY <1>5, <1>6, <1>8

LEMMA DeleteCounts ==
  ASSUME IInv, CInv, TypeOK', NEW b \in Automation, Delete(b)
  PROVE  CInv'
<1> USE DEF CInv
<1>1. status'[b] = "deleted" /\ count'[b] = 0 /\ failures'[b] = 0
  BY DEF Delete, IInv, HInv, TypeOK
<1>2. \A a \in Automation \ {b} :
        status'[a] = status[a] /\ count'[a] = count[a] /\ failures'[a] = failures[a]
  BY DEF Delete, IInv, HInv, TypeOK
<1>3. \A f \in Fire : fstatus'[f] = IF AutomationOf[f] = b THEN "gone" ELSE fstatus[f]
  BY DEF Delete
<1>4. Absent'
  BY <1>1, <1>2, <1>3 DEF Absent
<1>5. StopsAfterFailures'
  BY <1>1, <1>2 DEF StopsAfterFailures
<1>6. ASSUME NEW a \in Automation PROVE count'[a] >= Cardinality(Completed(a)')
  <2>1. CASE a = b
    <3>1. Completed(a)' = {}
      BY <1>3, <2>1 DEF Completed
    <3> QED BY <1>1, <2>1, <3>1, FS_EmptySet
  <2>2. CASE a # b
    <3>1. Completed(a)' = Completed(a)
      BY <1>3, <2>2 DEF Completed
    <3> QED BY <1>2, <2>2, <3>1 DEF NoneMissing
  <2> QED BY <2>1, <2>2
<1>7. NoneMissing'
  BY <1>6 DEF NoneMissing
<1> QED BY <1>4, <1>5, <1>7

LEMMA CInvInit == Init => CInv
<1> SUFFICES ASSUME Init PROVE CInv
  OBVIOUS
<1>1. Absent /\ StopsAfterFailures
  BY DEF Init, Absent, StopsAfterFailures
<1>2. ASSUME NEW a \in Automation PROVE Completed(a) = {} /\ count[a] = 0
  BY DEF Init, Completed
<1>3. NoneMissing
  BY <1>2, FS_EmptySet DEF NoneMissing
<1> QED BY <1>1, <1>3 DEF CInv

LEMMA CInvStep == IInv /\ CInv /\ [Next]_vars => CInv'
<1> SUFFICES ASSUME IInv, CInv, [Next]_vars PROVE CInv'
  OBVIOUS
<1>0. TypeOK /\ TypeOK'
  BY TypeStep DEF IInv, HInv
<1>q. ASSUME Quiet PROVE CInv'
  BY <1>0, <1>q, QuietCounts
<1>1. ASSUME UNCHANGED <<status, count, failures, fstatus>> PROVE Quiet
  BY <1>1 DEF Quiet
<1>2. ASSUME NEW a \in Automation, Pause(a) \/ Resume(a) PROVE Quiet
  BY <1>0, <1>2 DEF Pause, Resume, Quiet, TypeOK, Exists
<1>3. ASSUME NEW a \in Automation, NEW input \in Input, Create(a, input) PROVE Quiet
  BY <1>0, <1>3 DEF Create, Quiet, TypeOK, CInv, Absent
<1>4. ASSUME NEW a \in Automation, ComesDue(a) \/ Expires(a) PROVE Quiet
  BY <1>1, <1>4 DEF ComesDue, Expires
<1>5. ASSUME NEW f \in Fire, FireComesDue(f) PROVE Quiet
  BY <1>1, <1>5 DEF FireComesDue
<1>6. ASSUME NEW h \in Host, NEW a \in Automation, RunNow(h, a) PROVE Quiet
  <2>1. /\ NewRow(a) \in Fire /\ fstatus[NewRow(a)] = "none"
        /\ AutomationOf[NewRow(a)] = a
    BY <1>6, NewRowSpare DEF RunNow, Spare
  <2>2. status[a] # "absent" /\ UNCHANGED <<status, count, failures>>
    BY <1>6 DEF RunNow, Exists
  <2>3. \A f \in Fire : fstatus'[f] = fstatus[f] \/ (f = NewRow(a) /\ fstatus'[f] = "pending")
    BY <1>0, <1>6 DEF RunNow, TypeOK
  <2> QED BY <2>1, <2>2, <2>3 DEF Quiet
<1>7. ASSUME NEW h \in Host, Tick(h) PROVE Quiet
  <2>1. UNCHANGED <<count, failures>>
    BY <1>7 DEF Tick
  <2>2. \A a \in Automation :
          status'[a] = status[a] \/ (status[a] = "active" /\ status'[a] \in {"expired", "completed"})
    BY <1>7 DEF Tick
  <2>3. \A f \in Fire :
          fstatus'[f] = fstatus[f] \/ (fstatus[f] \in {"none", "pending", "deferred"} /\ fstatus'[f] = "pending")
    BY <1>7 DEF Tick, Recoverable, RowsFor
  <2>4. \A f \in Fire : fstatus[f] = "none" /\ fstatus'[f] # "none" =>
                          status[AutomationOf[f]] # "absent"
    BY <1>7 DEF Tick, Recoverable, RowsFor
  <2> QED BY <2>1, <2>2, <2>3, <2>4 DEF Quiet
<1>8. ASSUME NEW h \in Host, NEW f \in Fire, Execute(h, f) PROVE Quiet
  <2>1. UNCHANGED <<status, count, failures>>
    BY <1>8 DEF Execute
  <2>2. CASE UNCHANGED fstatus
    BY <1>1, <2>1, <2>2
  <2>3. CASE Claimable(f) /\ fstatus' = [fstatus EXCEPT ![f] = "running"]
    <3>1. \A e \in Fire : fstatus'[e] = fstatus[e] \/ (e = f /\ fstatus'[e] = "running")
      BY <1>0, <2>3 DEF TypeOK
    <3> QED BY <2>1, <2>3, <3>1 DEF Quiet, Claimable
  <2> QED BY <1>8, <2>2, <2>3 DEF Execute
<1>9. ASSUME NEW h \in Host, AskPerson(h) PROVE Quiet
  <2>1. UNCHANGED <<status, count, failures>>
    BY <1>9 DEF AskPerson
  <2>2. CASE UNCHANGED fstatus
    BY <1>1, <2>1, <2>2
  <2>3. CASE fstatus' = [fstatus EXCEPT ![cur[h]] = IF @ = "running" THEN "needs_approval" ELSE @]
    <3>1. \A e \in Fire : fstatus'[e] = fstatus[e] \/ (fstatus[e] = "running" /\ fstatus'[e] = "needs_approval")
      BY <1>0, <2>3 DEF TypeOK
    <3> QED BY <2>1, <3>1 DEF Quiet
  <2> QED BY <1>9, <2>2, <2>3 DEF AskPerson
<1>10. ASSUME NEW h \in Host, DeferFire(h) PROVE Quiet
  <2>1. UNCHANGED <<status, count, failures>> /\ fstatus[cur[h]] # "none"
    BY <1>10 DEF DeferFire, IInv, FInv, Held
  <2>2. CASE UNCHANGED fstatus
    BY <1>1, <2>1, <2>2
  <2>3. CASE fstatus' = [fstatus EXCEPT ![cur[h]] = "deferred"]
    <3>1. \A e \in Fire : fstatus'[e] = fstatus[e] \/ (e = cur[h] /\ fstatus'[e] = "deferred")
      BY <1>0, <2>3 DEF TypeOK
    <3> QED BY <2>1, <3>1 DEF Quiet
  <2> QED BY <1>10, <2>2, <2>3 DEF DeferFire
<1>11. ASSUME NEW h \in Host, CompleteFire(h) PROVE CInv'
  <2>1. cur[h] \in Fire
    BY <1>0, <1>11 DEF CompleteFire, TypeOK
  <2>2. CASE fstatus[cur[h]] = "gone"
    BY <1>1, <1>q, <1>11, <2>2 DEF CompleteFire
  <2> QED BY <1>0, <1>11, <2>1, <2>2, CompleteCounts
<1>12. ASSUME NEW h \in Host, FailFire(h) PROVE CInv'
  <2>1. cur[h] \in Fire
    BY <1>0, <1>12 DEF FailFire, TypeOK
  <2>2. CASE fstatus[cur[h]] = "gone"
    BY <1>1, <1>q, <1>12, <2>2 DEF FailFire
  <2> QED BY <1>0, <1>12, <2>1, <2>2, FailCounts
<1>13. ASSUME NEW h \in Host,
              \/ \E f \in Fire, known \in BOOLEAN : RecoverFire(h, f, known)
              \/ \E outcome \in {"completed", "failed"} : RunRecords(h, outcome)
              \/ Start(h) \/ DeferLook(h) \/ Rebuilt(h) \/ Submit(h) \/ BindFireRun(h)
              \/ PrepareFails(h) \/ RunEnds(h) \/ RunRejects(h) \/ Settle(h) \/ ReadFailures(h)
              \/ OthersBegin(h) \/ OthersEnd(h) \/ Stop(h) \/ Exit(h)
       PROVE  Quiet
  <2>1. UNCHANGED <<status, count, failures, fstatus>>
    BY <1>13
    DEF RecoverFire, RunRecords, Start, DeferLook, Rebuilt, Submit, BindFireRun, PrepareFails,
      RunEnds, RunRejects, Settle, ReadFailures, OthersBegin, OthersEnd, Stop, Exit
  <2> QED BY <1>1, <2>1
<1>14. CASE UNCHANGED vars
  BY <1>1, <1>q, <1>14 DEF vars
<1>15. ASSUME NEW a \in Automation, Delete(a) PROVE CInv'
  BY <1>0, <1>15, DeleteCounts
<1> QED
  BY <1>q, <1>2, <1>3, <1>4, <1>5, <1>6, <1>7, <1>8, <1>9, <1>10, <1>11, <1>12, <1>13, <1>14,
     <1>15 DEF Next

LEMMA CInvHolds == Spec => []CInv
BY CInvInit, CInvStep, InvHolds, PTL DEF Spec

\* An automation with that many failures in a row is not active, whatever
\* was paused, resumed or written late, and by whichever process.
THEOREM FailuresStop == Spec => []StopsAfterFailures
<1>1. CInv => StopsAfterFailures
  BY DEF CInv
<1> QED BY <1>1, CInvHolds, PTL

\* No completed fire is missing from fire_count, and none is in it more than
\* twice, for any number of rows and processes.
THEOREM NoneUncounted == Spec => []CountsCompletions
<1>1. IInv /\ CInv => CountsCompletions
  BY DEF IInv, FInv, CountedTwice, CInv, NoneMissing, Completed, CountsCompletions
<1> QED BY <1>1, InvHolds, CInvHolds, PTL
=============================================================================
