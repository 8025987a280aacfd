----------------------------- MODULE Automation -----------------------------
(***************************************************************************)
(* AutomationStore and AutomationScheduler: automations, the fires that    *)
(* they leave in SQLite when they are due, and the Runtime Hosts that      *)
(* claim those fires, submit a run for each and write down how it ended.   *)
(*                                                                         *)
(* One Host holds the lock of the workspace; one that was stopped has let  *)
(* go of it but goes on with the executions in its queue until its process *)
(* exits.  Two processes may thus be at work on the same rows.  A process  *)
(* does one thing at a time, from one await to the next, but not the other *)
(* one: completeFire, failFire, deferFire and bindFireRun look at the row  *)
(* in one transaction and write in another, and are two or three steps     *)
(* here.  Between them the Host does nothing else (InStore), while the     *)
(* other process goes on and either may crash.  claimFire writes only what *)
(* is still waiting and is one step.  So are the clients' operations and   *)
(* the ticks, which belong to the Host that is up: a result that the other *)
(* process writes in the midst of one comes before or after it here.       *)
(*                                                                         *)
(* A time is what the code asks of it: due, later, or none.  The queue of  *)
(* a Host (fireTail) is how often each fire waits in it; its order, which  *)
(* is that of scheduled_at and arrival, is left open.                      *)
(*                                                                         *)
(* Left out: the limit of 32 fires for each tick, cron expressions,        *)
(* jitter, and errors of SQLite itself.                                    *)
(***************************************************************************)
EXTENDS Naturals, FiniteSets

CONSTANTS
  Automation,     \* automation ids
  Fire,           \* rows of automation_pending_fires: what bounds the model
  AutomationOf,   \* AutomationOf[f]: whose row f is
  Input,          \* trigger type, maxFires or 0, and whether there is an expiresAt
  PauseAfter,     \* failures in a row that stop an automation: 3 in the code
  Host, NoFire,   \* processes that may own the workspace, each of which runs once
  MaxWaiting      \* bound: what is told apart of a fire's entries in a queue

ASSUME AutomationOfAssumption == AutomationOf \in [Fire -> Automation]
ASSUME NoFireAssumption == NoFire \notin Fire
ASSUME FireAssumption == IsFiniteSet(Fire)
ASSUME BoundAssumption == PauseAfter \in Nat \ {0} /\ MaxWaiting \in Nat \ {0}

\* An interval stands for cron, too; once has a fixed schedule.at.
Kind == {"interval", "heartbeat", "once"}
ASSUME InputAssumption == Input \subseteq Kind \X Nat \X {"never", "later"}

Status == {"absent", "active", "paused", "completed", "failed", "expired", "deleted"}
Ended == {"completed", "failed", "needs_approval"}
FireStatus == {"none", "pending", "running", "deferred", "gone"} \cup Ended
FactStatus == {"none", "completed", "failed"}
RunStatus == {"none", "active", "completed", "failed"}

VARIABLES
  status,    \* status[a]
  kind,      \* trigger_type of a
  max,       \* max_fires of a
  next,      \* next_fire_at of a: "none", "later" or "due"
  expires,   \* expires_at of a: "never", "later" or "past"
  count,     \* fire_count of a
  failures,  \* consecutive_failures of a
  fstatus,   \* status of the row f; "none" before it is inserted
  later,     \* later[f]: scheduled_at of f has not come yet
  onTime,    \* onTime[f]: scheduled_at of f is the schedule.at it was made for
  submits,   \* history: runs that were submitted for f
  counted,   \* history: times that f was counted in fire_count
  fact,      \* fact[f]: turn_status of the last of them, in the session's file
  run,       \* run[f]: its row in the authority
  bound,     \* bound[f]: run_id of f is set
  host,      \* host[h]: "new", "starting", "up", "stopping" or "exited"
  todo,      \* rows that recoverInFlight() has read and not visited, each with
             \* whether it had a run_id
  waiting,   \* waiting[h][f]: executions of f in the fireTail of h
  pc,        \* where the execution or the recovery of h is; "free" if nowhere
  cur,       \* the fire it is for
  read,      \* read[h]: consecutive_failures as failFire has read it
  busy       \* busy[h]: somebody else's run or operation holds the runtime

automations == <<status, kind, max, next, expires, count, failures>>
fires == <<fstatus, later, onTime, submits, counted, fact, run, bound>>
works == <<submits, counted, fact, run, bound>>
hosts == <<host, todo, waiting, pc, cur, read, busy>>
vars == <<automations, fires, hosts>>

\* Between two transactions of one operation of the store.
InStore == {"claimed", "deferring", "binding", "completing", "failing", "counting", "asking"}
Place == InStore \cup {"free", "building", "preparing", "running", "ended"}

TypeOK ==
  /\ status \in [Automation -> Status]
  /\ kind \in [Automation -> Kind]
  /\ max \in [Automation -> Nat]
  /\ next \in [Automation -> {"none", "later", "due"}]
  /\ expires \in [Automation -> {"never", "later", "past"}]
  /\ count \in [Automation -> Nat]
  /\ failures \in [Automation -> Nat]
  /\ fstatus \in [Fire -> FireStatus]
  /\ later \in [Fire -> BOOLEAN]
  /\ onTime \in [Fire -> BOOLEAN]
  /\ submits \in [Fire -> Nat]
  /\ counted \in [Fire -> Nat]
  /\ fact \in [Fire -> FactStatus]
  /\ run \in [Fire -> RunStatus]
  /\ bound \in [Fire -> BOOLEAN]
  /\ host \in [Host -> {"new", "starting", "up", "stopping", "exited"}]
  /\ todo \in SUBSET (Fire \X BOOLEAN)
  /\ waiting \in [Host -> [Fire -> 0 .. MaxWaiting]]
  /\ pc \in [Host -> Place]
  /\ cur \in [Host -> Fire \cup {NoFire}]
  /\ read \in [Host -> Nat]
  /\ busy \in [Host -> BOOLEAN]
  /\ \A h \in Host : pc[h] = "free" <=> cur[h] = NoFire

Init ==
  /\ status = [a \in Automation |-> "absent"]
  /\ kind = [a \in Automation |-> "interval"]
  /\ max = [a \in Automation |-> 0]
  /\ next = [a \in Automation |-> "none"]
  /\ expires = [a \in Automation |-> "never"]
  /\ count = [a \in Automation |-> 0]
  /\ failures = [a \in Automation |-> 0]
  /\ fstatus = [f \in Fire |-> "none"]
  /\ later = [f \in Fire |-> FALSE]
  /\ onTime = [f \in Fire |-> FALSE]
  /\ submits = [f \in Fire |-> 0]
  /\ counted = [f \in Fire |-> 0]
  /\ fact = [f \in Fire |-> "none"]
  /\ run = [f \in Fire |-> "none"]
  /\ bound = [f \in Fire |-> FALSE]
  /\ host = [h \in Host |-> "new"]
  /\ todo = {}
  /\ waiting = [h \in Host |-> [f \in Fire |-> 0]]
  /\ pc = [h \in Host |-> "free"]
  /\ cur = [h \in Host |-> NoFire]
  /\ read = [h \in Host |-> 0]
  /\ busy = [h \in Host |-> FALSE]

Exists(a) == status[a] \notin {"absent", "deleted"}
Reached(a) == max[a] # 0 /\ count[a] >= max[a]
Awaits(h) == pc[h] \notin InStore
Up == \E h \in Host : host[h] = "up" /\ Awaits(h)
Serving == \E h \in Host : host[h] \in {"starting", "up"}

\* The row that the next INSERT of a makes.
Spare(a) == {f \in Fire : AutomationOf[f] = a /\ fstatus[f] = "none"}
NewRow(a) == CHOOSE f \in Spare(a) : TRUE
RowsFor(S) ==
  {f \in Fire : AutomationOf[f] \in S /\ fstatus[f] = "none" /\ f = NewRow(AutomationOf[f])}

Enqueued(h, S) ==
  [waiting EXCEPT ![h] =
     [f \in Fire |-> IF f \in S /\ waiting[h][f] < MaxWaiting
                       THEN waiting[h][f] + 1 ELSE waiting[h][f]]]

(***************************************************************************)
(* The clock.                                                              *)
(***************************************************************************)

ComesDue(a) ==
  /\ next[a] = "later"
  /\ Spare(a) # {}
  /\ next' = [next EXCEPT ![a] = "due"]
  /\ UNCHANGED <<status, kind, max, expires, count, failures, fires, hosts>>

FireComesDue(f) ==
  /\ later[f]
  /\ later' = [later EXCEPT ![f] = FALSE]
  /\ UNCHANGED <<automations, fstatus, onTime, works, hosts>>

Expires(a) ==
  /\ Exists(a)
  /\ expires[a] = "later"
  /\ expires' = [expires EXCEPT ![a] = "past"]
  /\ UNCHANGED <<status, kind, max, next, count, failures, fires, hosts>>

(***************************************************************************)
(* What clients ask of the Host that is up.                                *)
(***************************************************************************)

Create(a, input) ==
  /\ Up
  /\ status[a] = "absent"
  /\ status' = [status EXCEPT ![a] = "active"]
  /\ kind' = [kind EXCEPT ![a] = input[1]]
  /\ max' = [max EXCEPT ![a] = input[2]]
  /\ next' = [next EXCEPT ![a] = "later"]
  /\ expires' = [expires EXCEPT ![a] = input[3]]
  /\ UNCHANGED <<count, failures, fires, hosts>>

Pause(a) ==
  /\ Up
  /\ Exists(a)
  /\ status' = [status EXCEPT ![a] = "paused"]
  /\ UNCHANGED <<kind, max, next, expires, count, failures, fires, hosts>>

\* Mutant: the failures are not forgotten.
MutResume(a) ==
  /\ Up
  /\ Exists(a)
  /\ status[a] # "active"
  /\ status' = [status EXCEPT ![a] = "active"]
  /\ next' = [next EXCEPT ![a] = IF @ = "none" THEN "later" ELSE @]
  /\ UNCHANGED <<kind, max, expires, count, failures, fires, hosts>>

\* Any automation but an active one can be resumed, a completed one too.
Resume(a) ==
  /\ Up
  /\ Exists(a)
  /\ status[a] # "active"
  /\ status' = [status EXCEPT ![a] = "active"]
  /\ next' = [next EXCEPT ![a] = IF @ = "none" THEN "later" ELSE @]
  /\ failures' = [failures EXCEPT ![a] = 0]
  /\ UNCHANGED <<kind, max, expires, count, fires, hosts>>

\* ON DELETE CASCADE takes the rows along.
Delete(a) ==
  /\ Up
  /\ Exists(a)
  /\ status' = [status EXCEPT ![a] = "deleted"]
  /\ next' = [next EXCEPT ![a] = "none"]
  /\ expires' = [expires EXCEPT ![a] = "never"]
  /\ count' = [count EXCEPT ![a] = 0]
  /\ failures' = [failures EXCEPT ![a] = 0]
  /\ fstatus' = [f \in Fire |-> IF AutomationOf[f] = a THEN "gone" ELSE fstatus[f]]
  /\ later' = [f \in Fire |-> AutomationOf[f] # a /\ later[f]]
  /\ onTime' = [f \in Fire |-> AutomationOf[f] # a /\ onTime[f]]
  /\ UNCHANGED <<kind, max, works, hosts>>

\* runNow(): forceFire() and the execution behind those that wait.  The last
\* spare row is kept for a fire that is due.
RunNow(h, a) ==
  /\ host[h] = "up" /\ Awaits(h)
  /\ Exists(a)
  /\ status[a] # "expired" /\ expires[a] # "past"
  /\ ~(status[a] = "completed" /\ Reached(a))
  /\ Spare(a) # {}
  /\ next[a] = "due" => Spare(a) # {NewRow(a)}
  /\ fstatus' = [fstatus EXCEPT ![NewRow(a)] = "pending"]
  /\ waiting' = Enqueued(h, {NewRow(a)})
  /\ UNCHANGED <<automations, later, onTime, works, host, todo, pc, cur, read, busy>>

(***************************************************************************)
(* How a fire ends: completeFire and failFire look whether it is running   *)
(* and then write, whatever it is by then.  An operation that throws, for  *)
(* the fire is something else or has gone with its automation, is not      *)
(* heard of in an executor; in the recovery it takes the Host down.        *)
(***************************************************************************)

Done(h) ==
  /\ pc' = [pc EXCEPT ![h] = "free"]
  /\ cur' = [cur EXCEPT ![h] = NoFire]
  /\ read' = [read EXCEPT ![h] = 0]

Throws(h) ==
  /\ Done(h)
  /\ host' = [host EXCEPT ![h] = IF @ = "starting" THEN "exited" ELSE @]
  /\ todo' = IF host[h] = "starting" THEN {} ELSE todo

\* The look of an operation of h on f that goes on at the given place.
Look(h, f, place) ==
  /\ fstatus[f] = "running"
  /\ pc' = [pc EXCEPT ![h] = place]
  /\ cur' = [cur EXCEPT ![h] = f]
  /\ UNCHANGED read

\* The look of an executor, which gives up when it fails.
LookOrStop(h, f, place) ==
  Look(h, f, place) \/ (fstatus[f] # "running" /\ Done(h))

\* Mutant: fire_count is left to whoever ends the running fire.
MutCompleteFire(h) ==
  LET f == cur[h]
      a == AutomationOf[f]
  IN  /\ pc[h] = "completing"
      /\ \/ /\ fstatus[f] = "gone"
            /\ Throws(h)
            /\ UNCHANGED <<fstatus, counted, status, count, failures>>
         \/ /\ fstatus[f] # "gone"
            /\ fstatus' = [fstatus EXCEPT ![f] = "completed"]
            /\ IF fstatus[f] = "running"
                 THEN /\ counted' = [counted EXCEPT ![f] = @ + 1]
                      /\ count' = [count EXCEPT ![a] = @ + 1]
                 ELSE UNCHANGED <<count, counted>>
            /\ failures' = [failures EXCEPT ![a] = 0]
            /\ status' = [status EXCEPT ![a] =
                            IF max[a] # 0 /\ count[a] + 1 >= max[a] THEN "completed" ELSE @]
            /\ Done(h)
            /\ UNCHANGED <<host, todo>>
      /\ UNCHANGED <<kind, max, next, expires, later, onTime, submits, fact, run, bound, waiting, busy>>

\* The row is not looked at again; what is counted is counted in SQL.
CompleteFire(h) ==
  LET f == cur[h]
      a == AutomationOf[f]
  IN  /\ pc[h] = "completing"
      /\ \/ /\ fstatus[f] = "gone"
            /\ Throws(h)
            /\ UNCHANGED <<fstatus, counted, status, count, failures>>
         \/ /\ fstatus[f] # "gone"
            /\ fstatus' = [fstatus EXCEPT ![f] = "completed"]
            /\ counted' = [counted EXCEPT ![f] = @ + 1]
            /\ count' = [count EXCEPT ![a] = @ + 1]
            /\ failures' = [failures EXCEPT ![a] = 0]
            /\ status' = [status EXCEPT ![a] =
                            IF max[a] # 0 /\ count[a] + 1 >= max[a] THEN "completed" ELSE @]
            /\ Done(h)
            /\ UNCHANGED <<host, todo>>
      /\ UNCHANGED <<kind, max, next, expires, later, onTime, submits, fact, run, bound, waiting, busy>>

\* failFire reads the automation after the fire, and before it writes.
ReadFailures(h) ==
  /\ pc[h] = "failing"
  /\ \/ /\ fstatus[cur[h]] = "gone"
        /\ Throws(h)
     \/ /\ fstatus[cur[h]] # "gone"
        /\ pc' = [pc EXCEPT ![h] = "counting"]
        /\ read' = [read EXCEPT ![h] = failures[AutomationOf[cur[h]]]]
        /\ UNCHANGED <<cur, host, todo>>
  /\ UNCHANGED <<automations, fires, waiting, busy>>

\* Whatever the automation was before, it is now active or failed, by the
\* number that was read.
FailFire(h) ==
  LET f == cur[h]
      a == AutomationOf[f]
  IN  /\ pc[h] = "counting"
      /\ \/ /\ fstatus[f] = "gone"
            /\ Throws(h)
            /\ UNCHANGED <<fstatus, status, failures>>
         \/ /\ fstatus[f] # "gone"
            /\ fstatus' = [fstatus EXCEPT ![f] = "failed"]
            /\ failures' = [failures EXCEPT ![a] = read[h] + 1]
            /\ status' = [status EXCEPT ![a] =
                            IF read[h] + 1 >= PauseAfter THEN "failed" ELSE "active"]
            /\ Done(h)
            /\ UNCHANGED <<host, todo>>
      /\ UNCHANGED <<kind, max, next, expires, count, later, onTime, works, waiting, busy>>

(***************************************************************************)
(* A Host starts: the authority is opened, which gives rows that are       *)
(* active the end that their file has; recoverInFlight() reads the rows    *)
(* that are running, then visits one after the other, and then comes the   *)
(* first tick.                                                             *)
(***************************************************************************)

Reconciled == [f \in Fire |-> IF run[f] = "active" /\ fact[f] # "none" THEN fact[f] ELSE run[f]]

Start(h) ==
  /\ host[h] = "new"
  /\ ~Serving
  /\ host' = [host EXCEPT ![h] = "starting"]
  /\ run' = Reconciled
  /\ todo' = {<<f, bound[f]>> : f \in {g \in Fire : fstatus[g] = "running"}}
  /\ UNCHANGED <<automations, fstatus, later, onTime, submits, counted, fact, bound,
                 waiting, pc, cur, read, busy>>

\* The authority proves an end, or a person is to be asked.
RecoverFire(h, f, known) ==
  LET proven == known /\ run[f] \in {"completed", "failed"}
  IN  /\ host[h] = "starting"
      /\ pc[h] = "free"
      /\ <<f, known>> \in todo
      /\ \/ /\ proven
            /\ Look(h, f, IF run[f] = "completed" THEN "completing" ELSE "failing")
            /\ todo' = todo \ {<<f, known>>}
            /\ UNCHANGED host
         \/ /\ proven
            /\ fstatus[f] = run[f]
            /\ todo' = todo \ {<<f, known>>}
            /\ UNCHANGED <<host, pc, cur, read>>
         \/ /\ proven
            /\ fstatus[f] \notin {"running", run[f]}
            /\ Throws(h)
         \/ /\ ~proven
            /\ pc' = [pc EXCEPT ![h] = "asking"]
            /\ cur' = [cur EXCEPT ![h] = f]
            /\ todo' = todo \ {<<f, known>>}
            /\ UNCHANGED <<host, read>>
      /\ UNCHANGED <<automations, fires, waiting, busy>>

\* Mutant: a fire whose outcome is not proven is put back.
MutAskPerson(h) ==
  /\ pc[h] = "asking"
  /\ \/ /\ fstatus[cur[h]] = "gone"
        /\ Throws(h)
        /\ UNCHANGED fstatus
     \/ /\ fstatus[cur[h]] # "gone"
        /\ fstatus' = [fstatus EXCEPT ![cur[h]] = IF @ = "running" THEN "pending" ELSE @]
        /\ Done(h)
        /\ UNCHANGED <<host, todo>>
  /\ UNCHANGED <<automations, later, onTime, works, waiting, busy>>

\* This one writes only what is still running.
AskPerson(h) ==
  /\ pc[h] = "asking"
  /\ \/ /\ fstatus[cur[h]] = "gone"
        /\ Throws(h)
        /\ UNCHANGED fstatus
     \/ /\ fstatus[cur[h]] # "gone"
        /\ fstatus' = [fstatus EXCEPT ![cur[h]] = IF @ = "running" THEN "needs_approval" ELSE @]
        /\ Done(h)
        /\ UNCHANGED <<host, todo>>
  /\ UNCHANGED <<automations, later, onTime, works, waiting, busy>>

(***************************************************************************)
(* tick(): claimDue() and an execution for every fire that it returns.     *)
(***************************************************************************)

Recoverable(f) ==
  /\ fstatus[f] \in {"pending", "deferred"}
  /\ ~later[f]
  /\ status[AutomationOf[f]] = "active"

\* INSERT OR IGNORE: a once automation that was resumed after its fire finds
\* the row of the first time, unless that row was moved by a deferral.  Such
\* a row waits already or can no longer be claimed.
Standing(a) == {f \in Fire : AutomationOf[f] = a /\ onTime[f] /\ fstatus[f] # "gone"}

Tick(h) ==
  LET due == {a \in Automation : status[a] = "active" /\ next[a] = "due"}
      lapsed == {a \in due : expires[a] = "past"}
      reached == {a \in due \ lapsed : Reached(a)}
      firing == due \ (lapsed \cup reached)
      old == {f \in Fire : Recoverable(f)}
      new == RowsFor({a \in firing : Standing(a) = {}})
  IN  /\ host[h] = "up" \/ (host[h] = "starting" /\ todo = {})
      /\ Awaits(h)
      /\ host' = [host EXCEPT ![h] = "up"]
      /\ status' = [a \in Automation |-> IF a \in lapsed THEN "expired"
                                         ELSE IF a \in reached THEN "completed"
                                         ELSE status[a]]
      /\ next' = [a \in Automation |-> IF a \notin firing THEN next[a]
                                       ELSE IF kind[a] = "once" THEN "none" ELSE "later"]
      /\ fstatus' = [f \in Fire |-> IF f \in old \cup new THEN "pending" ELSE fstatus[f]]
      /\ onTime' = [f \in Fire |-> (f \in new /\ kind[AutomationOf[f]] = "once") \/ onTime[f]]
      /\ waiting' = Enqueued(h, old \cup new)
      /\ UNCHANGED <<kind, max, expires, count, failures, later, works, todo, pc, cur, read, busy>>

(***************************************************************************)
(* executeFire(): claim the fire, whatever its automation has become, and  *)
(* put it off if the runtime is busy.                                      *)
(***************************************************************************)

Claimable(f) == fstatus[f] \in {"pending", "deferred"}

\* A heartbeat uses the runtime as it is, perhaps after a switch of session;
\* the others have it rebuilt first.
Execute(h, f) ==
  /\ pc[h] = "free"
  /\ waiting[h][f] > 0
  /\ waiting' = [waiting EXCEPT ![h][f] = @ - 1]
  /\ \/ ~Claimable(f) /\ UNCHANGED <<fstatus, pc, cur>>
     \/ /\ Claimable(f)
        /\ fstatus' = [fstatus EXCEPT ![f] = "running"]
        /\ pc' = [pc EXCEPT ![h] = IF busy[h] THEN "claimed"
                                   ELSE IF kind[AutomationOf[f]] = "heartbeat" THEN "preparing"
                                   ELSE "building"]
        /\ cur' = [cur EXCEPT ![h] = f]
  /\ UNCHANGED <<automations, later, onTime, works, host, todo, read, busy>>

\* deferFire()
DeferLook(h) ==
  /\ pc[h] = "claimed"
  /\ LookOrStop(h, cur[h], "deferring")
  /\ UNCHANGED <<automations, fires, host, todo, waiting, busy>>

\* Two fires of an automation that are put off in the same millisecond break
\* UNIQUE (automation_id, scheduled_at), and the second stays as it was.
DeferFire(h) ==
  LET f == cur[h]
  IN  /\ pc[h] = "deferring"
      /\ \/ /\ fstatus[f] # "gone"
            /\ fstatus' = [fstatus EXCEPT ![f] = "deferred"]
            /\ later' = [later EXCEPT ![f] = TRUE]
            /\ onTime' = [onTime EXCEPT ![f] = FALSE]
         \/ /\ \/ fstatus[f] = "gone"
               \/ \E g \in Fire \ {f} : AutomationOf[g] = AutomationOf[f] /\ later[g]
            /\ UNCHANGED <<fstatus, later, onTime>>
      /\ Done(h)
      /\ UNCHANGED <<automations, works, host, todo, waiting, busy>>

\* createRuntime() returns, with an authority opened anew: the new runtime
\* takes the place of the old one, which is closed, with whatever has begun on
\* it since it was seen idle.
Rebuilt(h) ==
  /\ pc[h] = "building"
  /\ pc' = [pc EXCEPT ![h] = "preparing"]
  /\ busy' = [busy EXCEPT ![h] = FALSE]
  /\ run' = Reconciled
  /\ UNCHANGED <<automations, fstatus, later, onTime, submits, counted, fact, bound,
                 host, todo, waiting, cur, read>>

\* submitPrompt() on an idle runtime, and the look of bindFireRun().  When the
\* row is not running any more, the run goes on without an executor.
Submit(h) ==
  LET f == cur[h]
  IN  /\ pc[h] = "preparing"
      /\ ~busy[h]
      /\ submits' = [submits EXCEPT ![f] = @ + 1]
      /\ run' = [run EXCEPT ![f] = "active"]
      /\ LookOrStop(h, f, "binding")
      /\ busy' = [busy EXCEPT ![h] = fstatus[f] # "running"]
      /\ UNCHANGED <<automations, fstatus, later, onTime, counted, fact, bound,
                     host, todo, waiting>>

\* The run_id is only set in a row that is still running.
BindFireRun(h) ==
  LET f == cur[h]
  IN  /\ pc[h] = "binding"
      /\ bound' = [bound EXCEPT ![f] = fstatus[f] = "running" \/ @]
      /\ \/ /\ fstatus[f] # "gone"
            /\ pc' = [pc EXCEPT ![h] = "running"]
            /\ UNCHANGED <<cur, read, busy>>
         \/ /\ fstatus[f] = "gone"
            /\ Done(h)
            /\ busy' = [busy EXCEPT ![h] = TRUE]
      /\ UNCHANGED <<automations, fstatus, later, onTime, submits, counted, fact, run,
                     host, todo, waiting>>

\* The rebuild, the close of the old runtime, the switch of session or the
\* submission throws, and failFire() looks.
PrepareFails(h) ==
  /\ pc[h] \in {"building", "preparing"}
  /\ LookOrStop(h, cur[h], "failing")
  /\ UNCHANGED <<automations, fires, host, todo, waiting, busy>>

\* The run writes its turn_status.
RunRecords(h, outcome) ==
  /\ pc[h] = "running"
  /\ fact[cur[h]] = "none"
  /\ fact' = [fact EXCEPT ![cur[h]] = outcome]
  /\ UNCHANGED <<automations, fstatus, later, onTime, submits, counted, run, bound, hosts>>

\* finishRun(): the row has the end that is in the file before the completion
\* resolves with it.
RunEnds(h) ==
  /\ pc[h] = "running"
  /\ fact[cur[h]] # "none"
  /\ run' = [run EXCEPT ![cur[h]] = fact[cur[h]]]
  /\ pc' = [pc EXCEPT ![h] = "ended"]
  /\ UNCHANGED <<automations, fstatus, later, onTime, submits, counted, fact, bound,
                 host, todo, waiting, cur, read, busy>>

\* The completion rejects, for its end could not be written or another one was
\* there, and failFire() looks.  The runtime may be left busy.
RunRejects(h) ==
  /\ pc[h] = "running"
  /\ LookOrStop(h, cur[h], "failing")
  /\ \E b \in BOOLEAN : busy' = [busy EXCEPT ![h] = b]
  /\ UNCHANGED <<automations, fires, host, todo, waiting>>

\* Mutant: the executor keeps the fire of which somebody else wrote the end.
MutSettle(h) ==
  /\ pc[h] = "ended"
  /\ \/ Look(h, cur[h], IF run[cur[h]] = "completed" THEN "completing" ELSE "failing")
     \/ fstatus[cur[h]] # "running" /\ pc' = [pc EXCEPT ![h] = "free"] /\ UNCHANGED <<cur, read>>
  /\ UNCHANGED <<automations, fires, host, todo, waiting, busy>>

\* Mutant: however the run ended, its fire is completed.
MutVerdict(h) ==
  /\ pc[h] = "ended"
  /\ LookOrStop(h, cur[h], "completing")
  /\ UNCHANGED <<automations, fires, host, todo, waiting, busy>>

\* The completion resolves: completeFire() or failFire() looks.
Settle(h) ==
  /\ pc[h] = "ended"
  /\ LookOrStop(h, cur[h], IF run[cur[h]] = "completed" THEN "completing" ELSE "failing")
  /\ UNCHANGED <<automations, fires, host, todo, waiting, busy>>

(***************************************************************************)
(* Everybody else at a Host, and the end of one: stop() lets go of the     *)
(* timer and the lock but not of the queue; a process exits or crashes.  A *)
(* stopped Host that has nothing to go on with is as good as exited.       *)
(***************************************************************************)

OthersBegin(h) ==
  /\ host[h] = "up" /\ Awaits(h)
  /\ pc[h] # "running"
  /\ ~busy[h]
  /\ busy' = [busy EXCEPT ![h] = TRUE]
  /\ UNCHANGED <<automations, fires, host, todo, waiting, pc, cur, read>>

OthersEnd(h) ==
  /\ busy[h] /\ Awaits(h)
  /\ busy' = [busy EXCEPT ![h] = FALSE]
  /\ UNCHANGED <<automations, fires, host, todo, waiting, pc, cur, read>>

Stop(h) ==
  /\ host[h] = "up" /\ Awaits(h)
  /\ pc[h] # "free" \/ \E f \in Fire : waiting[h][f] > 0
  /\ host' = [host EXCEPT ![h] = "stopping"]
  /\ UNCHANGED <<automations, fires, todo, waiting, pc, cur, read, busy>>

Exit(h) ==
  /\ host[h] \notin {"new", "exited"}
  /\ host' = [host EXCEPT ![h] = "exited"]
  /\ todo' = IF host[h] = "starting" THEN {} ELSE todo
  /\ waiting' = [waiting EXCEPT ![h] = [f \in Fire |-> 0]]
  /\ Done(h)
  /\ busy' = [busy EXCEPT ![h] = FALSE]
  /\ UNCHANGED <<automations, fires>>

-----------------------------------------------------------------------------

Next ==
  \/ \E a \in Automation :
       ComesDue(a) \/ Expires(a) \/ Pause(a) \/ Resume(a) \/ Delete(a)
  \/ \E a \in Automation, input \in Input : Create(a, input)
  \/ \E f \in Fire : FireComesDue(f)
  \/ \E h \in Host, a \in Automation : RunNow(h, a)
  \/ \E h \in Host, f \in Fire : Execute(h, f)
  \/ \E h \in Host, f \in Fire, known \in BOOLEAN : RecoverFire(h, f, known)
  \/ \E h \in Host, outcome \in {"completed", "failed"} : RunRecords(h, outcome)
  \/ \E h \in Host : \/ Start(h) \/ AskPerson(h) \/ Tick(h)
                     \/ DeferLook(h) \/ DeferFire(h)
                     \/ Rebuilt(h) \/ Submit(h) \/ BindFireRun(h) \/ PrepareFails(h)
                     \/ RunEnds(h) \/ RunRejects(h) \/ Settle(h)
                     \/ CompleteFire(h) \/ ReadFailures(h) \/ FailFire(h)
                     \/ OthersBegin(h) \/ OthersEnd(h) \/ Stop(h) \/ Exit(h)

Spec == Init /\ [][Next]_vars

(***************************************************************************)
(* Properties.                                                             *)
(***************************************************************************)

\* At most one run is ever submitted for a fire, however often it waits in
\* the queues of two processes and whenever they stop or crash (claimFire,
\* recoverInFlight).
FireRunsOnce == \A f \in Fire : submits[f] <= 1

\* A fire is only completed if its run is (executeFire, recoverInFlight).
\* One that failed may have a run that did not: its completion was rejected.
CompletedFollowsRun ==
  \A f \in Fire : fstatus[f] = "completed" => run[f] = "completed"

\* Row and run of every fire together keep what FireContract promises, over
\* stopped, crashed and succeeding processes (executeFire, recoverInFlight).
Contract == INSTANCE FireContract
  WITH work <- run,
       mark <- [f \in Fire |-> IF fstatus[f] \in Ended \cup {"gone"}
                                 THEN fstatus[f] ELSE "waiting"],
       looked <- {f \in Fire : \E h \in Host :
                    cur[h] = f /\ pc[h] \in {"deferring", "completing", "failing", "counting"}}

ImplementsContract == Contract!ContractSpec

\* No completed fire is missing from fire_count, whatever the executor and
\* the recovery of the next Host do to it at the same time; and none is in it
\* more than twice, once for each of them (completeFire, recoverInFlight).
CountsCompletions ==
  /\ \A a \in Automation :
       count[a] >= Cardinality({f \in Fire : AutomationOf[f] = a /\ fstatus[f] = "completed"})
  /\ \A f \in Fire : counted[f] <= 2

\* An automation with that many failures in a row is not active, whatever
\* pauses, resumes and late results came between and whichever of two results
\* is written last (failFire, resume).
StopsAfterFailures ==
  \A a \in Automation : status[a] = "active" => failures[a] < PauseAfter
=============================================================================
