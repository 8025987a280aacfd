------------------------------ MODULE AgentRun ------------------------------
(***************************************************************************)
(* One session of the runtime process: InteractiveAgentRuntime drives an   *)
(* AgentSession, the session writes its JSONL and its checkpoint, and the  *)
(* run authority (SQLite), the run ledger (JSON files) and the session     *)
(* lease are kept beside them.                                             *)
(*                                                                         *)
(* A run is one asynchronous function; pc names the await it stands at.    *)
(* Between two awaits anything else of the process may happen: a cancel, a *)
(* permission answer, close(), a crash.  fact, row, ledger and checkpoint  *)
(* are on disk and survive a crash; the rest is memory.                    *)
(***************************************************************************)
EXTENDS Naturals

CONSTANTS
    Run,       \* run ids clients may submit, and submit again
    NoRun,
    Faults,    \* the calls that may fail, a subset of FaultKinds
    Decisions  \* the outcomes the completion gate may decide on

FaultKinds == {"ledger", "skills", "checkpoint", "sink", "authority", "context"}

VARIABLES
    \* on disk
    fact,        \* [Run -> the turn_status of the run in the JSONL, or NoFact]
    row,         \* [Run -> status of the run in agent_runs]
    ledger,      \* [Run -> status in the run ledger; "stale": its process is gone]
    checkpoint,  \* the run whose step the TurnStore file holds, or NoRun
    lease,       \* the session lease: free, self, other, or dead (owner gone)
    \* in the process
    up, closed,
    mode,        \* InteractiveRunState.kind
    activeRun, pc,
    continuing,  \* the active run resumes the interrupted turn
    aborted,     \* the abort signal of the active run
    asking,      \* pendingPermission is set
    outcome,     \* the outcome on its way to disk
    \* what others saw
    verdict,     \* the status the host first settled on for the active run
    told,        \* [Run -> terminal event sent to subscribers]
    executions   \* [Run -> how often executeRun was entered]

disk == <<fact, row, ledger, checkpoint, lease>>
seen == <<verdict, told, executions>>
vars == <<fact, row, ledger, checkpoint, lease, up, closed, mode, activeRun, pc,
          continuing, aborted, asking, outcome, verdict, told, executions>>

TerminalStatus == {"completed", "incomplete", "blocked", "cancelled", "aborted", "failed"}

RowStatus == {"none", "admitted", "running"} \cup TerminalStatus

LedgerStatus == {"none", "running", "stale"} \cup TerminalStatus

(* An outcome is its status and a note, which stands for every other field *)
(* sameTerminalOutcome compares (stopReason, steps, summary, resumable).   *)
(*   turn          as the session made it, summary free of secrets         *)
(*   final         not resumable                                           *)
(*   secret        the summary holds text redactSecrets changes            *)
(*   redacted      that summary as the recorder writes it                  *)
(*   unresumable   the checkpoint could not be saved                       *)
(*   cleanup       the checkpoint could not be cleared (resumable: false)  *)
(*   host          made by the host without those fields                   *)
(*   uncaught      made by failUncaughtRun                                 *)
Note == {"turn", "final", "secret", "redacted", "unresumable", "cleanup", "host", "uncaught"}

Outcome == [status : TerminalStatus, note : Note]

Make(status, note) == [status |-> status, note |-> note]

NoFact == [status |-> "none", note |-> "none"]

\* what the completion gate can decide
GateOutcomes ==
    {Make("completed", "turn"), Make("incomplete", "turn"), Make("incomplete", "final"),
     Make("blocked", "turn"), Make("blocked", "secret")}

ASSUME RunAssumption ==
    /\ NoRun \notin Run
    /\ Faults \subseteq FaultKinds
    /\ Decisions \subseteq GateOutcomes

\* redactSessionEvent on a turn_status
Stored(o) == IF o.note = "secret" THEN Make(o.status, "redacted") ELSE o

\* the outcome completeRun, incompleteRun, ... hand to commitTerminal
HostOutcome(o) == IF o.note = "cleanup" THEN Make(o.status, "host") ELSE o

Resumable(o) == o.status = "blocked" \/ o = Make("incomplete", "turn")

Pc == {"none", "ledger", "prepare", "turn", "ask", "decided", "record", "yielded",
       "hostCatch", "ensure", "project", "ledgerEnd", "emit", "settle", "reject"}

Init ==
    /\ fact = [r \in Run |-> NoFact]
    /\ row = [r \in Run |-> "none"]
    /\ ledger = [r \in Run |-> "none"]
    /\ checkpoint = NoRun
    /\ lease = "free"
    /\ up = TRUE
    /\ closed = FALSE
    /\ mode = "idle"
    /\ activeRun = NoRun
    /\ pc = "none"
    /\ continuing = FALSE
    /\ aborted = FALSE
    /\ asking = FALSE
    /\ outcome = NoFact
    /\ verdict = "none"
    /\ told = [r \in Run |-> "none"]
    /\ executions = [r \in Run |-> 0]

-----------------------------------------------------------------------------
(* Admission: InteractiveAgentRuntime.startRun.                            *)

\* mutant: only the published state is looked at, not the run being started
MutAdmissible ==
    /\ up /\ ~closed
    /\ mode = "idle"
    /\ lease # "other"

\* startRun gets past its checks and acquireSessionLease does not throw
Admissible ==
    /\ up /\ ~closed
    /\ mode = "idle" /\ activeRun = NoRun
    /\ lease # "other"

\* mutant: a run id whose row is not terminal is taken for a new one
MutSubmit(r, resume) ==
    /\ Admissible
    /\ row[r] \notin TerminalStatus
    /\ resume => checkpoint # NoRun
    /\ row' = [row EXCEPT ![r] = "running"]
    /\ lease' = "self"
    /\ activeRun' = r
    /\ continuing' = resume
    /\ aborted' = FALSE
    /\ pc' = "ledger"
    /\ executions' = [executions EXCEPT ![r] = @ + 1]
    /\ UNCHANGED <<fact, ledger, checkpoint, up, closed, mode, asking, outcome, verdict, told>>

\* a new run id: the authority row is created and, before the first await of
\* executeRun, marked running; when that throws the run fails as it is
Submit(r, resume) ==
    /\ Admissible
    /\ row[r] = "none"
    /\ resume => checkpoint # NoRun
    /\ \/ /\ row' = [row EXCEPT ![r] = "running"]
          /\ pc' = "ledger"
          /\ UNCHANGED <<outcome, verdict>>
       \/ /\ "authority" \in Faults
          /\ row' = [row EXCEPT ![r] = "admitted"]
          /\ outcome' = Make("failed", "uncaught")
          /\ verdict' = "failed"
          /\ pc' = "ensure"
    /\ lease' = "self"
    /\ activeRun' = r
    /\ continuing' = resume
    /\ aborted' = FALSE
    /\ executions' = [executions EXCEPT ![r] = @ + 1]
    /\ UNCHANGED <<fact, ledger, checkpoint, up, closed, mode, asking, told>>

\* a run id the authority knows: the stored outcome or an error is returned,
\* nothing runs, and the lease just taken is given back
Resubmit(r) ==
    /\ Admissible
    /\ row[r] # "none"
    /\ lease' = "free"
    /\ UNCHANGED <<fact, row, ledger, checkpoint, up, closed, mode, activeRun, pc,
                   continuing, aborted, asking, outcome, seen>>

-----------------------------------------------------------------------------
(* The run, await by await.                                                *)
At(place) == up /\ pc = place

Goto(place) == pc' = place

\* startRunLedger (its error is swallowed) and refreshSkills, then run.started
StartLedger ==
    /\ At("ledger")
    /\ \/ ledger' = [ledger EXCEPT ![activeRun] = "running"]
       \/ "ledger" \in Faults /\ ledger' = ledger
    /\ \/ /\ mode' = "runs"
          /\ Goto("prepare")
          /\ UNCHANGED <<outcome, verdict>>
       \/ /\ "skills" \in Faults
          /\ outcome' = Make("failed", "uncaught")
          /\ verdict' = "failed"
          /\ Goto("ensure")
          /\ UNCHANGED mode
    /\ UNCHANGED <<fact, row, checkpoint, lease, up, closed, activeRun, continuing,
                   aborted, asking, told, executions>>

\* turnStore.clear().catch(): the file is gone, or a failure goes unnoticed
ClearQuietly ==
    \/ checkpoint' = NoRun
    \/ "checkpoint" \in Faults /\ checkpoint' = checkpoint

\* runTurn up to the agent loop: cancelled, failed, ready with a first
\* checkpoint, or thrown out before the turn is opened (quarantine); a fresh
\* prompt gives the interrupted turn up
Prepare ==
    /\ At("prepare")
    /\ \/ Goto("hostCatch") /\ UNCHANGED <<checkpoint, outcome>>
       \/ /\ aborted
          /\ ClearQuietly
          /\ outcome' = Make("cancelled", "turn")
          /\ Goto("record")
       \/ /\ ~aborted
          /\ IF continuing THEN checkpoint' = checkpoint ELSE ClearQuietly
          /\ outcome' = Make("failed", "turn")
          /\ Goto("record")
       \/ /\ ~aborted
          /\ \/ checkpoint' = IF continuing THEN checkpoint ELSE activeRun
             \/ "checkpoint" \in Faults /\ ~continuing /\ checkpoint' \in {NoRun, checkpoint}
          /\ outcome' = outcome
          /\ Goto("turn")
    /\ UNCHANGED <<fact, row, ledger, lease, up, closed, mode, activeRun, continuing,
                   aborted, asking, seen>>

\* continueInterruptedTurn gives up before the turn: the session facts do not
\* match the checkpoint (a terminal is written), or the user must speak first
\* or no step is left (it throws)
ContinuationRefused ==
    /\ At("prepare")
    /\ continuing
    /\ \/ /\ ClearQuietly
          /\ outcome' = Make("blocked", "final")
          /\ Goto("record")
       \/ /\ checkpoint' \in {checkpoint, NoRun}
          /\ outcome' = outcome
          /\ Goto("hostCatch")
    /\ UNCHANGED <<fact, row, ledger, lease, up, closed, mode, activeRun, continuing,
                   aborted, asking, seen>>

\* a step of the loop reached its boundary: the checkpoint is now this run's
SaveStep ==
    /\ At("turn")
    /\ checkpoint' = activeRun
    /\ UNCHANGED <<fact, row, ledger, lease, up, closed, mode, activeRun, pc, continuing,
                   aborted, asking, outcome, seen>>

\* waitForPermission; the gate has just looked at the signal
AskPermission ==
    /\ At("turn")
    /\ ~aborted
    /\ asking' = TRUE
    /\ Goto("ask")
    /\ UNCHANGED <<disk, up, closed, mode, activeRun, continuing, aborted, outcome, seen>>

AnswerPermission ==
    /\ At("ask")
    /\ asking' = FALSE
    /\ Goto("turn")
    /\ UNCHANGED <<disk, up, closed, mode, activeRun, continuing, aborted, outcome, seen>>

\* the completion gate looks at the signal and ends the loop; from here on
\* nobody looks at it
Decide ==
    /\ At("turn")
    /\ outcome' \in IF aborted THEN {Make("cancelled", "turn")} ELSE Decisions
    /\ Goto("decided")
    /\ UNCHANGED <<disk, up, closed, mode, activeRun, continuing, aborted, asking, seen>>

\* the loop throws: a provider error, or the abort has reached it
TurnThrows ==
    /\ At("turn")
    /\ outcome' = Make(IF aborted THEN "cancelled" ELSE "failed", "turn")
    /\ IF aborted THEN ClearQuietly ELSE checkpoint' = checkpoint
    /\ Goto("record")
    /\ UNCHANGED <<fact, row, ledger, lease, up, closed, mode, activeRun, continuing,
                   aborted, asking, seen>>

\* mutant: a checkpoint that cannot be cleared is nobody's concern
MutSettleCheckpoint ==
    /\ At("decided")
    /\ \/ checkpoint' = IF Resumable(outcome) THEN activeRun ELSE NoRun
       \/ "checkpoint" \in Faults /\ checkpoint' = checkpoint
    /\ Goto("record")
    /\ UNCHANGED <<fact, row, ledger, lease, up, closed, mode, activeRun, continuing,
                   aborted, asking, outcome, seen>>

\* the checkpoint precedes the terminal fact: saved when the turn can go on,
\* cleared otherwise, and a failure of either is part of the outcome
SettleCheckpoint ==
    /\ At("decided")
    /\ \/ /\ checkpoint' = IF Resumable(outcome) THEN activeRun ELSE NoRun
          /\ outcome' = outcome
       \/ /\ "checkpoint" \in Faults
          /\ checkpoint' = checkpoint
          /\ outcome' = IF Resumable(outcome)
                        THEN Make(outcome.status, "unresumable")
                        ELSE Make("failed", "cleanup")
    /\ Goto("record")
    /\ UNCHANGED <<fact, row, ledger, lease, up, closed, mode, activeRun, continuing,
                   aborted, asking, seen>>

\* recordTurnOutcome: the line is flushed and then projected; when the
\* projection throws, the error handler finds the line and throws as well
RecordOutcome ==
    /\ At("record")
    /\ fact' = [fact EXCEPT ![activeRun] = Stored(outcome)]
    /\ \/ Goto("yielded") /\ checkpoint' = checkpoint
       \/ /\ "sink" \in Faults
          /\ Goto("hostCatch")
          /\ checkpoint' \in {checkpoint, IF aborted THEN NoRun ELSE checkpoint}
    /\ UNCHANGED <<row, ledger, lease, up, closed, mode, activeRun, continuing, aborted,
                   asking, outcome, seen>>

\* the stream is over: cancel wins over any late outcome, else the outcome
\* stands, unless contextStatus, asked for first, throws
HostCheck ==
    /\ At("yielded")
    /\ \/ /\ (aborted /\ outcome.status # "cancelled") \/ "context" \in Faults
          /\ Goto("hostCatch")
          /\ UNCHANGED <<outcome, verdict, asking>>
       \/ /\ ~(aborted /\ outcome.status # "cancelled")
          /\ outcome' = HostOutcome(outcome)
          /\ verdict' = outcome.status
          /\ asking' = FALSE
          /\ Goto("ensure")
    /\ UNCHANGED <<disk, up, closed, mode, activeRun, continuing, aborted, told,
                   executions>>

\* the catch block of executeRun: cancelledRun or failRun without a turn
HostCatch ==
    /\ At("hostCatch")
    /\ outcome' = Make(IF aborted THEN "cancelled" ELSE "failed", "host")
    /\ verdict' = outcome'.status
    /\ asking' = FALSE
    /\ Goto("ensure")
    /\ UNCHANGED <<disk, up, closed, mode, activeRun, continuing, aborted, told,
                   executions>>

-----------------------------------------------------------------------------
(* commitTerminal: fact, row, ledger, and only then the event.             *)

\* commitTerminal threw.  Nobody catches it but failUncaughtRun, once.
CommitThrows ==
    IF outcome.note = "uncaught"
    THEN Goto("reject") /\ outcome' = outcome
    ELSE Goto("ensure") /\ outcome' = Make("failed", "uncaught")

\* mutant: the host's outcome replaces the one already written
MutEnsureOverwrites ==
    /\ At("ensure")
    /\ fact' = [fact EXCEPT ![activeRun] = outcome]
    /\ Goto("project")
    /\ UNCHANGED <<row, ledger, checkpoint, lease, up, closed, mode, activeRun, continuing,
                   aborted, asking, outcome, seen>>

\* mutant: an existing fact is taken for the same one
MutEnsureTrusts ==
    /\ At("ensure")
    /\ fact' = [fact EXCEPT ![activeRun] = IF @ = NoFact THEN outcome ELSE @]
    /\ Goto("project")
    /\ UNCHANGED <<row, ledger, checkpoint, lease, up, closed, mode, activeRun, continuing,
                   aborted, asking, outcome, seen>>

\* ensureTerminalOutcome: the fact is there and the same, or not there yet, or
\* there and different
EnsureFact ==
    /\ At("ensure")
    /\ \/ /\ fact[activeRun] \in {NoFact, outcome}
          /\ fact' = [fact EXCEPT ![activeRun] = outcome]
          /\ Goto("project") /\ outcome' = outcome
       \/ /\ fact[activeRun] = NoFact
          /\ "sink" \in Faults
          /\ fact' = [fact EXCEPT ![activeRun] = outcome]
          /\ CommitThrows
       \/ /\ fact[activeRun] \notin {NoFact, outcome}
          /\ fact' = fact
          /\ CommitThrows
    /\ UNCHANGED <<row, ledger, checkpoint, lease, up, closed, mode, activeRun, continuing,
                   aborted, asking, seen>>

\* RuntimeEventAuthority.finishRun
FinishRow ==
    /\ At("project")
    /\ \/ /\ row' = [row EXCEPT ![activeRun] = outcome.status]
          /\ Goto("ledgerEnd") /\ outcome' = outcome
       \/ /\ "authority" \in Faults
          /\ row' = row
          /\ CommitThrows
    /\ UNCHANGED <<fact, ledger, checkpoint, lease, up, closed, mode, activeRun, continuing,
                   aborted, asking, seen>>

\* SessionRunLedger.finish: a missing entry stays missing, an error is swallowed
FinishLedger ==
    /\ At("ledgerEnd")
    /\ \/ /\ ledger' = IF ledger[activeRun] = "running"
                       THEN [ledger EXCEPT ![activeRun] = outcome.status]
                       ELSE ledger
       \/ "ledger" \in Faults /\ ledger' = ledger
    /\ Goto("emit")
    /\ UNCHANGED <<fact, row, checkpoint, lease, up, closed, mode, activeRun, continuing,
                   aborted, asking, outcome, seen>>

\* run.completed, run.failed, ...: reduceInteractiveRunState goes back to idle
EmitTerminal ==
    /\ At("emit")
    /\ told' = [told EXCEPT ![activeRun] = outcome.status]
    /\ mode' = "idle"
    /\ Goto("settle")
    /\ UNCHANGED <<disk, up, closed, activeRun, continuing, aborted, asking, outcome,
                   verdict, executions>>

\* mutant: the runtime keeps pointing at the run that is over
MutSettle ==
    /\ up
    /\ pc \in {"settle", "reject"}
    /\ lease' = IF mode = "idle" THEN "free" ELSE lease
    /\ outcome' = NoFact
    /\ verdict' = "none"
    /\ Goto("none")
    /\ UNCHANGED <<fact, row, ledger, checkpoint, up, closed, mode, activeRun, continuing,
                   aborted, asking, told, executions>>

\* the .finally of the completion: a lease is given back only by an idle runtime
Settle ==
    /\ up
    /\ pc \in {"settle", "reject"}
    /\ activeRun' = NoRun
    /\ lease' = IF mode = "idle" THEN "free" ELSE lease
    /\ outcome' = NoFact
    /\ verdict' = "none"
    /\ continuing' = FALSE
    /\ aborted' = FALSE
    /\ asking' = FALSE
    /\ Goto("none")
    /\ UNCHANGED <<fact, row, ledger, checkpoint, up, closed, mode, told, executions>>

-----------------------------------------------------------------------------
(* Everything else that happens in or to the process.                      *)

\* mutant: the signal fires and the permission dialog stays open
MutCancelActive ==
    /\ activeRun # NoRun
    /\ aborted' = TRUE
    /\ UNCHANGED <<asking, pc>>

\* cancelRun: the pending permission is denied and the signal fires
CancelActive ==
    /\ activeRun # NoRun
    /\ aborted' = TRUE
    /\ asking' = FALSE
    /\ pc' = IF pc = "ask" THEN "turn" ELSE pc

Cancel ==
    /\ up
    /\ CancelActive
    /\ UNCHANGED <<disk, up, closed, mode, activeRun, continuing, outcome, seen>>

\* close(): no new work, the run is cancelled
Close ==
    /\ up /\ ~closed
    /\ closed' = TRUE
    /\ CancelActive \/ (activeRun = NoRun /\ UNCHANGED <<aborted, asking, pc>>)
    /\ UNCHANGED <<disk, up, mode, activeRun, continuing, outcome, seen>>

\* compact, rewind, ...: an operation that takes the lease of an idle runtime
StartMaintenance ==
    /\ Admissible
    /\ mode' = "maintenance"
    /\ lease' = "self"
    /\ UNCHANGED <<fact, row, ledger, checkpoint, up, closed, activeRun, pc, continuing,
                   aborted, asking, outcome, seen>>

EndMaintenance ==
    /\ up
    /\ mode = "maintenance"
    /\ mode' = "idle"
    /\ lease' = "free"
    /\ UNCHANGED <<fact, row, ledger, checkpoint, up, closed, activeRun, pc, continuing,
                   aborted, asking, outcome, seen>>

\* the process ends: memory is lost, and its ledger entries belong to no process
ProcessEnds ==
    /\ up' = FALSE
    /\ closed' = FALSE
    /\ mode' = "idle"
    /\ activeRun' = NoRun
    /\ pc' = "none"
    /\ continuing' = FALSE
    /\ aborted' = FALSE
    /\ asking' = FALSE
    /\ outcome' = NoFact
    /\ verdict' = "none"
    /\ ledger' = [r \in Run |-> IF ledger[r] = "running" THEN "stale" ELSE ledger[r]]
    /\ UNCHANGED <<fact, checkpoint, told>>

Crash ==
    /\ up
    /\ ProcessEnds
    /\ lease' = IF lease = "self" THEN "dead" ELSE lease
    /\ UNCHANGED <<row, executions>>

\* a crash between the two transactions of an admission
CrashAdmitting(r) ==
    /\ Admissible
    /\ row[r] = "none"
    /\ ProcessEnds
    /\ row' = [row EXCEPT ![r] = "admitted"]
    /\ lease' = "dead"
    /\ UNCHANGED executions

\* closeCommandRuntime, once the writers are done, and the process leaves
Exit ==
    /\ up /\ closed
    /\ activeRun = NoRun /\ mode # "maintenance"
    /\ ProcessEnds
    /\ lease' = IF lease = "self" THEN "free" ELSE lease
    /\ UNCHANGED <<row, executions>>

\* the fact a row would have to repeat agrees with what it says
Reconcilable(r) == row[r] \in TerminalStatus /\ fact[r] # NoFact => row[r] = fact[r].status

\* RuntimeEventAuthority.open: every admitted run is given the status of its
\* turn_status; a row that says otherwise makes the start fail
Restart ==
    /\ ~up
    /\ \A r \in Run : Reconcilable(r)
    /\ up' = TRUE
    /\ row' = [r \in Run |-> IF row[r] # "none" /\ fact[r] # NoFact
                             THEN fact[r].status ELSE row[r]]
    /\ UNCHANGED <<fact, ledger, checkpoint, lease, closed, mode, activeRun, pc, continuing,
                   aborted, asking, outcome, seen>>

\* mutant: a run whose process is gone is aborted, whatever its JSONL says
MutListRuns(r) ==
    /\ up
    /\ ledger[r] = "stale"
    /\ ledger' = [ledger EXCEPT ![r] = "aborted"]
    /\ UNCHANGED <<fact, row, checkpoint, lease, up, closed, mode, activeRun, pc, continuing,
                   aborted, asking, outcome, seen>>

\* reconcileStale, when a session's runs are listed
ListRuns(r) ==
    /\ up
    /\ ledger[r] = "stale"
    /\ ledger' = [ledger EXCEPT ![r] = IF fact[r] # NoFact THEN fact[r].status ELSE "aborted"]
    /\ UNCHANGED <<fact, row, checkpoint, lease, up, closed, mode, activeRun, pc, continuing,
                   aborted, asking, outcome, seen>>

\* another runtime works on the session
OtherTakesLease ==
    /\ lease \in {"free", "dead"}
    /\ lease' = "other"
    /\ UNCHANGED <<fact, row, ledger, checkpoint, up, closed, mode, activeRun, pc, continuing,
                   aborted, asking, outcome, seen>>

OtherLeavesLease ==
    /\ lease = "other"
    /\ lease' \in {"free", "dead"}
    /\ UNCHANGED <<fact, row, ledger, checkpoint, up, closed, mode, activeRun, pc, continuing,
                   aborted, asking, outcome, seen>>

\* the steps the process takes by itself
RunStep ==
    \/ StartLedger \/ Prepare \/ ContinuationRefused \/ SettleCheckpoint \/ RecordOutcome
    \/ HostCheck \/ HostCatch \/ EnsureFact \/ FinishRow \/ FinishLedger \/ EmitTerminal
    \/ Settle

LoopStep == SaveStep \/ AskPermission \/ AnswerPermission \/ Decide \/ TurnThrows

Next ==
    \/ RunStep
    \/ LoopStep
    \/ Cancel \/ Close \/ StartMaintenance \/ EndMaintenance
    \/ Crash \/ Exit \/ Restart
    \/ OtherTakesLease \/ OtherLeavesLease
    \/ \E r \in Run :
          \/ \E resume \in BOOLEAN : Submit(r, resume)
          \/ Resubmit(r) \/ CrashAdmitting(r) \/ ListRuns(r)

Spec == Init /\ [][Next]_vars

\* File and database calls return; a provider or a tool lets go once the
\* signal has fired.  Nothing is assumed of users or of a loop left alone.
Fairness == WF_vars(RunStep) /\ WF_vars(aborted /\ TurnThrows)

FairSpec == Spec /\ Fairness

-----------------------------------------------------------------------------
(* Every variable keeps its type, and a run is active exactly while its    *)
(* coroutine stands somewhere.                                             *)
TypeOK ==
    /\ fact \in [Run -> Outcome \cup {NoFact}]
    /\ row \in [Run -> RowStatus]
    /\ ledger \in [Run -> LedgerStatus]
    /\ checkpoint \in Run \cup {NoRun}
    /\ lease \in {"free", "self", "other", "dead"}
    /\ up \in BOOLEAN /\ closed \in BOOLEAN
    /\ mode \in {"idle", "runs", "maintenance"}
    /\ activeRun \in Run \cup {NoRun}
    /\ pc \in Pc
    /\ continuing \in BOOLEAN /\ aborted \in BOOLEAN /\ asking \in BOOLEAN
    /\ outcome \in Outcome \cup {NoFact}
    /\ verdict \in TerminalStatus \cup {"none"}
    /\ told \in [Run -> TerminalStatus \cup {"none"}]
    /\ executions \in [Run -> Nat]
    /\ pc = "none" <=> activeRun = NoRun

(* A run writes the session only under the session's lease, from its       *)
(* admission to its last write (SessionLease.ts: one writer per session).  *)
WriterHoldsLease == activeRun # NoRun => up /\ lease = "self"

(* What this runtime and the other one hold and do, as SingleWriter sees   *)
(* it: of the other one nothing is known but that it may be writing.       *)
Other == IF lease = "other" THEN {"other"} ELSE {}

Holders == IF lease = "self" THEN {"self"} ELSE Other

Writers == Other \cup IF activeRun # NoRun \/ mode = "maintenance" THEN {"self"} ELSE {}

Session == INSTANCE SingleWriter
    WITH Runtime <- {"self", "other"}, holders <- Holders, writers <- Writers

(* Runs and maintenance write the session only while their runtime holds   *)
(* it, and the other runtime gets it only after this one has let go        *)
(* (SingleWriter), through every fault, close and crash.                   *)
ImplementsSingleWriter == Session!WriterSpec

(* A run id is executed at most once, however often it is submitted and    *)
(* wherever the process crashed (RuntimeAuthority.ts 247).                 *)
ExecutedOnce == \A r \in Run : executions[r] <= 1

(* A run that completed leaves no checkpoint behind that a later "resume"  *)
(* would run again.                                                        *)
CompletedLeavesNoCheckpoint ==
    \A r \in Run : fact[r].status = "completed" => checkpoint # r

(* The ledger, repaired or not, never contradicts the canonical fact: it   *)
(* says "aborted" for a run without one only after its process is gone.    *)
LedgerFollowsFact ==
    \A r \in Run : ledger[r] \in TerminalStatus =>
        \/ fact[r].status = ledger[r]
        \/ fact[r] = NoFact /\ ledger[r] = "aborted" /\ activeRun # r

(* The start after a crash never fails on a row that contradicts its       *)
(* canonical fact: RuntimeEventAuthority.open would refuse the session for *)
(* good (RuntimeAuthority.ts, reconcileTerminalRunInTransaction).          *)
StartNeverRefused == \A r \in Run : Reconcilable(r)

(* A cancelled run always settles, without anybody answering its pending   *)
(* permission: cancelRun unblocks every wait.                              *)
CancelledRunSettles ==
    \A r \in Run : activeRun = r /\ aborted ~> activeRun # r

(* The lifecycle promised to clients (RunLifecycle).                       *)
Lifecycle == INSTANCE RunLifecycle
    WITH fact <- [r \in Run |-> fact[r].status]

ImplementsLifecycle == Lifecycle!LifecycleSpec

(* A run that is over has told its clients what the host settled on; in    *)
(* particular a cancel wins over a late outcome (InteractiveAgentRuntime   *)
(* 686, and tests/subagent-runtime.test.ts 618).                           *)
VerdictStands == pc \in {"settle", "reject"} => told[activeRun] = verdict
=============================================================================
