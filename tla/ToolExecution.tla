--------------------------- MODULE ToolExecution ---------------------------
(***************************************************************************)
(* What happens to a model's tool call between its arrival and its result: *)
(* agent/toolExecutionCoordinator.ts with the PermissionManager it asks,   *)
(* the recorder's write barrier it waits for, the capability store that    *)
(* times external tools out, and session/replay.ts, which gives the calls  *)
(* of a process that died the results they lack.                           *)
(*                                                                         *)
(* A call is one await of execute() at a time ("stage").  The scheduler of *)
(* the resources is its contract (no two conflicting calls at once): its   *)
(* own steps are in ToolScheduler.  Records of one call reach the file in  *)
(* order; the order between calls, which no property needs, is left open.  *)
(* Left out: the texts of results, diagnostics, hooks' outputs, archives of *)
(* long results, and calls that a full queue or a repeated id refuses.     *)
(***************************************************************************)
EXTENDS Integers, Sequences, FiniteSets

CONSTANTS
    Call,          \* tool calls of a session
    Batches,       \* which calls a model may send: functions from Call
    File,          \* files that calls work on
    NoFile,        \* the target of a call that has no preview
    Tool,          \* names of tools
    DeniedFiles,   \* policy.denyPaths
    AllowedTools,  \* policy.allowTools
    FirstMode,     \* the mode at the start
    AnswerScopes,  \* scopes with which a user approves
    AnswerModes,   \* modes that an answer may switch to
    Slots,         \* maxConcurrentTools
    MaxToolCalls, MaxRepeatedActions,  \* the budget of a turn
    RestoredBudgets,  \* what an interrupted turn had used of it
    MaxVersion,    \* bound: versions of a file
    MaxTurns       \* bound: turns of the session

Modes == {"ask", "read-only", "auto", "full-access"}
Scopes == {"once", "tool", "path", "command", "session"}

\* source: who runs it; file: the target shown to the user; reach, writes:
\* the declared accesses; repeatable: retrySafety is safe or idempotent.
KindType == [source : {"builtin", "external"}, tool : Tool,
             action : {"read", "write", "shell"}, level : {"low", "medium", "critical"},
             file : File \cup {NoFile}, reach : SUBSET File, repeatable : BOOLEAN]

ASSUME BatchAssumption == Batches \subseteq [Call -> KindType]
ASSUME FileAssumption == NoFile \notin File
ASSUME ModeAssumption == FirstMode \in Modes /\ AnswerModes \subseteq Modes
ASSUME ScopeAssumption == AnswerScopes \subseteq Scopes
ASSUME BoundAssumption == /\ Slots \in Nat /\ MaxToolCalls \in Nat
                          /\ MaxRepeatedActions \in Nat
                          /\ RestoredBudgets \subseteq [calls : Nat, repeats : Nat]
                          /\ MaxVersion \in Nat /\ MaxTurns \in Nat \ {0}

VARIABLES
    kind,      \* what each call is
    stage,     \* the await at which its execute() is
    latest,    \* latestState, in memory
    outcome,   \* the status it reports, once decided
    code,      \* the tool's own code
    effect,    \* a file tool has replaced its file and said so
    queue,     \* its records behind the barrier, not yet in the file
    fact,      \* its last lifecycle record in the file
    answer,    \* its tool_result in the file
    mode, grants,  \* PermissionManager
    approved,  \* scope of the user's standing approval of the call
    shown,     \* version of the target that the preview showed
    disk,      \* version of each file
    charged,   \* calls counted by the turn's budget
    spent,     \* initialToolCallCount and initialMaxRepeatedActionCount
    snapshot,  \* the turn's workspace snapshot
    aborted,   \* the turn's signal
    turn,      \* number of the turn
    alive      \* the process runs

callVars == <<stage, latest, outcome, queue>>
codeVars == <<code, effect>>
fileVars == <<fact, answer>>
permVars == <<mode, grants, approved>>
workVars == <<shown, disk, snapshot>>
turnVars == <<aborted, turn, charged, spent, alive>>
vars == <<kind, callVars, codeVars, fileVars, permVars, workVars, turnVars>>

Stages == {"new", "noted", "queued", "admitted", "gated", "asking", "waiting",
           "hooking", "saving", "running", "wrapping", "finished", "freed"}
Statuses == {"cancelled", "succeeded", "failed", "unknown"}
LifeStates == Statuses \cup
              {"not_started", "running", "side_effect_committed", "cancel_requested"}
Records == LifeStates \cup {"called", "answer"}

\* The rules that approvals may add to the session.
Rules == {<<"tool", t>> : t \in Tool} \cup {<<"path", f>> : f \in File}
         \cup {<<"command", k>> : k \in KindType}
         \cup {<<"session", k.tool, k.action>> : k \in KindType}

TypeOK ==
    /\ kind \in Batches
    /\ stage \in [Call -> Stages]
    /\ latest \in [Call -> LifeStates]
    /\ outcome \in [Call -> Statuses \cup {"none"}]
    /\ code \in [Call -> {"none", "running", "returned", "ended", "adrift", "lost", "stuck"}]
    /\ effect \in [Call -> BOOLEAN]
    /\ queue \in [Call -> Seq(Records)]
    /\ fact \in [Call -> LifeStates \cup {"none", "called"}]
    /\ answer \in [Call -> Statuses \cup {"none"}]
    /\ mode \in Modes
    /\ grants \subseteq Rules
    /\ approved \in [Call -> Scopes \cup {"none"}]
    /\ shown \in [Call -> Nat]
    /\ disk \in [File -> Nat]
    /\ charged \subseteq Call /\ spent \in [calls : Nat, repeats : Nat]
    /\ snapshot \in {"none", "taking", "taken"}
    /\ aborted \in BOOLEAN /\ alive \in BOOLEAN
    /\ turn \in 1 .. MaxTurns

Init ==
    /\ kind \in Batches
    /\ stage = [c \in Call |-> "new"]
    /\ latest = [c \in Call |-> "not_started"]
    /\ outcome = [c \in Call |-> "none"]
    /\ code = [c \in Call |-> "none"]
    /\ effect = [c \in Call |-> FALSE]
    /\ queue = [c \in Call |-> <<>>]
    /\ fact = [c \in Call |-> "none"]
    /\ answer = [c \in Call |-> "none"]
    /\ mode = FirstMode /\ grants = {}
    /\ approved = [c \in Call |-> "none"]
    /\ shown = [c \in Call |-> 0]
    /\ disk = [f \in File |-> 0]
    /\ charged = {} /\ spent \in RestoredBudgets /\ snapshot = "none"
    /\ aborted = FALSE /\ turn = 1 /\ alive = TRUE

-----------------------------------------------------------------------------
(* The permission manager. *)

\* The rule that an approval of the scope adds: none for "once", nor for a
\* path where there is none.
GrantKeys(k, scope) ==
    CASE scope = "tool" -> {<<"tool", k.tool>>}
      [] scope = "path" -> {<<"path", f>> : f \in {k.file} \cap File}
      [] scope = "command" -> {<<"command", k>>}
      [] scope = "session" -> {<<"session", k.tool, k.action>>}
      [] OTHER -> {}

AllowedBySession(k, rules) == \E scope \in Scopes : GrantKeys(k, scope) \cap rules # {}

Denies(k, m) == k.file \in DeniedFiles \/ (m = "read-only" /\ k.action # "read")

\* Mutant: a rule or a mode allows a critical call too.
MutAllows(k, m, rules) ==
    /\ ~ Denies(k, m)
    /\ \/ AllowedBySession(k, rules)
       \/ k.tool \in AllowedTools
       \/ m = "full-access"
       \/ k.action = "read" /\ k.level = "low"
       \/ m = "auto" /\ k.level = "low"

Allows(k, m, rules) ==
    /\ ~ Denies(k, m)
    /\ k.level # "critical"
    /\ \/ AllowedBySession(k, rules)
       \/ k.tool \in AllowedTools
       \/ m = "full-access"
       \/ k.action = "read" /\ k.level = "low"
       \/ m = "auto" /\ k.level = "low"

Asks(k, m, rules) == ~ Denies(k, m) /\ ~ Allows(k, m, rules)

-----------------------------------------------------------------------------
(* Records and results. *)

Pending(c, record) == \E i \in 1 .. Len(queue[c]) : queue[c][i] = record

Goes(c, s) == stage' = [stage EXCEPT ![c] = s]

\* finish(): the terminal record, then the result.  The status is decided
\* here; nothing else happens to the call between the two records.
Report(c, status) ==
    /\ outcome' = [outcome EXCEPT ![c] = status]
    /\ latest' = [latest EXCEPT ![c] = status]
    /\ queue' = [queue EXCEPT ![c] = @ \o <<status, "answer">>]

\* finish() in the start of the admission scheduler: the place is kept until
\* the result is written.
Finish(c, status) == Report(c, status) /\ Goes(c, "finished")

\* finish() of a call that has no place, or whose start threw and lost it.
FinishFreed(c, status) == Report(c, status) /\ Goes(c, "freed")

\* recordState(): nobody waits for the record.
Noted(c, state) ==
    /\ latest' = [latest EXCEPT ![c] = state]
    /\ queue' = [queue EXCEPT ![c] = Append(@, state)]

\* terminalResultStatus(), for an outcome that names no status of its own.
TerminalStatus(state) ==
    CASE state \in {"cancelled", "cancel_requested"} -> "cancelled"
      [] state \in {"failed", "succeeded"} -> state
      [] OTHER -> "unknown"

\* Mutant: the last record itself is given as the result.
MutRecoveredStatus(state) == state

\* interruptedToolResults(): what the last lifecycle record lets one say.
RecoveredStatus(state) ==
    CASE state \in {"not_started", "cancelled"} -> "cancelled"
      [] state \in {"side_effect_committed", "succeeded"} -> "succeeded"
      [] state = "failed" -> "failed"
      [] OTHER -> "unknown"

\* The next record of the call reaches the file.
Flush(c) ==
    /\ alive /\ queue[c] # <<>>
    /\ queue' = [queue EXCEPT ![c] = Tail(@)]
    /\ IF Head(queue[c]) = "answer"
       THEN answer' = [answer EXCEPT ![c] = outcome[c]] /\ UNCHANGED fact
       ELSE fact' = [fact EXCEPT ![c] = Head(queue[c])] /\ UNCHANGED answer
    /\ UNCHANGED <<kind, stage, latest, outcome, codeVars, permVars, workVars, turnVars>>

-----------------------------------------------------------------------------
(* execute(), from await to await. *)

\* tool_call, then not_started.
Receive(c) ==
    /\ alive /\ stage[c] = "new"
    /\ Goes(c, "noted")
    /\ queue' = [queue EXCEPT ![c] = <<"called", "not_started">>]
    /\ UNCHANGED <<kind, latest, outcome, codeVars, fileVars, permVars, workVars, turnVars>>

\* admitToolCall() counts the call whether or not it then refuses it.
Repeats(c) == LET same == Cardinality({d \in charged : kind[d] = kind[c]}) + 1
                  restored == IF spent.repeats = 0 THEN 0
                              ELSE spent.repeats + Cardinality(charged) + 1
              IN IF same > restored THEN same ELSE restored

OverBudget(c) == \/ spent.calls + Cardinality(charged) + 1 > MaxToolCalls
                 \/ Repeats(c) > MaxRepeatedActions

Admit(c) ==
    /\ alive /\ stage[c] = "noted" /\ ~ Pending(c, "not_started") /\ ~ aborted
    /\ charged' = charged \cup {c}
    /\ IF OverBudget(c) THEN FinishFreed(c, "failed")
       ELSE Goes(c, "queued") /\ UNCHANGED <<latest, outcome, queue>>
    /\ UNCHANGED <<kind, codeVars, fileVars, permVars, workVars, aborted, turn, spent, alive>>

\* execute() has returned: the result is in the file.
Over == {"finished", "freed"}
Done(c) == stage[c] \in Over /\ answer[c] # "none"

\* The calls that have a place in the admission scheduler.
Piped == {d \in Call : stage[d] \notin {"new", "noted", "queued", "freed"} /\ ~ Done(d)}

\* Mutant: "running" is noted in memory and not written.
MutBegin(c) ==
    /\ alive /\ stage[c] = "queued" /\ ~ aborted
    /\ Cardinality(Piped) < Slots
    /\ Goes(c, "admitted") /\ latest' = [latest EXCEPT ![c] = "running"]
    /\ UNCHANGED <<kind, outcome, queue, codeVars, fileVars, permVars, workVars, turnVars>>

\* The admission scheduler has a free place: "running" is written first.
Begin(c) ==
    /\ alive /\ stage[c] = "queued" /\ ~ aborted
    /\ Cardinality(Piped) < Slots
    /\ Goes(c, "admitted") /\ Noted(c, "running")
    /\ UNCHANGED <<kind, outcome, codeVars, fileVars, permVars, workVars, turnVars>>

Ready(c) == alive /\ stage[c] = "admitted" /\ ~ Pending(c, "running")

PreviewOf(k) == IF k.file \in File THEN disk[k.file] ELSE 0

\* The call is prepared, its target is previewed and the manager judges it.
Judge(c) ==
    /\ Ready(c) /\ ~ aborted
    /\ shown' = [shown EXCEPT ![c] = PreviewOf(kind[c])]
    /\ \/ Denies(kind[c], mode) /\ Finish(c, "failed")
       \/ /\ Allows(kind[c], mode, grants) /\ Goes(c, "waiting")
          /\ UNCHANGED <<latest, outcome, queue>>
       \/ /\ Asks(kind[c], mode, grants) /\ Goes(c, "gated")
          /\ UNCHANGED <<latest, outcome, queue>>
    /\ UNCHANGED <<kind, codeVars, fileVars, permVars, disk, snapshot, turnVars>>

PrepareFails(c) ==
    /\ Ready(c) /\ Finish(c, "failed")
    /\ UNCHANGED <<kind, codeVars, fileVars, permVars, workVars, turnVars>>

\* resolveExecution of an external tool ignores the abort for 500 ms.
PrepareHangs(c) ==
    /\ Ready(c) /\ aborted /\ kind[c].source = "external"
    /\ code' = [code EXCEPT ![c] = "stuck"]
    /\ Finish(c, "unknown")
    /\ UNCHANGED <<kind, effect, fileVars, permVars, workVars, turnVars>>

\* The gate lets one call in at a time, and judges it once more.
OpenGate(c) ==
    /\ alive /\ stage[c] = "gated" /\ ~ aborted
    /\ \A d \in Call : stage[d] # "asking"
    /\ \/ Denies(kind[c], mode) /\ Finish(c, "failed")
       \/ /\ Allows(kind[c], mode, grants) /\ Goes(c, "waiting")
          /\ UNCHANGED <<latest, outcome, queue>>
       \/ /\ Asks(kind[c], mode, grants) /\ Goes(c, "asking")
          /\ UNCHANGED <<latest, outcome, queue>>
    /\ UNCHANGED <<kind, codeVars, fileVars, permVars, workVars, turnVars>>

Approve(c) ==
    /\ alive /\ stage[c] = "asking" /\ ~ aborted
    /\ \E scope \in AnswerScopes, next \in AnswerModes \cup {mode} :
          /\ approved' = [approved EXCEPT ![c] = scope]
          /\ grants' = grants \cup GrantKeys(kind[c], scope)
          /\ mode' = next
    /\ Goes(c, "waiting")
    /\ UNCHANGED <<kind, latest, outcome, queue, codeVars, fileVars, workVars, turnVars>>

\* Also an approval of a critical call without the full "yes".
Refuse(c) ==
    /\ alive /\ stage[c] = "asking" /\ ~ aborted
    /\ Finish(c, "failed")
    /\ UNCHANGED <<kind, codeVars, fileVars, permVars, workVars, turnVars>>

Conflict(k, l) == /\ k.reach \cap l.reach # {}
                  /\ k.action # "read" \/ l.action # "read"

Holders == {d \in Call : stage[d] \in {"hooking", "saving", "running"}}

MayStart(c) == /\ alive /\ stage[c] = "waiting" /\ ~ aborted
               /\ \A d \in Holders : ~ Conflict(kind[c], kind[d])

Start(c) ==
    /\ MayStart(c) /\ PreviewOf(kind[c]) = shown[c]
    /\ Goes(c, "hooking")
    /\ UNCHANGED <<kind, latest, outcome, queue, codeVars, fileVars, permVars, workVars, turnVars>>

\* Mutant: the call is turned back, its rule stays.
MutStartStale(c) ==
    /\ MayStart(c) /\ PreviewOf(kind[c]) # shown[c]
    /\ approved' = [approved EXCEPT ![c] = "none"]
    /\ Goes(c, "wrapping")
    /\ UNCHANGED <<kind, latest, outcome, queue, codeVars, fileVars, mode, grants, workVars,
                   turnVars>>

\* The target is no longer what the preview showed: the approval is revoked.
StartStale(c) ==
    /\ MayStart(c) /\ PreviewOf(kind[c]) # shown[c]
    /\ grants' = grants \ GrantKeys(kind[c], approved[c])
    /\ approved' = [approved EXCEPT ![c] = "none"]
    /\ Goes(c, "wrapping")
    /\ UNCHANGED <<kind, latest, outcome, queue, codeVars, fileVars, mode, workVars, turnVars>>

HookBlocks(c) ==
    /\ alive /\ stage[c] = "hooking"
    /\ Goes(c, "wrapping")
    /\ UNCHANGED <<kind, latest, outcome, queue, codeVars, fileVars, permVars, workVars, turnVars>>

\* ensureCheckpoint() sets its flag before it awaits the snapshot, and does
\* not look at the signal.
MustSave(k) == k.action = "write" /\ snapshot = "none"

Save(c) ==
    /\ alive /\ stage[c] = "hooking" /\ MustSave(kind[c])
    /\ snapshot' = "taking" /\ Goes(c, "saving")
    /\ UNCHANGED <<kind, latest, outcome, queue, codeVars, fileVars, permVars, shown, disk, turnVars>>

Launches(c) == code' = [code EXCEPT ![c] = "running"] /\ Goes(c, "running")

Launch(c) ==
    /\ alive /\ stage[c] = "hooking" /\ ~ aborted /\ ~ MustSave(kind[c])
    /\ Launches(c)
    /\ UNCHANGED <<kind, latest, outcome, queue, effect, fileVars, permVars, workVars, turnVars>>

Saved(c) ==
    /\ alive /\ stage[c] = "saving"
    /\ snapshot' = "taken"
    /\ IF aborted THEN Finish(c, "cancelled") /\ UNCHANGED code
       ELSE Launches(c) /\ UNCHANGED <<latest, outcome, queue>>
    /\ UNCHANGED <<kind, effect, fileVars, permVars, shown, disk, turnVars>>

-----------------------------------------------------------------------------
(* The tool's own code, and executeResolvedTool() around it. *)

\* File tools are given the approved version and report their commit.
Reports(k) == k.source = "builtin" /\ k.action = "write" /\ k.file \in File

Commit(c) ==
    /\ alive /\ code[c] = "running" /\ Reports(kind[c]) /\ ~ effect[c]
    /\ disk[kind[c].file] = shown[c] /\ disk[kind[c].file] < MaxVersion
    /\ effect' = [effect EXCEPT ![c] = TRUE]
    /\ disk' = [disk EXCEPT ![kind[c].file] = @ + 1]
    /\ Noted(c, "side_effect_committed")
    /\ UNCHANGED <<kind, stage, outcome, code, fileVars, permVars, shown, snapshot, turnVars>>

\* The code has come to an end or is left to itself, and says so first.
Ends(c, how, status) ==
    /\ code' = [code EXCEPT ![c] = how]
    /\ Finish(c, status)
    /\ UNCHANGED <<kind, effect, fileVars, permVars, workVars, turnVars>>

Succeed(c) ==
    /\ alive /\ code[c] = "running" /\ (Reports(kind[c]) => effect[c])
    /\ Ends(c, "returned", "succeeded")

Fail(c) == alive /\ code[c] = "running" /\ Ends(c, "ended", "failed")

StoppedStatus(c) == IF kind[c].repeatable /\ ~ effect[c] THEN "cancelled" ELSE "unknown"

\* Whatever the code throws after the abort counts as the abort, and so does
\* an AbortError of the code's own.
Stop(c) == alive /\ code[c] = "running" /\ Ends(c, "ended", StoppedStatus(c))

\* An external tool that does not settle within 500 ms of the abort.
Quarantine(c) ==
    /\ alive /\ code[c] = "running" /\ aborted /\ kind[c].source = "external"
    /\ Ends(c, "adrift", "unknown")

\* The capability store gives an external tool up after 120 s.
TimeOut(c) ==
    /\ alive /\ code[c] = "running" /\ kind[c].source = "external"
    /\ Ends(c, "lost", IF aborted THEN StoppedStatus(c) ELSE "failed")

Settle(c) ==
    /\ code[c] \in {"adrift", "lost", "stuck"}
    /\ code' = [code EXCEPT ![c] = "ended"]
    /\ UNCHANGED <<kind, callVars, effect, fileVars, permVars, workVars, turnVars>>

-----------------------------------------------------------------------------
(* The end of a call. *)

\* An outcome without a status, after diagnostics and hooks.
Wrap(c) ==
    /\ alive /\ stage[c] = "wrapping"
    /\ Finish(c, TerminalStatus(latest[c]))
    /\ UNCHANGED <<kind, codeVars, fileVars, permVars, workVars, turnVars>>

\* Mutant: nobody listens to the signal while the user is asked.
MutCutShort(c) ==
    /\ alive /\ aborted
    /\ \/ stage[c] \in {"queued", "gated", "waiting", "hooking"}
       \/ stage[c] = "noted" /\ ~ Pending(c, "not_started")
       \/ Ready(c)
    /\ FinishFreed(c, "cancelled") \/ (stage[c] = "hooking" /\ Finish(c, "cancelled"))
    /\ UNCHANGED <<kind, codeVars, fileVars, permVars, workVars, turnVars>>

\* The signal ends every wait before the code has started; execute() finishes
\* the call where it catches the abort, or, with its place, where the tool
\* should have run.
CutShort(c) ==
    /\ alive /\ aborted
    /\ \/ stage[c] \in {"queued", "gated", "asking", "waiting", "hooking"}
       \/ stage[c] = "noted" /\ ~ Pending(c, "not_started")
       \/ Ready(c)
    /\ FinishFreed(c, "cancelled") \/ (stage[c] = "hooking" /\ Finish(c, "cancelled"))
    /\ UNCHANGED <<kind, codeVars, fileVars, permVars, workVars, turnVars>>

-----------------------------------------------------------------------------
(* The turn, the user, the process. *)

\* The listeners of the calls that are running note the request.
Abort ==
    /\ alive /\ ~ aborted
    /\ aborted' = TRUE
    /\ LET told == {c \in Call : /\ stage[c] # "new"
                                 /\ latest[c] \in {"running", "side_effect_committed"}}
       IN /\ latest' = [c \in Call |-> IF c \in told THEN "cancel_requested" ELSE latest[c]]
          /\ queue' = [c \in Call |-> IF c \in told THEN Append(queue[c], "cancel_requested")
                                      ELSE queue[c]]
    /\ UNCHANGED <<kind, stage, outcome, codeVars, fileVars, permVars, workVars,
                   turn, charged, spent, alive>>

Unspent == [calls |-> 0, repeats |-> 0]

\* Mutant: a new turn begins beside a quarantined tool.
MutNextTurn ==
    /\ alive /\ turn < MaxTurns
    /\ \A c \in Call : stage[c] = "new" \/ Done(c)
    /\ \E c \in Call : Done(c)
    /\ turn' = turn + 1 /\ aborted' = FALSE /\ charged' = {} /\ spent' = Unspent
    /\ snapshot' = "none"
    /\ UNCHANGED <<kind, callVars, codeVars, fileVars, permVars, shown, disk, alive>>

\* beginOperation() refuses while a quarantined tool has not settled.
NextTurn ==
    /\ alive /\ turn < MaxTurns
    /\ \A c \in Call : (stage[c] = "new" \/ Done(c)) /\ code[c] \notin {"adrift", "stuck"}
    /\ \E c \in Call : Done(c)
    /\ turn' = turn + 1 /\ aborted' = FALSE /\ charged' = {} /\ spent' = Unspent
    /\ snapshot' = "none"
    /\ UNCHANGED <<kind, callVars, codeVars, fileVars, permVars, shown, disk, alive>>

Edit(f) ==
    /\ disk[f] < MaxVersion
    /\ disk' = [disk EXCEPT ![f] = @ + 1]
    /\ UNCHANGED <<kind, callVars, codeVars, fileVars, permVars, shown, snapshot, turnVars>>

\* Memory is gone, and with it the code that was running.
Crash ==
    /\ alive /\ alive' = FALSE
    /\ stage' = [c \in Call |-> "new"] /\ latest' = [c \in Call |-> "not_started"]
    /\ outcome' = [c \in Call |-> "none"] /\ queue' = [c \in Call |-> <<>>]
    /\ code' = [c \in Call |-> IF code[c] \in {"none", "returned"} THEN code[c] ELSE "ended"]
    /\ mode' = FirstMode /\ grants' = {} /\ approved' = [c \in Call |-> "none"]
    /\ shown' = [c \in Call |-> 0] /\ snapshot' = "none"
    /\ charged' = {} /\ spent' = Unspent /\ aborted' = FALSE /\ turn' = 1
    /\ UNCHANGED <<kind, effect, fileVars, disk>>

\* The next process writes the missing result of each recorded call.
Recover(c) ==
    /\ ~ alive /\ fact[c] # "none" /\ answer[c] = "none"
    /\ answer' = [answer EXCEPT ![c] = RecoveredStatus(fact[c])]
    /\ UNCHANGED <<kind, callVars, codeVars, fact, permVars, workVars, turnVars>>

Advance(c) ==
    \/ Flush(c) \/ Admit(c) \/ Begin(c) \/ Judge(c) \/ PrepareFails(c) \/ PrepareHangs(c)
    \/ OpenGate(c) \/ Start(c) \/ StartStale(c) \/ HookBlocks(c) \/ Save(c) \/ Launch(c)
    \/ Saved(c) \/ Wrap(c) \/ CutShort(c)

Run(c) == Commit(c) \/ Succeed(c) \/ Fail(c) \/ Stop(c) \/ Quarantine(c) \/ TimeOut(c)

CallStep(c) ==
    Receive(c) \/ Advance(c) \/ Approve(c) \/ Refuse(c) \/ Run(c) \/ Settle(c) \/ Recover(c)

Next ==
    \/ \E c \in Call : CallStep(c)
    \/ Abort \/ NextTurn \/ Crash
    \/ \E f \in File : Edit(f)

Spec == Init /\ [][Next]_vars

\* The process goes on; a built-in tool ends once it is aborted, an external
\* one is left behind after 500 ms; a session that is opened is recovered.
FairSpec ==
    /\ Spec
    /\ \A c \in Call : /\ WF_vars(Advance(c))
                       /\ WF_vars(aborted /\ (Stop(c) \/ Quarantine(c)))
                       /\ WF_vars(Recover(c))

-----------------------------------------------------------------------------
(* Properties. *)

\* A call that may not be repeated is "cancelled" only if its code never
\* ran, and "succeeded" only if it returned or its commit was recorded.
Harmless(c) == code[c] = "none" \/ (kind[c].repeatable /\ ~ effect[c])
Proven(c) == code[c] = "returned" \/ effect[c]

\* The results that a session's file gives of its calls, written by the run
\* itself (finish, executeResolvedTool) or recovered from the last lifecycle
\* record after a crash (interruptedToolResults), never call a call cancelled
\* that may have acted, nor successful one that has not.
VerdictsTrue ==
    \A c \in Call : /\ answer[c] = "cancelled" => Harmless(c)
                    /\ answer[c] = "succeeded" => Proven(c)

\* The code of a call never runs while that of a conflicting one does, in the
\* same turn or left behind by an earlier one; the exception is code that the
\* capability store has timed out, of which nobody keeps track.
NoOverlap ==
    \A c, d \in Call :
        c # d /\ code[c] = "running" /\ code[d] \in {"running", "adrift"}
        => ~ Conflict(kind[c], kind[d])

\* Code of a critical call has a standing approval given for that very call,
\* whatever mode was chosen or rule granted meanwhile.
CriticalAsked ==
    \A c \in Call : kind[c].level = "critical" /\ code[c] = "running"
                    => approved[c] # "none"

\* A session rule exists only as long as an approval that made it: one that
\* turned out to be given for another content of the file leaves none behind.
GrantsBacked ==
    \A g \in grants : \E c \in Call : g \in GrantKeys(kind[c], approved[c])

\* Every call in the session's file gets its result when the turn is aborted
\* or the process dies, wherever it was.
CallsGetResults ==
    \A c \in Call : (fact[c] # "none" /\ (aborted \/ ~ alive)) ~> answer[c] # "none"

\* The result is the last thing that the file says of a call, and is said
\* once: whatever ends the call a second time, an abort, a timeout or the next
\* process, neither replaces the result nor adds a record behind it.  (Only
\* tools that are awaited to their end report states of their own.)
LastWord ==
    [][\A c \in Call : answer[c] # "none"
                       => answer'[c] = answer[c] /\ fact'[c] = fact[c]]_vars

\* The calls that the scheduler of the resources knows of: the waiting ones
\* and those that it has started.
AtResources == {c \in Call : stage[c] = "waiting"} \cup Holders

\* At most maxConcurrentTools calls are in the pipeline, and so at the
\* scheduler of the resources, whose queue is never full
\* (toolExecutionCoordinator.ts 197-199).
PipelineBound ==
    /\ IsFiniteSet(Piped) /\ Cardinality(Piped) <= Slots
    /\ AtResources \subseteq Piped

\* What the calls do with their resources is what the scheduler allows.
Resources == INSTANCE SchedulerContract
    WITH running <- Holders,
         clash <- {p \in Call \X Call : Conflict(kind[p[1]], kind[p[2]])}

ImplementsContract == Resources!ContractSpec

\* A call that waits may start exactly when the scheduler's contract lets it:
\* that MayStart does not count the slots leaves no call out.
StartsByContract ==
    \A c \in Call : alive /\ ~ aborted /\ stage[c] = "waiting"
                    => (MayStart(c) <=> Resources!MayRun(c))

\* The snapshot to which /undo goes back is complete before code
\* that writes files is started.
SnapshotFirst ==
    \A c \in Call : kind[c].action = "write" /\ code[c] = "running" => snapshot = "taken"
=============================================================================
