# A formal model of Biny

Biny is a local AI agent: a *Runtime Host* process per workspace owns sessions,
runs and background work; a desktop application, a TUI and a CLI are its
clients. This directory holds TLA+ models of the parts of it that coordinate
concurrent work or survive crashes, the TLC configurations that check them on
small instances, and proofs, checked by TLAPS, that the central safety
properties hold for every value of the constants. `PROJECT.json` records for
every definition the source lines it models, and for every property a mutant
of the model that breaks it.

Paths below are relative to the repository's `src/`.

## 1. The system

| Part | State it keeps | Operations | What makes it correct |
|---|---|---|---|
| Tool scheduler (`tools/scheduler.ts`, `tools/access.ts`) | queue of calls, running calls, abort listeners | schedule, pump, start, finish, abort | conflicting calls exclude each other and keep their order; no call is forgotten |
| Interactive run (`runtime/InteractiveAgentRuntime.ts`, `agent/AgentSession.ts`) | active run, pending permission, abort signal | submit, resume, cancel, answer, close, maintenance | one writer, one execution per run id, one terminal outcome |
| Run authority (`runtime/RuntimeAuthority.ts`) | SQLite rows of runs, event log, continuation claims | startRun, finishRun, claims, reconciliation at open | rows follow the canonical facts of the session file |
| Run ledger, turn store (`session/runLedger.ts`, `session/turnStore.ts`) | JSON files: status per run, checkpoint of an interrupted turn | start, finish, list with repair; save, clear | projections never contradict the canonical fact |
| Session lease (`runtime/SessionLease.ts`) | one lock file per session | acquire, reclaim, release | one process writes a session |
| Goal graph, TaskRuns (`runtime/GoalGraphStore.ts`, `runtime/TaskRunStore.ts`) | SQLite rows of goals, graphs, nodes, tasks, attempts | start, pause, update, cancel; supervisor tick; recovery | no node is executed twice, early, or reported done when it was not |
| Subagent tasks (`runtime/SubagentTaskManager.ts`) | child tasks, queue, slot counter, timers | submit, drain, cancel, cancelParent, time out, close | slots exactly counted, cancels reach, ends stand |
| Automation scheduler (`runtime/AutomationScheduler.ts`) | SQLite rows of automations and fires | claim, defer, complete, fail, pause, resume, recover | a fire is run at most once, is completed only if its run is and is never left out of the count; repeated failures stop an automation |
| Runtime Host (`runtime/RuntimeHost.ts`) | host lock, registration, operation lanes, event history, connections | elect, dispatch, publish, subscribe, reconnect, restart | one owner; clients miss no event silently |
| Capability store (`runtime/CapabilityStore.ts`) | registrations, invocations | register, invoke, result, chunk, cancel, release | an invocation ends once; only the owner answers it |
| Managed processes (`runtime/ManagedProcessService.ts`) | records of child processes, their logs | start, stop, close | nothing outlives the runtime |
| Tool execution coordinator, permissions (`agent/toolExecutionCoordinator.ts`, `permission/*`) | calls of a turn, rules, session grants | admit, ask, execute, record; grant, revoke | nothing runs unapproved; every call has a terminal result |
| Session recorder and store (`session/recorder.ts`, `session/store.ts`) | append-only JSONL, queue of writes, next sequence number | record, record and flush, close | events keep their order and have unique numbers |
| Agent loop, completion gate (`agent/core/agentLoop.ts`, `agent/completionGate.ts`) | messages, steps, verification evidence | stream, execute tools, gate | a turn ends with a justified outcome |
| Event queues (`runtime/AsyncEventQueue.ts`, `runtime/AgentEventBus.ts`) | buffered values, waiters | push, pull, close, error | no value is lost |
| The rest: context and memory, catalog and archives, checkpoints, tools, extensions, providers, configuration, UI | files, prompts, HTTP, screens | — | mostly I/O and text |

How they interact. A client submits a prompt over the Host's socket. The Host
dispatches it to the session's `InteractiveAgentRuntime`, which takes the
session lease, admits the run in the authority, writes the ledger and starts
the turn. The turn loop calls the model and hands its tool calls to the
coordinator, which asks for permission and lets the tool scheduler decide when
each call may start. `delegate_task` is such a tool: its calls become tasks of
the subagent manager and follow the run's abort signal. When the turn ends,
`AgentSession` appends one `turn_status` line to the session's JSONL: the
*canonical terminal fact*. Authority row, ledger entry and the terminal event
to clients follow in this order and are repaired from the fact after a crash.
The goal supervisor and the automation scheduler submit runs of their own, the
former through TaskRuns, whenever the runtime is idle.

Where it is hard:

* one JavaScript thread, but every `await` is a point where a cancel, a
  permission answer, a close, a timer or another operation may come between;
* several processes on one session: CLI, TUI and Host share files and SQLite;
* a crash between any two of the fact, the row, the ledger, the lease file, a
  task's, node's, graph's and goal's transactions;
* late answers: a child that ignores its abort, a run that settles after its
  graph was cancelled, a cancel that arrives after the outcome was written;
* what happens while somebody is away: events published between a hello and a
  subscription, a file changed between a preview and its approval, a mode changed while a call
  waits;
* limits: queue places, slots, attempts to take a lease, the length of a history.

`PROJECT.json` lists these hazards at their lines, with the property that
covers each, or a note that says why none does.

## 2. Modules

| Module | Models | Proofs |
|---|---|---|
| `ToolAccess`, `ToolScheduler` | the scheduler and its conflict test | `ToolSchedulerProofs` |
| `RunLifecycle` | abstract: what clients are promised about a run | — |
| `SingleWriter` | abstract: who may write a session | — |
| `SchedulerContract` | abstract: when the resources are given to a call | — |
| `GraphPlan` | abstract: what a goal graph makes of its nodes | — |
| `SubagentContract` | abstract: what becomes of a child task and its code | — |
| `FireContract` | abstract: what becomes of a fire and its run | — |
| `CompletionPromise` | abstract: what a client's completion says of its run | — |
| `AgentRun` | a session's runs, from admission to settlement, with crashes | `AgentRunProofs` |
| `SessionLease` | the lock file, one action per file call | `SessionLeaseProofs` |
| `GoalGraph` | a goal graph, its TaskRuns, supervisor and recovery | `GoalGraphProofs` |
| `SubagentTasks` | the subagent task manager | `SubagentTasksProofs` |
| `ToolExecution` | a tool call from its arrival to its recorded result | `ToolExecutionProofs` |
| `HostClient` | the Runtime Host's events and requests, and a client that reconnects | `HostClientProofs` |
| `Automation` | automations, their fires, and the Hosts that execute them | `AutomationProofs` |
| `MC*` | constants of the instances TLC checks | |

### The abstract modules and the composition

The seven abstract modules of the table say what a component promises in terms
of what others see of it. Each is a few lines long, has no queue, timer, file, crash or message,
and is the form in which one component enters the argument about another:

* `SingleWriter` is implemented twice. `SessionLease` makes it out of file calls (holders: who has
  passed the verification of its own lock file), `AgentRun` runs under it (holder: the process
  while `lease` is its own, writer: while a run or maintenance is active). What one gives is what
  the other uses, so one runtime at a time writes a
  session, until a reclaimer robs a live holder (finding 3): from there on the lease gives nothing,
  and what is shown of `AgentRun` holds of each process that has not been robbed.
* `SchedulerContract` is implemented twice too: by `ToolScheduler`, where the queue, the pump and the
  listeners are, and by `ToolExecution`, where a call that waits for the scheduler starts
  when the contract allows it (`StartIsContracts`) and everything else that happens to a call is.
  `ToolExecution` does not count slots: at most `maxConcurrentTools` calls are in the pipeline
  before the scheduler (`PipelineBounded`), which is the reason the source gives for a queue that
  is never full.
* `GraphPlan`, `SubagentContract`, `FireContract` and `CompletionPromise` describe each node, task, fire
  or completion on its own: a conjunction over all of them in which each moves or stays, since one
  handler, transaction or crash of the detailed module moves several at once.
* `RunLifecycle` is what `AgentRun` shows to clients, and `CompletionPromise` what `HostClient`
  makes of it on the other side of the socket.

### ToolScheduler

JavaScript runs a method of the scheduler to its end, but `pump()` starts calls
one at a time and `start()` may throw or run listeners, so the pump is a loop of
steps, guarded by the source's own flag `pumping`; while it is set, or while
abort listeners are outstanding (`aborting`), no handler is entered. `queue`
holds a call until it has finished, as in the source; `ticket` is its position
there. `ToolAccess` models a path as a sequence of names; the textual test
`!relative.startsWith("..")` is represented by `DotDotNames`, the names for which
it misjudges a child.

### ToolExecution

`stage` is the await at which the `execute()` of each call stands: admission and budget,
preparation, the permission gate, the user, the scheduler, the check of the preview, the
hooks, the turn's snapshot, the code, the result, the end. A call that has made its result keeps
its place in the admission scheduler until the result is written (`finished`); one that had no place,
or whose start threw, ends without (`freed`). `Piped` is the calls that have a place. The scheduler appears as what `ToolScheduler`
is shown to give: no two conflicting calls at once (`Holders`, `MayStart`). `queue` holds
the records of a call that are behind the recorder's write barrier, `fact` what is in the
file; a `Crash` loses the former, and `Recover` writes the results that
`interruptedToolResults` gives the calls that have none. `code` follows
the tool's own code, which may go on after its call has ended: an external tool that ignores
the abort is quarantined (`adrift`), one that the capability store gives up after 120 s is
forgotten (`lost`). A preview is the version of its file, which others change
(`Edit`, up to `MaxVersion`). A user answers with any scope of `AnswerScopes` and may
change the mode; `grants` are the session's rules, with the keys that
`isAllowedBySession` compares.

Left out: the texts of results and their budget, diagnostics, archives, repeated call ids, a
full queue, `allowPaths` and the git inspection, which work like `allowTools` and a low-risk
read. How a request's level of risk is found is an input.

### HostClient

A Host and one of its clients, after `connect()`. `toHost` and `toClient` are the socket. A
lost connection loses what has not been read on either side. `stage` is the await at which
each `reconnect()` stands; a second one may start while the first is under way, since the
timer does not know of it. A client handles what is due in a macrotask before other input
(`Calm`); `Disconnected` is the close handler, which fails the requests that were sent.
`heard` is not in the code: all events since the hello up to that number were handled. A Host
that dies (`Die`) is replaced by one that reads the journal, whose tail may be missing, and
whose authority has closed the runs that the session file shows as ended. The history it
restores may also miss lines in the middle (`Restored`): the journal is read for one session only, and the
failure of a single write is swallowed. Of the runs the module has what `AgentRun` shows: admitted,
going, ended in the authority, announced, settled, or hushed. `Hush` is the end that nobody is
told of: the run's completion is rejected in the Host, because `commitTerminal` threw for
`failUncaughtRun` as well (finding 2 is one way there), and `trackCompletion` swallows that
(`RuntimeHost.ts:1200`). The row stays open, the runtime may stay busy, no frame is sent, and the client
waits as long as that Host lives, through every reconnect, since `run.inspect` shows a run that is not over.

Left out: other operations, other clients, the election of an owner (a registration
is found), `close()` and `restartOwner()`, capability offers, limits of frames. `before` is kept only
while it is needed; `MaxEvents`, `MaxSockets` and `MaxHosts` bound events, connections and
processes; the theorems hold for any bounds.

### AgentRun and RunLifecycle

One session of one runtime process. `pc` names the await at which the run's
coroutine stands; `fact`, `row`, `ledger`, `checkpoint` and `lease` are on disk
and survive `Crash`. An outcome is a status and a note that stands for the
fields `sameTerminalOutcome` compares. `Faults` says which calls may fail
(ledger writes, skill expansion, checkpoint writes, the event sink, the
authority, the context status). `Restart` reconciles the rows from the facts as
`RuntimeEventAuthority.open` does; another process may take the lease whenever it
is free. Mapped to `RunLifecycle`, every step is one of its four actions (admit, conclude,
project, tell) or a stutter: `ImplementsLifecycle`.

The lease is one variable here, with the meaning that `SingleWriter` gives it: mapped to
that module, a step lets the session be taken, worked on or left, or stutters
(`ImplementsSingleWriter`), and so is every step of `SessionLease`, where the lease is a file.

### SessionLease

Processes that acquire, reclaim and release one lock file. Each file call is
an action: exclusive creation, writing the owner, verification, reading, asking whether
the owner lives, the identity check and the rename of a dead process's file, the look and the
unlink of release. A process may crash at each of them, and nothing keeps two survivors
from reclaiming at the same time. Then one may take away the lock file of the other, which
is live and not the one it judged; `existing[p]` is the process named by the lease p read, and the
history variable `robbed`, which the code does not have, records each such loss together with
where the victim was. Everything shown is relative to it and to no assumption on
who reclaims when: `OneHolder` and the refinement of `SingleWriter` hold until the first robbery
of a holder (which is, for `SingleWriter`, the moment the holder leaves), and
`OnlyOwnOrDeadRemoved` accounts for every disappearance of a lock file, before and after.

### GoalGraph

A graph with its goal and, for each node, the TaskRun, its latest attempt and
the AgentRun's row. The Host is one event loop; `turn` says how far the current
asynchronous operation is, and between two of its transactions the Host may
crash. While a node executes (`turn = "settle"`) the loop is free and client
operations are served. `MaxRestarts` bounds crashes and runtime rebuilds.
`StartHost` and `Rebuild` start the recovery, which visits the running nodes of
running graphs and decides from the authority's row whether the node's run is
proved, never dispatched, or unknown.

Left out: wakes, which gate nothing; artifacts; `goal.create` and `plan.create`
(a behaviour starts with a fresh graph with a goal); `task.retry`, which the
Host always refuses; a rebuild while a node is executing, and what happens between
the look that finds the runtime idle and the new runtime (`RuntimeHost.ts:1249`). Node keys that exist
and an acyclic graph are chosen by the instance; the theorems need neither.

### SubagentTasks

`drain()` is at the end of every handler, so it is an operator that takes what the
handler made of the variables. An observer of the notification "running" may
cancel the task before its code starts: those tasks are `vetoed`. A child's code
settles when it likes (`Return`), long after its task was aborted, and keeps its
slot until then. The queue is a set with, for each entry, the entries `ahead` of it.
Left out: observers that cancel other tasks or close the manager from
inside a notification, and the history of 200 ended tasks.

### Automation

The rows of automations and fires, and the processes that own the workspace one
after the other. A Host that was stopped has let go of the lock but goes on with its
queue until its process exits, so two executors work on the same rows. `executeFire` is split at its
awaits: the rebuild of the runtime (`building`), the switch of session
(`preparing`) and the run (`running`).

`completeFire`, `failFire`, `deferFire` and `bindFireRun` look at the fire (and `failFire` at the number of
failures) before the transaction in which they write, and the write has no
condition. They are two or three steps here, `InStore` names the places between them, `read[h]` is the number
that `failFire` has read, and the other process takes its steps in between. The recovery does the same:
it has read its list of running fires (`todo`) before it visits the first. `claimFire` writes only what is
still waiting and is one step. When a look finds a fire that is no longer running,
`LookOrStop` and `Throws` follow the exception: an executor goes on to `failFire` and then gives up, a
recovery lets `start()` fail and the Host with it. `RunRejects` is a run whose completion is rejected:
the executor fails its fire, though the run's row is still open and its fact may say
completed. `Submit` and `BindFireRun` are two writes, so a crash may leave a submitted run that its fire does
not name; the recovery then asks a person (`AskPerson`).

A time is what the code asks of it (due, later, none), and the clock may
make it due at any moment. `later[f]` is a deferral, `onTime[f]` the row that
`INSERT OR IGNORE` finds again when a once automation is resumed. `Fire` is the rows that may be
inserted and bounds the model; `MaxWaiting` bounds what is told apart of the
entries of one fire in a queue, which every tick adds to. `submits` and `counted` are history.

Clients' operations and ticks are one step each. They belong to the one Host that is up and run
without an await, but the other process could still write between their read and their write; what it
writes comes before or after them here.

Left out besides: the limit of 32 fires for each tick, cron expressions, jitter, errors of
SQLite.

## 3. What is checked

| Run | Instance | Shows |
|---|---|---|
| `tool_scheduler` | 5 calls, 2 signals, 2 slots, 2 places, one name that begins with `..` | submission order, work conservation, every call is answered, refinement of `SchedulerContract` (exclusion, slots) |
| `tool_execution` | 2 calls of 5 pairs of kinds, 2 turns, a changing file, a crash | a result never says less or more than what may have happened, conflicting code never overlaps, a critical call is asked about, a rule has a standing approval, every recorded call gets its result |
| `tool_execution_snapshot` | 2 writes of 2 files | finding 1 |
| `agent_run` | 2 run ids, every fault, every outcome of the gate | one execution, no stale checkpoint, ledger and row follow the fact, a start is never refused, refinement of `RunLifecycle` and of `SingleWriter`, a cancelled run settles without an answer to its permission |
| `agent_run_late_cancel` | 1 run id, no fault | finding 2 |
| `session_lease` | 4 processes, 2 attempts | refinement of `SingleWriter` until a reclaimer robs a holder; how every lock file that disappears did so |
| `session_lease_reclaim` | the same | finding 3 |
| `goal_graph` | 3 nodes, one after the other two; 2 crashes or rebuilds | at most one AgentRun per node, refinement of `GraphPlan` (order, nothing is reported done that was not, ends stand), a running graph settles |
| `goal_graph_orphan` | the same | finding 4 |
| `subagent_tasks` | 5 tasks, 2 of one run; 2 slots, 2 places | slots exactly counted, none idle while a task waits, every task settles, refinement of `SubagentContract` (code runs once, cancels reach, ends stand) |
| `automation` | 1 automation, an interval or a heartbeat with one fire at most; 2 fires, 2 processes, 2 failures stop it | a fire is run at most once; refinement of `FireContract` (not run after it was reported over, completed only if its run is, an end written over only by an operation that had seen the fire running); no completed fire is missing from the count, none is in it three times; repeated failures stop an automation |
| `host_client` | 1 run, 2 reconnects at a time, a history of 1 event, 3 connections, 2 Hosts | within a connection no event is passed over in silence; a completion settles, unless the Host's own was rejected; refinement of `CompletionPromise` (it says what the authority holds, once) |

Why the bounds are enough. The scheduler's instance has every relation two
accesses can be in (equal, above, unrelated, everything), more calls than slots and
places together, and two signals, so that one abort leaves other calls behind. Two
run ids are what it takes for one run to resume the other's checkpoint and
for a ledger entry of a dead run beside a live run. Four processes allow a dead
owner, two that want to reclaim and one that comes last. Two independent nodes and a
third that needs both are the smallest graph with a choice, a join and a node that
stays behind; two restarts allow a crash during the recovery from a crash. Five
tasks fill two slots and two places and leave one to be refused. Two
processes are a Host that was stopped and the one that takes over; two fires let one
end while the other is queued, and reach `PauseAfter` and `max_fires`; one of them in the hands of both
processes is what every race between a look and a write takes. (With `once` automations as a third type
TLC finds no error either; that instance is several times as large.) A history of one event makes
every boundary of `canReplay` occur with two events more; three connections let a reconnect
lose its connection too, and two reconnects subscribe one connection twice. Two
calls are what a rule, a quarantine and a snapshot need to reach from one call to the other;
the five pairs have a write beside a write, a critical command and an external tool, and two
critical commands of which one is the other's approval. Symmetry is
used only for safety properties.

Fairness.

* Scheduler: weak fairness of the pump and of each call's step and listener. The
  first and last are synchronous code; a started call returns because every tool is
  bounded by the abort signal and its timeouts.
* Runs: weak fairness of the run's own file and database steps, and of the turn
  letting go once the signal has fired. Nothing is assumed of users, of the model or
  of a turn that was not cancelled.
* Graphs: weak fairness of the supervisor's and the recovery's steps, which includes
  that an AgentRun settles. `RunningGraphSettles` assumes that the Host does not
  go down: a crash after the last node's completion, before the graph's
  projection, leaves a graph running for ever.
* Subagents: timers fire. Nothing is assumed of the children's code.
* Tool calls: a live call goes on, a built-in tool ends once it is aborted, an external one is
  left behind after its 500 ms (timers), and a session whose process died is opened again.
  Nothing is assumed of users or of a tool that nobody aborts.
* Host and client: event loops handle what has arrived, the reconnect timer fires, a
  registration is found, and a run that was admitted ends or cannot be ended (`Hush`): the Host's
  completion is not assumed to resolve. Connections and Hosts are lost a
  bounded number of times; nothing says when.

Deadlock is checked for the scheduler, the run and the lease; their only ends,
all calls answered and all processes dead, are the explicit stuttering actions
`Done` and `AllDead`. `CHECK_DEADLOCK FALSE` stands where a behaviour may simply
be over: a graph that has ended, tasks that have all settled, processes that
have all exited.

## 4. Findings

Each is a run whose property quotes the repository and which TLC refutes.

1. `tool_execution_snapshot`: `ensureCheckpoint` sets its flag before it awaits the snapshot
   of the work tree; a second write, of another file, passes it and changes its file while
   the snapshot is being taken (`toolExecutionCoordinator.ts:763`), which the comment above it rules out.
2. `agent_run_late_cancel`: a cancel between the turn's `turn_status` line and the
   end of its stream asks for a second, different terminal outcome, which the
   session refuses; the run ends without a terminal event and the runtime stays
   busy (`InteractiveAgentRuntime.ts:688`).
3. `session_lease_reclaim`: `retireStaleLease` takes the identity of whatever is at
   the path when it starts; a process that lost the race for a dead lease renames the
   winner's live lease away (`SessionLease.ts:235`).
4. `goal_graph_orphan`: recovery visits only graphs that are `running`; a node that
   was executing in a graph paused before the crash is never recovered, and after
   `graph.resume` the graph runs for ever (`GoalGraphStore.ts:397`).

Two more disagreements are in the models without a run of their own. `isWithin`
(`tools/access.ts:73`) takes a child whose name begins with `..` (`..cache`) for one outside
the directory, so a recursive writer and a writer of that child may run together
(`DotDotNames`). And a client's `reconnect()` subscribes with a number that the hello has
overwritten (`RuntimeHost.ts:1863`), so what was published while it was away is not replayed,
whatever the class comment says (`RuntimeHost.ts:1269`); `NoSilentHole` counts from the hello on.

Finding 2 has its other end in the client: the completion that the Host rejects is announced to nobody,
and the one that `submitPrompt()` returned stays open while that Host lives. `CompletionSettles` excepts exactly
the runs whose `phase` is `hushed`; without the exception TLC refutes it.

## 5. What is proved

All theorems are about `Spec`, for every value of the constants that satisfies the
module's assumptions. Each module proves an inductive invariant with one
step per action and derives its theorems from it.

* `ToolSchedulerProofs`: type correctness, `NoConflictingActive`,
  `ConflictsKeepOrder`, `WorkConserving`, `QueueBound`, `NoStartAfterAbort`, and that the scheduler
  implements `SchedulerContract` (`SchedulerKeepsContract`). The
  invariant adds that every queued call has a ticket no later than the clock and a promise,
  and that the waiting list may be over-full by one call only while `pump()` is on the
  stack, with a free slot and a call that can take it (`OverfullOnlyWhileStarting`).
  `Task` is assumed finite.
* `ToolExecutionProofs`: type correctness, `VerdictsTrue`, `NoOverlap`, `CriticalAsked`,
  `GrantsBacked`, for any number of calls, turns and crashes. The invariant is one conjunction for
  each call (`CallInv`): its stage fixes which records are on disk and which are behind the
  barrier (a call that has started has said so before), which approval it has, and what its
  code may be doing; `HoldersApart` is what the scheduler's contract gives. Three more
  results rest on it. `ResultIsLastWord`: a result in the file is never replaced, and
  nothing of the call comes behind it (`Spoken`: a call that is over has either its result in the file and nothing
  behind the barrier, or the result as the last record behind it; any other live call has no result).
  `PipelineBounded`: a call enters the pipeline only where there is a free place (`PlacesKept`).
  `PipelineKeepsContract` and `StartIsContracts`: the module uses the scheduler as
  `SchedulerContract` has it, no more and no less.
* `AgentRunProofs`: type correctness, `WriterHoldsLease`, `ExecutedOnce`,
  `CompletedLeavesNoCheckpoint`, `LedgerFollowsFact`, `StartNeverRefused`,
  `ImplementsLifecycle`, `ImplementsSingleWriter`. A row that contradicts its fact would need an
  outcome that reached the row before the file; the invariant therefore says for each `pc`
  what is on disk already. For `SingleWriter` maintenance must hold the lease as
  runs do and exclude them (`Lease`).
* `SessionLeaseProofs`: type correctness, `robbed = {} => OneHolder`, `OnlyOwnOrDeadRemoved`,
  `ImplementsSingleWriter`, for any number of processes that reclaim as they like. The invariant:
  without a robbery whoever passed its verification owns the file at the path (`OwnersOwn`); whoever
  reclaims has found the process it read of dead (`ReclaimsDead`), so a live file it takes is
  another one than it judged, and that is a robbery if somebody relied on it; whoever is about to
  unlink owns the file or was robbed of it meanwhile (`UnlinksOwn`).
* `GoalGraphProofs`: type correctness, `DispatchedOnce`, `DependenciesFirst`,
  `CompletedMeansDone`, `TerminalStands`, for any graph and any number of restarts. The invariant
  relates a node to the rows behind it: a node whose run was admitted cannot go back to
  pending, because the recovery takes back a claim only when task, attempt and
  authority agree that nothing was dispatched (`Traced`, `Claimed`), and a completed
  node has a completed run (`Completed`). `RowsKeepThePlan`: every transaction is a step of
  `GraphPlan`; it needs that a node is claimed only while its
  graph runs, and its nodes are cancelled only after the graph is (`GraphTurns`).
* `SubagentTasksProofs`: type correctness, `SlotsCounted`, `NoIdleSlot`,
  `OutcomeStands`, `CancelReaches`. Each handler hands sound values to
  `drain()`, and `drain()` keeps them sound and fills the slots (`DrainFills`,
  `DrainKeeps`). `TasksKeepContract`: every handler, with the `drain()` at its end, moves every
  task as `SubagentContract` allows. Code that goes on belongs to a task that runs or was cut off, never to
  one that reported its own end (`Owed`).
* `AutomationProofs`: type correctness, `FireRunsOnce`, `CompletedFollowsRun`,
  `StopsAfterFailures`, `CountsCompletions`, and that every step is one of `FireContract`
  (`FiresKeepContract`), for any number of automations, fires and processes, with the looks and the writes
  apart. The invariant has three parts. `HInv`: one Host at a time serves, and which steps a starting, a serving and
  a stopped one may be in (`Roles`, `OneServes`). `FInv`: a fire that can be claimed has no run (`Waits`); an
  executor that has not submitted yet holds a fire that nobody can claim again and no other executor
  holds, and that has no run (`Held`, `HeldByOne`, `NotYet`), which is all that keeps a fire from running twice
  now that no write checks anything; whoever completes a fire has a completed run in front of it (`Proven`), which
  stands, so an old look is as good as a new one; and since an executor and a recovery can meet in a
  fire but not two of either, it is counted at most twice (`CountedTwice`). `CInv`: a completed fire is
  counted in the step that marks it, and whoever writes a number of failures that stops an automation
  writes the status in the same statement (`Absent`, `NoneMissing`, `StopsAfterFailures`). `FiresKeepContract` sorts the steps
  by what they do to a fire's row and run and maps each form.
  `Fire` is assumed finite, and at least one failure is allowed.
* `HostClientProofs`: type correctness, `OutcomeTrue`, `NoSilentHole`, for any number of runs,
  reconnects, connections, Hosts and any history limit. For `OutcomeTrue`, every frame and
  answer that names the end of a run says what the row says (`FramesTrue`); with it
  `PromisesKept` maps every step to `CompletionPromise`: an outcome that a completion has
  given and an end that the authority holds both stand. For
  `NoSilentHole` there is a number, the last event that the Host found in its journal, such that the
  history is dense above it (`HistoryDense`) and nobody asks from below it (`AsksAbove`): holes of the journal
  are never replayed to a connection that could take them for none. That `base` changes with every Host, so the
  invariant is `\E base \in Nat : HoleInv(base)`. Dense are also the frames on their way, each event
  being preceded by the one before it or by a frame that tells the client of it
  (`FramesDense`), and every number that a reconnect may yet subscribe from is one that the client
  has been told, or will be before the answer can arrive (`AsksFromTold`).

A run checks the refinement property instead of the invariants it includes. These are
proved all the same, and no run lists them: `NoConflictingActive`, `QueueBound`, `NoStartAfterAbort`,
`WriterHoldsLease`, `DependenciesFirst`, `CompletedMeansDone`, `TerminalStands`, `OutcomeStands`,
`CancelReaches`, `CompletedFollowsRun`, `OutcomeTrue`, and of `ToolExecution`
`LastWord`, `PipelineBound` and `ImplementsContract`. (`OneHolder` is checked where it fails, by
`session_lease_reclaim`.)

Only model-checked: the liveness properties `EveryCallAnswered`, `CallsGetResults`,
`CancelledRunSettles`, `RunningGraphSettles`, `EveryTaskSettles` and `CompletionSettles`
(liveness under fairness is outside what the prover handles), and the four findings, which are
counterexamples.

## 6. What is not modelled

`PROJECT.json` names every component with the reason. Beyond what the sections above leave
out:

* the election of the Host's owner: files, clocks and a probe of a socket whose timing
  decides. Between taking the lock and writing the registration an owner is invisible
  (`RuntimeHost.ts:2567`);
* managed processes: what becomes of them is the operating system's. `start()` checks `closing`
  once and then awaits (`ManagedProcessService.ts:175`);
* the recorder's numbering when two processes append, its queue and its close, beyond the barrier that
  `ToolExecution` has (`session/recorder.ts:153`);
* capability registrations and invocations, and the continuation claims of the authority, each a
  transaction of SQLite;
* the index of checkpoints, read, changed and written without a lock
  (`session/checkpointStore.ts:153`);
* text processing, provider protocols, user interfaces, and tools as such: they are I/O whose faults
  appear in the models as outcomes. Most of the repository's lines are of this kind.

What the models have and no property states, because no document decides it:

* a fire that was queued before a pause still runs, and if its run fails the automation is set back
  to active (`AutomationScheduler.ts:292`);
* an old executor and the recovery of the next Host can both see a fire running and both write its end:
  `fire_count` then grows by two for one fire (`AutomationScheduler.ts:279`), or the second end takes the place of the
  first, needs_approval becoming completed or failed and completed becoming failed (`AutomationScheduler.ts:294`);
  of two failures that are read together one is lost, and an automation that has just been paused, or has
  failed, is active again (`AutomationScheduler.ts:291`);
* a fire whose run's completion was rejected is failed, though the run may be completed
  once its row has been reconciled (`AutomationScheduler.ts:485`);
* a starting Host gives up when the old executor ends a fire between the recovery's list and
  its visit (`AutomationScheduler.ts:332`);
* a prompt that is submitted while an automation's runtime is being built is cut off when the old
  runtime is closed (`RuntimeHost.ts:1249`);
* of two fires of one automation deferred in one millisecond the second violates
  `UNIQUE (automation_id, scheduled_at)` and stays `running` until the next Host starts
  (`AutomationScheduler.ts:460`);
* `max_fires` is compared only when a fire becomes due: fires that pile up while a run takes longer
  than the interval are all executed;
* a prompt that a user submits while a graph runs makes the next node's submit fail
  (`GoalGraphStore.ts:590`), and a goal that has ended otherwise makes `recoverRunningNodes` throw
  and a starting Host give up (`GoalGraphStore.ts:447`);
* `run.inspect` may overtake a submit, whose completion is then rejected as not admitted although the run
  is executed (`RuntimeHost.ts:1912`);
* an external tool that the capability store has given up goes on running beside later calls
  (`CapabilityStore.ts:222`).
