------------------------------ MODULE GoalGraph ------------------------------
(***************************************************************************)
(* One goal graph, from graph.start to its terminal status: the rows that  *)
(* GoalGraphStore, DurableTaskRunStore and RuntimeEventAuthority keep in    *)
(* one SQLite file, the GraphSupervisor that executes the nodes one at a    *)
(* time, the client operations that steer it, and the recovery a Host runs *)
(* when it starts or rebuilds its runtime.                                 *)
(*                                                                         *)
(* JavaScript runs a turn of the event loop to its end, so two operations  *)
(* never interleave; but every SQLite transaction of a turn commits on its *)
(* own and the process may die between two of them.  `turn' says how far   *)
(* the running turn is, and each action below is one transaction.          *)
(*                                                                         *)
(* Left out: wakes (they gate nothing), artifacts, revisions and events.   *)
(***************************************************************************)
EXTENDS Naturals

CONSTANTS
  Node,         \* the nodes of the graph
  NoNode,       \* no node
  Dep,          \* Dep[n]: the nodes that n depends on
  MaxRestarts   \* bound: crashes and runtime rebuilds of one behaviour

ASSUME NoNodeAssumption == NoNode \notin Node
ASSUME DepAssumption == Dep \in [Node -> SUBSET Node]
ASSUME MaxRestartsAssumption == MaxRestarts \in Nat

Terminal == {"completed", "failed", "blocked", "cancelled"}    \* goal, graph
GoalStatus == {"active", "paused"} \cup Terminal
GraphStatus == {"draft", "running", "paused"} \cup Terminal
NodeStatus == {"pending", "ready", "running"} \cup Terminal
\* How a run ends; "incomplete" stands for every end that is neither a
\* success, a failure nor a cancel.
RunTerminal == {"completed", "failed", "incomplete", "cancelled"}
RunStatus == {"none", "admitted"} \cup RunTerminal
TaskStatus == {"none", "created", "running"} \cup RunTerminal
AttemptStatus == {"none", "queued", "running"} \cup RunTerminal
Turn == {"idle", "create", "attempt", "submit", "start", "settle", "node",
         "graph", "goal", "scan", "cancelNodes", "cancelTasks"}

VARIABLES
  goal, graph, \* status of the goal and of the graph
  node,        \* node[n]: status of the node
  task,        \* task[n]: status of the node's TaskRun
  attempt,     \* attempt[n]: status of its latest TaskAttempt
  run,         \* run[n]: the AgentRun row of that attempt
  dispatched,  \* dispatched[n]: how many AgentRuns were admitted for the node
  host,        \* the Host: down, starting, rebuilding its runtime, or up
  turn,        \* how far the current turn of the event loop is
  current,     \* the node in executeNode (or in recovery), or NoNode
  result,      \* what its run came to, once it is known
  live,        \* the node whose AgentRun the runtime is executing, or NoNode
  todo,        \* nodes a loop of the turn still has to visit
  doomed,      \* nodes whose task a graph.cancel still has to cancel
  restarts     \* crashes and rebuilds so far

durable == <<goal, graph, node, task, attempt, run, dispatched>>
local == <<host, turn, current, result, live, todo, doomed, restarts>>
vars == <<goal, graph, node, task, attempt, run, dispatched, host, turn,
          current, result, live, todo, doomed, restarts>>

TypeOK ==
  /\ goal \in GoalStatus
  /\ graph \in GraphStatus
  /\ node \in [Node -> NodeStatus]
  /\ task \in [Node -> TaskStatus]
  /\ attempt \in [Node -> AttemptStatus]
  /\ run \in [Node -> RunStatus]
  /\ dispatched \in [Node -> Nat]
  /\ host \in {"down", "starting", "rebuilding", "up"}
  /\ turn \in Turn
  /\ current \in Node \cup {NoNode}
  /\ result \in {"none", "completed", "failed", "blocked"}
  /\ live \in Node \cup {NoNode}
  /\ todo \in SUBSET Node
  /\ doomed \in SUBSET Node
  /\ restarts \in 0..MaxRestarts

Init ==
  /\ goal = "active"
  /\ graph = "draft"
  /\ node = [n \in Node |-> "pending"]
  /\ task = [n \in Node |-> "none"]
  /\ attempt = [n \in Node |-> "none"]
  /\ run = [n \in Node |-> "none"]
  /\ dispatched = [n \in Node |-> 0]
  /\ host = "up"
  /\ turn = "idle"
  /\ current = NoNode
  /\ result = "none"
  /\ live = NoNode
  /\ todo = {}
  /\ doomed = {}
  /\ restarts = 0

(***************************************************************************)
(* Helpers.                                                                *)
(***************************************************************************)

\* The host is up and no turn is under way: any handler or timer may run.
Idle == host = "up" /\ turn = "idle"

\* transition() writes the task and its latest attempt together, and
\* refuses a task that has ended.
TaskOpen(n) == task[n] \in {"created", "running"}
SetTask(n, status) ==
  /\ task' = [task EXCEPT ![n] = status]
  /\ attempt' = [attempt EXCEPT ![n] = IF @ = "none" THEN @ ELSE status]
CloseTask(n, status) ==
  IF TaskOpen(n) THEN SetTask(n, status) ELSE UNCHANGED <<task, attempt>>

\* mutant: the supervisor's count of active nodes is not given back
MutDone ==
  /\ turn' = IF host = "up" THEN "idle" ELSE "scan"
  /\ result' = "none"
  /\ UNCHANGED current
\* The end of one node's treatment: the event loop, or the recovery's next
\* node.
Done ==
  /\ turn' = IF host = "up" THEN "idle" ELSE "scan"
  /\ current' = NoNode
  /\ result' = "none"

Ready(n) ==
  /\ node[n] \in {"pending", "ready"}
  /\ \A d \in Dep[n] : node[d] = "completed"

(***************************************************************************)
(* tick() and executeNode().  The claim leaves "claimed" exactly when the  *)
(* node leaves "running", so the reuse of a standing claim is never taken. *)
(***************************************************************************)

ClaimIntent(n) ==
  /\ Idle
  /\ current = NoNode
  /\ graph = "running"
  /\ Ready(n)
  /\ node' = [node EXCEPT ![n] = "running"]
  /\ current' = n
  /\ turn' = "create"
  /\ UNCHANGED <<goal, graph, task, attempt, run, dispatched, host, result,
                 live, todo, doomed, restarts>>

CreateTask ==
  /\ turn = "create"
  /\ task' = [task EXCEPT ![current] = IF @ = "none" THEN "created" ELSE @]
  /\ turn' = "attempt"
  /\ UNCHANGED <<goal, graph, node, attempt, run, dispatched, host, current,
                 result, live, todo, doomed, restarts>>

\* A new attempt has a fresh run id, which no row knows.
CreateAttempt ==
  /\ turn = "attempt"
  /\ attempt' = [attempt EXCEPT ![current] = "queued"]
  /\ run' = [run EXCEPT ![current] = "none"]
  /\ turn' = "submit"
  /\ UNCHANGED <<goal, graph, node, task, dispatched, host, current, result,
                 live, todo, doomed, restarts>>

\* submitPrompt admits the run; the runtime executes one at a time.
SubmitRun ==
  /\ turn = "submit"
  /\ live = NoNode
  /\ run' = [run EXCEPT ![current] = "admitted"]
  /\ dispatched' = [dispatched EXCEPT ![current] = @ + 1]
  /\ live' = current
  /\ turn' = "start"
  /\ UNCHANGED <<goal, graph, node, task, attempt, host, current, result,
                 todo, doomed, restarts>>

\* The runtime is busy with another prompt, or has no lease: the catch
\* branch fails the node.
SubmitRefused ==
  /\ turn = "submit"
  /\ result' = "failed"
  /\ turn' = "settle"
  /\ UNCHANGED <<durable, host, current, live, todo, doomed, restarts>>

\* transition(running) throws if the task has been cancelled: the catch
\* branch fails the node, and nobody waits for the admitted run any more.
MarkRunning ==
  /\ turn = "start"
  /\ IF TaskOpen(current)
       THEN /\ SetTask(current, "running")
            /\ turn' = "idle"
            /\ UNCHANGED result
       ELSE /\ result' = "failed"
            /\ turn' = "settle"
            /\ UNCHANGED <<task, attempt>>
  /\ UNCHANGED <<goal, graph, node, run, dispatched, host, current, live,
                 todo, doomed, restarts>>

\* The AgentRun settles: its row has a terminal status, or its completion
\* was rejected and the row still says admitted.
RunEnds(status) ==
  /\ Idle
  /\ live # NoNode
  /\ run' = [run EXCEPT ![live] = status]
  /\ live' = NoNode
  /\ result' = IF current # live THEN result
               ELSE IF status = "completed" THEN "completed" ELSE "failed"
  /\ UNCHANGED <<goal, graph, node, task, attempt, dispatched, host, turn,
                 current, todo, doomed, restarts>>

\* transitionTask leaves a task that has ended alone.
SettleTask ==
  /\ host = "up"
  /\ turn \in {"idle", "settle"}
  /\ result # "none"
  /\ CloseTask(current, result)
  /\ turn' = "node"
  /\ UNCHANGED <<goal, graph, node, run, dispatched, host, current, result,
                 live, todo, doomed, restarts>>

(***************************************************************************)
(* completeNode(): the node, then the graph projected from its nodes, then *)
(* the goal, each in a transaction.                                        *)
(***************************************************************************)

AcceptsResult(n) == graph \notin Terminal /\ node[n] = "running"

CompleteNode ==
  /\ turn = "node"
  /\ IF AcceptsResult(current)
       THEN /\ node' = [node EXCEPT ![current] = result]
            /\ turn' = "graph"
            /\ UNCHANGED <<current, result>>
       ELSE Done /\ UNCHANGED node
  /\ UNCHANGED <<goal, graph, task, attempt, run, dispatched, host, live,
                 todo, doomed, restarts>>

\* mutant: a graph whose nodes have all ended is completed
MutProjected ==
  IF graph \in Terminal THEN graph
  ELSE IF \A n \in Node : node[n] \in Terminal THEN "completed"
  ELSE IF \E n \in Node : node[n] = "failed" THEN "failed"
  ELSE IF \E n \in Node : node[n] = "blocked" THEN "blocked"
  ELSE graph
Projected ==
  IF graph \in Terminal THEN graph
  ELSE IF \A n \in Node : node[n] = "completed" THEN "completed"
  ELSE IF \E n \in Node : node[n] = "failed" THEN "failed"
  ELSE IF \E n \in Node : node[n] = "blocked" THEN "blocked"
  ELSE graph

ProjectGraph ==
  /\ turn = "graph"
  /\ graph' = Projected
  /\ IF Projected \in Terminal /\ graph \notin Terminal
       THEN turn' = "goal" /\ UNCHANGED <<current, result>>
       ELSE Done
  /\ UNCHANGED <<goal, node, task, attempt, run, dispatched, host, live,
                 todo, doomed, restarts>>

ProjectGoal ==
  /\ turn = "goal"
  /\ goal \notin Terminal \/ goal = graph
  /\ goal' = graph
  /\ Done
  /\ UNCHANGED <<graph, node, task, attempt, run, dispatched, host, live,
                 todo, doomed, restarts>>

\* updateGoal throws for a goal that has ended otherwise.  executeNode
\* swallows it; a recovery is cut short, and a Host that was starting stops.
ProjectGoalThrows ==
  /\ turn = "goal"
  /\ goal \in Terminal
  /\ goal # graph
  /\ turn' = "idle"
  /\ current' = NoNode
  /\ result' = "none"
  /\ todo' = {}
  /\ host' = IF host = "starting" THEN "down" ELSE "up"
  /\ UNCHANGED <<durable, live, doomed, restarts>>

(***************************************************************************)
(* recoverRunningNodes(), when the Host starts and when it rebuilds its    *)
(* idle runtime.  Opening the authority first gives a run whose outcome is *)
(* on disk its terminal status.                                            *)
(***************************************************************************)

Reconciled ==
  {rows \in [Node -> RunStatus] :
     \A n \in Node : \/ rows[n] = run[n]
                     \/ run[n] = "admitted" /\ rows[n] \in RunTerminal}

Recoverable == {n \in Node : graph = "running" /\ node[n] = "running"}

Recover(as) ==
  /\ host' = as
  /\ turn' = "scan"
  /\ todo' = Recoverable
  /\ run' \in Reconciled
  /\ UNCHANGED <<goal, graph, node, task, attempt, dispatched, current,
                 result, live, doomed>>

StartHost ==
  /\ host = "down"
  /\ Recover("starting")
  /\ UNCHANGED restarts

Rebuild ==
  /\ Idle
  /\ current = NoNode
  /\ live = NoNode
  /\ restarts < MaxRestarts
  /\ restarts' = restarts + 1
  /\ Recover("rebuilding")

\* What proves how the node's execution ended: the run's row, else the task.
Proof(n) ==
  IF run[n] \in RunTerminal THEN run[n]
  ELSE IF task[n] \in RunTerminal THEN task[n]
  ELSE "none"

\* mutant: the run's status is copied to the node
MutRecoveredNodeStatus(status) == status
RecoveredNodeStatus(status) ==
  IF status \in {"completed", "failed"} THEN status ELSE "blocked"

\* mutant: the authority's row is not asked
MutNeverDispatched(n) ==
  \/ task[n] = "none"
  \/ attempt[n] = "none"
  \/ task[n] = "created" /\ attempt[n] = "queued"
\* The claim was abandoned before an AgentRun was dispatched.
NeverDispatched(n) ==
  \/ task[n] = "none"
  \/ attempt[n] = "none"
  \/ run[n] = "none" /\ task[n] = "created" /\ attempt[n] = "queued"

RecoverProven(n) ==
  /\ turn = "scan"
  /\ n \in todo
  /\ Proof(n) # "none"
  /\ CloseTask(n, Proof(n))
  /\ todo' = todo \ {n}
  /\ current' = n
  /\ result' = RecoveredNodeStatus(Proof(n))
  /\ turn' = "node"
  /\ UNCHANGED <<goal, graph, node, run, dispatched, host, live, doomed,
                 restarts>>

RecoverUnproven(n) ==
  /\ turn = "scan"
  /\ n \in todo
  /\ Proof(n) = "none"
  /\ todo' = todo \ {n}
  /\ IF graph = "running" /\ node[n] = "running"
       THEN /\ node' = [node EXCEPT ![n] =
                          IF NeverDispatched(n) THEN "ready" ELSE "blocked"]
            /\ current' = n
            /\ turn' = "graph"
       ELSE UNCHANGED <<node, current, turn>>
  /\ UNCHANGED <<goal, graph, task, attempt, run, dispatched, host, result,
                 live, doomed, restarts>>

RecoveryDone ==
  /\ turn = "scan"
  /\ todo = {}
  /\ host' = "up"
  /\ turn' = "idle"
  /\ UNCHANGED <<durable, current, result, live, todo, doomed, restarts>>

(***************************************************************************)
(* Client operations.                                                      *)
(***************************************************************************)

StartGraph ==   \* graph.start, graph.resume
  /\ Idle
  /\ graph \in {"draft", "paused"}
  /\ graph' = "running"
  /\ UNCHANGED <<goal, node, task, attempt, run, dispatched, local>>

PauseGraph ==
  /\ Idle
  /\ graph = "running"
  /\ graph' = "paused"
  /\ UNCHANGED <<goal, node, task, attempt, run, dispatched, local>>

UpdateGoal(status) ==
  /\ Idle
  /\ goal \notin Terminal
  /\ goal' = status
  /\ UNCHANGED <<graph, node, task, attempt, run, dispatched, local>>

\* task.cancel; a run that is cancelled along with it settles by RunEnds.
CancelTask(n) ==
  /\ Idle
  /\ TaskOpen(n)
  /\ SetTask(n, "cancelled")
  /\ UNCHANGED <<goal, graph, node, run, dispatched, local>>

\* graph.cancel: the graph, each open node, the goal, then the tasks of the
\* nodes that were running.  Cancelling a cancelled graph takes it up again.
CancelGraph ==
  /\ Idle
  /\ graph \notin Terminal \ {"cancelled"}
  /\ graph' = "cancelled"
  /\ todo' = {n \in Node : node[n] \notin {"completed", "failed", "cancelled"}}
  /\ doomed' = {n \in Node : node[n] = "running"}
  /\ turn' = "cancelNodes"
  /\ UNCHANGED <<goal, node, task, attempt, run, dispatched, host, current,
                 result, live, restarts>>

CancelNode(n) ==
  /\ turn = "cancelNodes"
  /\ n \in todo
  /\ node' = [node EXCEPT ![n] = "cancelled"]
  /\ todo' = todo \ {n}
  /\ UNCHANGED <<goal, graph, task, attempt, run, dispatched, host, turn,
                 current, result, live, doomed, restarts>>

CancelGoal ==
  /\ turn = "cancelNodes"
  /\ todo = {}
  /\ goal' = IF goal \in Terminal THEN goal ELSE "cancelled"
  /\ turn' = "cancelTasks"
  /\ UNCHANGED <<graph, node, task, attempt, run, dispatched, host, current,
                 result, live, todo, doomed, restarts>>

CancelRunning(n) ==
  /\ turn = "cancelTasks"
  /\ n \in doomed
  /\ CloseTask(n, "cancelled")
  /\ doomed' = doomed \ {n}
  /\ UNCHANGED <<goal, graph, node, run, dispatched, host, turn, current,
                 result, live, todo, restarts>>

CancelDone ==
  /\ turn = "cancelTasks"
  /\ doomed = {}
  /\ turn' = "idle"
  /\ UNCHANGED <<durable, host, current, result, live, todo, doomed, restarts>>

\* The process dies between two transactions.  Rows stay as they are.
Crash ==
  /\ host # "down"
  /\ restarts < MaxRestarts
  /\ restarts' = restarts + 1
  /\ host' = "down"
  /\ turn' = "idle"
  /\ current' = NoNode
  /\ result' = "none"
  /\ live' = NoNode
  /\ todo' = {}
  /\ doomed' = {}
  /\ UNCHANGED durable

-----------------------------------------------------------------------------

ExecuteStep ==
  \/ \E n \in Node : ClaimIntent(n)
  \/ CreateTask \/ CreateAttempt \/ SubmitRun \/ SubmitRefused \/ MarkRunning
  \/ \E s \in RunTerminal \cup {"admitted"} : RunEnds(s)
  \/ SettleTask

ProjectStep == CompleteNode \/ ProjectGraph \/ ProjectGoal \/ ProjectGoalThrows

RecoverStep ==
  \/ \E n \in Node : RecoverProven(n) \/ RecoverUnproven(n)
  \/ RecoveryDone

CancelStep ==
  \/ \E n \in Node : CancelNode(n) \/ CancelRunning(n)
  \/ CancelGoal \/ CancelDone

ClientStep ==
  \/ StartGraph \/ PauseGraph \/ CancelGraph
  \/ \E s \in {"active", "paused", "cancelled"} : UpdateGoal(s)
  \/ \E n \in Node : CancelTask(n)

ProcessStep == StartHost \/ Rebuild \/ Crash

Next ==
  \/ ExecuteStep \/ ProjectStep \/ RecoverStep \/ CancelStep
  \/ ClientStep \/ ProcessStep

Spec == Init /\ [][Next]_vars

\* A turn that has begun runs to its end, the supervisor's timer ticks, and
\* an AgentRun settles.  Nobody has to send an operation or start a Host.
FairSpec ==
  Spec /\ WF_vars(ExecuteStep \/ ProjectStep \/ RecoverStep \/ CancelStep)

(***************************************************************************)
(* Properties.                                                             *)
(***************************************************************************)

\* However often the Host dies, is started again and takes a claim back, at
\* most one AgentRun is ever admitted for a node: its side effects happen
\* once (executeNode, recoverRunningNodes).
DispatchedOnce == \A n \in Node : dispatched[n] <= 1

\* A node's AgentRun is admitted only after every node it depends on has
\* completed, and they stay completed (readyNodes, claimIntent).
DependenciesFirst ==
  \A n \in Node : dispatched[n] > 0 => \A d \in Dep[n] : node[d] = "completed"

\* Nothing is reported done that was not: a completed node has a completed
\* run in the authority, also when recovery or a late result wrote it, and a
\* completed graph has only completed nodes (completeNode,
\* projectGraphStatus, recoverRunningNodes).
CompletedMeansDone ==
  /\ \A n \in Node : node[n] = "completed" => run[n] = "completed"
  /\ graph = "completed" => \A n \in Node : node[n] = "completed"

\* What one step leaves alone: a goal, graph or task that has ended, and a
\* node that completed, failed or was cancelled.
EndsStand ==
  /\ graph \in Terminal => graph' = graph
  /\ goal \in Terminal => goal' = goal
  /\ \A n \in Node :
       /\ task[n] \in RunTerminal => task'[n] = task[n]
       /\ node[n] \in Terminal \ {"blocked"} => node'[n] = node[n]

\* A late result, a recovery or a second cancel never rewrites what has
\* ended (isGraphTerminal in completeNode, updateGoal, transitionTask).
TerminalStands == [][EndsStand]_vars

\* The rows keep what the graph promises its client, over every crash between
\* two transactions, recovery, rebuild, late result and cancel.
Plan == INSTANCE GraphPlan
  WITH work <- run,
       verdict <- [n \in Node |-> IF node[n] \in Terminal THEN node[n] ELSE "open"],
       plan <- IF graph \in Terminal \cup {"running"} THEN graph ELSE "held"

ImplementsPlan == Plan!PlanSpec

\* While the Host stays up, a running graph ends or is paused: the
\* supervisor finds every node that becomes ready, and the projection finds
\* the end (tick, projectGraphStatus).
RunningGraphSettles ==
  [](host # "down") => (graph = "running" ~> graph # "running")

\* README: a Host that restarts takes back the nodes whose outcome it cannot
\* prove.  So a running graph has no running node that nobody executes once
\* the Host is up.
NoOrphanNode ==
  (Idle /\ current = NoNode /\ graph = "running") =>
    \A n \in Node : node[n] # "running"
=============================================================================
