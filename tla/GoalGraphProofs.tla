--------------------------- MODULE GoalGraphProofs ---------------------------
(***************************************************************************)
(* Theorems about GoalGraph, for any graph of nodes and any number of      *)
(* crashes and rebuilds.                                                   *)
(***************************************************************************)
EXTENDS GoalGraph, TLAPS

(* The turns of executeNode up to the admission of an AgentRun. *)
Claiming == {"create", "attempt", "submit"}

Ended == {"completed", "failed", "cancelled"}

(***************************************************************************)
(* The inductive invariant.                                                *)
(***************************************************************************)

(* What a turn says of the host, of `current' and of `result'. *)
TurnState ==
  /\ host = "down" => turn = "idle" /\ current = NoNode /\ result = "none"
  /\ host # "up" => live = NoNode
  /\ turn \in Claiming \cup {"start", "settle", "cancelNodes", "cancelTasks"}
       => host = "up"
  /\ turn \in Claiming \cup {"start", "scan"} => result = "none"
  /\ turn \in Claiming \cup {"start"} => current \in Node
  /\ turn \in {"settle", "node"} => result # "none"
  /\ result # "none" => current \in Node
  /\ result = "blocked" => turn \in {"node", "graph", "goal"}
  /\ turn = "goal" => graph \in Terminal

(* A dispatched node has left its trace in every table, its dependencies   *)
(* are done and it is never offered again.                                 *)
Traced ==
  \A n \in Node :
    /\ dispatched[n] \in {0, 1}
    /\ dispatched[n] = 0 <=> run[n] = "none"
    /\ dispatched[n] = 1 =>
         /\ task[n] # "none"
         /\ attempt[n] # "none"
         /\ node[n] \notin {"pending", "ready"}
         /\ \A d \in Dep[n] : node[d] = "completed"

(* A node between its claim and its dispatch. *)
Claimed ==
  turn \in Claiming =>
    /\ node[current] = "running"
    /\ dispatched[current] = 0
    /\ \A d \in Dep[current] : node[d] = "completed"
    /\ turn # "create" => task[current] # "none"
    /\ turn = "submit" => attempt[current] # "none"

(* Whatever says "completed" goes back to a completed run. *)
Completed ==
  /\ \A n \in Node : task[n] = "completed" => run[n] = "completed"
  /\ \A n \in Node : node[n] = "completed" => run[n] = "completed"
  /\ result = "completed" => run[current] = "completed"
  /\ live # NoNode => run[live] = "admitted"
  /\ graph = "completed" => \A n \in Node : node[n] = "completed"

(* graph.cancel visits no node that has ended. *)
CancelsOpen == turn = "cancelNodes" => \A n \in todo : node[n] \notin Ended

(* A node is claimed and dispatched in one turn, so the graph still runs;  *)
(* graph.cancel ends the graph before it visits the nodes.                 *)
GraphTurns ==
  /\ turn \in Claiming => graph = "running"
  /\ turn = "cancelNodes" => graph = "cancelled"

IInv ==
  TypeOK /\ TurnState /\ Traced /\ Claimed /\ Completed /\ CancelsOpen /\ GraphTurns

-----------------------------------------------------------------------------

LEMMA ReconciledRows ==
    ASSUME run \in [Node -> RunStatus], run' \in Reconciled
    PROVE  /\ run' \in [Node -> RunStatus]
           /\ \A n \in Node :
                run'[n] = run[n] \/ (run[n] = "admitted" /\ run'[n] \in RunTerminal)
BY DEF Reconciled

(* Each action keeps the types.                                            *)
LEMMA TypeStep ==
    ASSUME TypeOK, TurnState, [Next]_vars
    PROVE  TypeOK'
<1> USE DEF TypeOK, TurnState, Claiming,
            GoalStatus, GraphStatus, NodeStatus, TaskStatus, AttemptStatus,
            RunStatus, RunTerminal, Terminal, Turn
<1>1. ASSUME NEW n \in Node, ClaimIntent(n)
      PROVE  TypeOK'
  BY <1>1 DEF ClaimIntent, Idle, Ready
<1>2. CASE CreateTask
  BY <1>2 DEF CreateTask
<1>3. CASE CreateAttempt
  BY <1>3 DEF CreateAttempt
<1>4. CASE SubmitRun
  BY <1>4 DEF SubmitRun
<1>5. CASE SubmitRefused
  BY <1>5 DEF SubmitRefused, durable
<1>6. CASE MarkRunning
  BY <1>6 DEF MarkRunning, SetTask, TaskOpen
<1>7. ASSUME NEW s \in RunTerminal \cup {"admitted"}, RunEnds(s)
      PROVE  TypeOK'
  BY <1>7 DEF RunEnds, Idle
<1>8. CASE SettleTask
  BY <1>8 DEF SettleTask, CloseTask, SetTask, TaskOpen
<1>9. CASE CompleteNode
  BY <1>9 DEF CompleteNode, AcceptsResult, Done
<1>10. CASE ProjectGraph
  BY <1>10 DEF ProjectGraph, Projected, Done
<1>11. CASE ProjectGoal
  BY <1>11 DEF ProjectGoal, Done
<1>12. CASE ProjectGoalThrows
  BY <1>12 DEF ProjectGoalThrows, durable
<1>13. ASSUME NEW n \in Node, RecoverProven(n)
      PROVE  TypeOK'
  BY <1>13 DEF RecoverProven, CloseTask, SetTask, TaskOpen, Proof, RecoveredNodeStatus
<1>14. ASSUME NEW n \in Node, RecoverUnproven(n)
      PROVE  TypeOK'
  BY <1>14 DEF RecoverUnproven, Proof, NeverDispatched
<1>15. CASE RecoveryDone
  BY <1>15 DEF RecoveryDone, durable
<1>16. ASSUME NEW n \in Node, CancelNode(n)
      PROVE  TypeOK'
  BY <1>16 DEF CancelNode
<1>17. ASSUME NEW n \in Node, CancelRunning(n)
      PROVE  TypeOK'
  BY <1>17 DEF CancelRunning, CloseTask, SetTask, TaskOpen
<1>18. CASE CancelGoal
  BY <1>18 DEF CancelGoal
<1>19. CASE CancelDone
  BY <1>19 DEF CancelDone, durable
<1>20. CASE StartGraph
  BY <1>20 DEF StartGraph, Idle, local
<1>21. CASE PauseGraph
  BY <1>21 DEF PauseGraph, Idle, local
<1>22. CASE CancelGraph
  BY <1>22 DEF CancelGraph, Idle
<1>23. ASSUME NEW s \in {"active", "paused", "cancelled"}, UpdateGoal(s)
      PROVE  TypeOK'
  BY <1>23 DEF UpdateGoal, Idle, local
<1>24. ASSUME NEW n \in Node, CancelTask(n)
      PROVE  TypeOK'
  BY <1>24 DEF CancelTask, Idle, SetTask, TaskOpen, local
<1>25. CASE StartHost
  BY <1>25, ReconciledRows DEF StartHost, Recover, Recoverable
<1>26. CASE Rebuild
  BY <1>26, ReconciledRows, MaxRestartsAssumption DEF Rebuild, Recover, Recoverable, Idle
<1>27. CASE Crash
  BY <1>27, MaxRestartsAssumption DEF Crash, durable
<1>28. CASE UNCHANGED vars
  BY <1>28 DEF vars
<1> QED
  BY <1>1, <1>2, <1>3, <1>4, <1>5, <1>6, <1>7, <1>8, <1>9, <1>10, <1>11,
     <1>12, <1>13, <1>14, <1>15, <1>16, <1>17, <1>18, <1>19, <1>20, <1>21,
     <1>22, <1>23, <1>24, <1>25, <1>26, <1>27, <1>28
     DEF Next, ExecuteStep, ProjectStep, RecoverStep, CancelStep, ClientStep, ProcessStep

(* Each action leaves the turn in order.                                   *)
LEMMA TurnStep ==
    ASSUME TypeOK, TurnState, [Next]_vars
    PROVE  TurnState'
<1> USE DEF TypeOK, TurnState, Claiming
<1>1. ASSUME NEW n \in Node, ClaimIntent(n)
      PROVE  TurnState'
  BY <1>1, NoNodeAssumption DEF ClaimIntent, Idle
<1>2. CASE CreateTask
  BY <1>2 DEF CreateTask
<1>3. CASE CreateAttempt
  BY <1>3 DEF CreateAttempt
<1>4. CASE SubmitRun
  BY <1>4 DEF SubmitRun
<1>5. CASE SubmitRefused
  BY <1>5 DEF SubmitRefused, durable
<1>6. CASE MarkRunning
  BY <1>6 DEF MarkRunning, SetTask, TaskOpen
<1>7. ASSUME NEW s \in RunTerminal \cup {"admitted"}, RunEnds(s)
      PROVE  TurnState'
  BY <1>7 DEF RunEnds, Idle
<1>8. CASE SettleTask
  BY <1>8 DEF SettleTask, CloseTask, SetTask, TaskOpen
<1>9. CASE CompleteNode
  BY <1>9 DEF CompleteNode, AcceptsResult, Done
<1>10. CASE ProjectGraph
  BY <1>10 DEF ProjectGraph, Projected, Done
<1>11. CASE ProjectGoal
  BY <1>11 DEF ProjectGoal, Done
<1>12. CASE ProjectGoalThrows
  BY <1>12 DEF ProjectGoalThrows, durable
<1>13. ASSUME NEW n \in Node, RecoverProven(n)
      PROVE  TurnState'
  BY <1>13 DEF RecoverProven, CloseTask, SetTask, TaskOpen, Proof, RecoveredNodeStatus
<1>14. ASSUME NEW n \in Node, RecoverUnproven(n)
      PROVE  TurnState'
  BY <1>14 DEF RecoverUnproven, Proof, NeverDispatched
<1>15. CASE RecoveryDone
  BY <1>15 DEF RecoveryDone, durable
<1>16. ASSUME NEW n \in Node, CancelNode(n)
      PROVE  TurnState'
  BY <1>16 DEF CancelNode
<1>17. ASSUME NEW n \in Node, CancelRunning(n)
      PROVE  TurnState'
  BY <1>17 DEF CancelRunning, CloseTask, SetTask, TaskOpen
<1>18. CASE CancelGoal
  BY <1>18 DEF CancelGoal
<1>19. CASE CancelDone
  BY <1>19 DEF CancelDone, durable
<1>20. CASE StartGraph
  BY <1>20 DEF StartGraph, Idle, local
<1>21. CASE PauseGraph
  BY <1>21 DEF PauseGraph, Idle, local
<1>22. CASE CancelGraph
  BY <1>22 DEF CancelGraph, Idle
<1>23. ASSUME NEW s \in {"active", "paused", "cancelled"}, UpdateGoal(s)
      PROVE  TurnState'
  BY <1>23 DEF UpdateGoal, Idle, local
<1>24. ASSUME NEW n \in Node, CancelTask(n)
      PROVE  TurnState'
  BY <1>24 DEF CancelTask, Idle, SetTask, TaskOpen, local
<1>25. CASE StartHost
  BY <1>25 DEF StartHost, Recover
<1>26. CASE Rebuild
  BY <1>26, NoNodeAssumption DEF Rebuild, Recover, Idle
<1>27. CASE Crash
  BY <1>27 DEF Crash, durable
<1>28. CASE UNCHANGED vars
  BY <1>28 DEF vars
<1> QED
  BY <1>1, <1>2, <1>3, <1>4, <1>5, <1>6, <1>7, <1>8, <1>9, <1>10, <1>11,
     <1>12, <1>13, <1>14, <1>15, <1>16, <1>17, <1>18, <1>19, <1>20, <1>21,
     <1>22, <1>23, <1>24, <1>25, <1>26, <1>27, <1>28
     DEF Next, ExecuteStep, ProjectStep, RecoverStep, CancelStep, ClientStep, ProcessStep

(* An AgentRun is admitted once, and a node that was dispatched is never
   offered again: its rows refute NeverDispatched.                            *)
LEMMA TracedStep ==
    ASSUME IInv, [Next]_vars
    PROVE  Traced'
<1> USE DEF IInv, TypeOK, TurnState, Traced, Claimed, CancelsOpen, Claiming, Ended, RunTerminal
<1>1. ASSUME NEW n \in Node, ClaimIntent(n)
      PROVE  Traced'
  BY <1>1 DEF ClaimIntent, Idle, Ready
<1>2. CASE CreateTask
  BY <1>2 DEF CreateTask
<1>3. CASE CreateAttempt
  BY <1>3 DEF CreateAttempt
<1>4. CASE SubmitRun
  BY <1>4 DEF SubmitRun
<1>5. CASE SubmitRefused
  BY <1>5 DEF SubmitRefused, durable
<1>6. CASE MarkRunning
  BY <1>6 DEF MarkRunning, SetTask, TaskOpen
<1>7. ASSUME NEW s \in RunTerminal \cup {"admitted"}, RunEnds(s)
      PROVE  Traced'
  BY <1>7 DEF RunEnds, Idle, Completed
<1>8. CASE SettleTask
  BY <1>8 DEF SettleTask, CloseTask, SetTask, TaskOpen
<1>9. CASE CompleteNode
  <2>1. CASE AcceptsResult(current)
    <3>1. /\ current \in Node
          /\ node[current] = "running"
          /\ result \in {"completed", "failed", "blocked"}
          /\ node' = [node EXCEPT ![current] = result]
      BY <1>9, <2>1 DEF CompleteNode, AcceptsResult
    <3>2. \A n \in Node : node[n] \notin {"pending", "ready"} =>
                          node'[n] \notin {"pending", "ready"}
      BY <3>1
    <3>3. \A n \in Node : node[n] = "completed" => node'[n] = "completed"
      BY <3>1
    <3>4. UNCHANGED <<task, attempt, run, dispatched>>
      BY <1>9 DEF CompleteNode
    <3>5. \A n \in Node : Dep[n] \subseteq Node
      BY DepAssumption
    <3> QED BY <3>2, <3>3, <3>4, <3>5 DEF Traced
  <2>2. CASE ~AcceptsResult(current)
    BY <1>9, <2>2 DEF CompleteNode, Done
  <2> QED BY <2>1, <2>2
<1>10. CASE ProjectGraph
  BY <1>10 DEF ProjectGraph, Projected, Done
<1>11. CASE ProjectGoal
  BY <1>11 DEF ProjectGoal, Done
<1>12. CASE ProjectGoalThrows
  BY <1>12 DEF ProjectGoalThrows, durable
<1>13. ASSUME NEW n \in Node, RecoverProven(n)
      PROVE  Traced'
  BY <1>13 DEF RecoverProven, CloseTask, SetTask, TaskOpen, Proof, RecoveredNodeStatus
<1>14. ASSUME NEW n \in Node, RecoverUnproven(n)
      PROVE  Traced'
  <2>1. NeverDispatched(n) => dispatched[n] = 0
    BY <1>14 DEF RecoverUnproven, Proof, NeverDispatched
  <2> QED BY <1>14, <2>1, DepAssumption DEF RecoverUnproven
<1>15. CASE RecoveryDone
  BY <1>15 DEF RecoveryDone, durable
<1>16. ASSUME NEW n \in Node, CancelNode(n)
      PROVE  Traced'
  BY <1>16 DEF CancelNode
<1>17. ASSUME NEW n \in Node, CancelRunning(n)
      PROVE  Traced'
  BY <1>17 DEF CancelRunning, CloseTask, SetTask, TaskOpen
<1>18. CASE CancelGoal
  BY <1>18 DEF CancelGoal
<1>19. CASE CancelDone
  BY <1>19 DEF CancelDone, durable
<1>20. CASE StartGraph
  BY <1>20 DEF StartGraph, Idle, local
<1>21. CASE PauseGraph
  BY <1>21 DEF PauseGraph, Idle, local
<1>22. CASE CancelGraph
  BY <1>22 DEF CancelGraph, Idle
<1>23. ASSUME NEW s \in {"active", "paused", "cancelled"}, UpdateGoal(s)
      PROVE  Traced'
  BY <1>23 DEF UpdateGoal, Idle, local
<1>24. ASSUME NEW n \in Node, CancelTask(n)
      PROVE  Traced'
  BY <1>24 DEF CancelTask, Idle, SetTask, TaskOpen, local
<1>25. CASE StartHost
  BY <1>25, ReconciledRows DEF StartHost, Recover
<1>26. CASE Rebuild
  BY <1>26, ReconciledRows, NoNodeAssumption DEF Rebuild, Recover, Idle
<1>27. CASE Crash
  BY <1>27 DEF Crash, durable
<1>28. CASE UNCHANGED vars
  BY <1>28 DEF vars
<1> QED
  BY <1>1, <1>2, <1>3, <1>4, <1>5, <1>6, <1>7, <1>8, <1>9, <1>10, <1>11,
     <1>12, <1>13, <1>14, <1>15, <1>16, <1>17, <1>18, <1>19, <1>20, <1>21,
     <1>22, <1>23, <1>24, <1>25, <1>26, <1>27, <1>28
     DEF Next, ExecuteStep, ProjectStep, RecoverStep, CancelStep, ClientStep, ProcessStep

(* Between claim and dispatch nobody else touches the node.                *)
LEMMA ClaimedStep ==
    ASSUME IInv, [Next]_vars
    PROVE  Claimed'
<1> USE DEF IInv, TypeOK, TurnState, Traced, Claimed, Claiming
<1>1. ASSUME NEW n \in Node, ClaimIntent(n)
      PROVE  Claimed'
  BY <1>1 DEF ClaimIntent, Idle, Ready
<1>2. CASE CreateTask
  BY <1>2 DEF CreateTask
<1>3. CASE CreateAttempt
  BY <1>3 DEF CreateAttempt
<1>4. CASE SubmitRun \/ SubmitRefused \/ MarkRunning \/ SettleTask
  BY <1>4 DEF SubmitRun, SubmitRefused, MarkRunning, SettleTask
<1>5. CASE \E s \in RunTerminal \cup {"admitted"} : RunEnds(s)
  BY <1>5 DEF RunEnds, Idle
<1>6. CASE ProjectStep
  BY <1>6 DEF ProjectStep, CompleteNode, ProjectGraph, ProjectGoal,
              ProjectGoalThrows, Done
<1>7. CASE RecoverStep
  BY <1>7 DEF RecoverStep, RecoverProven, RecoverUnproven, RecoveryDone
<1>8. CASE CancelStep
  BY <1>8 DEF CancelStep, CancelNode, CancelRunning, CancelGoal, CancelDone
<1>9. CASE ClientStep
  BY <1>9 DEF ClientStep, StartGraph, PauseGraph, CancelGraph, UpdateGoal,
              CancelTask, Idle, local
<1>10. CASE ProcessStep
  BY <1>10 DEF ProcessStep, StartHost, Rebuild, Recover, Crash
<1>11. CASE UNCHANGED vars
  BY <1>11 DEF vars
<1> QED BY <1>1, <1>2, <1>3, <1>4, <1>5, <1>6, <1>7, <1>8, <1>9, <1>10, <1>11 DEF Next, ExecuteStep

(* A completed run is what every other completed status goes back to.      *)
LEMMA CompletedStep ==
    ASSUME IInv, [Next]_vars
    PROVE  Completed'
<1> USE DEF IInv, TypeOK, TurnState, Traced, Claimed, Completed,
            CancelsOpen, Claiming, Ended, RunTerminal
<1>1. ASSUME NEW n \in Node, ClaimIntent(n)
      PROVE  Completed'
  BY <1>1, NoNodeAssumption DEF ClaimIntent, Idle
<1>2. CASE CreateTask
  BY <1>2 DEF CreateTask
<1>3. CASE CreateAttempt
  BY <1>3 DEF CreateAttempt
<1>4. CASE SubmitRun
  BY <1>4 DEF SubmitRun
<1>5. CASE SubmitRefused
  BY <1>5 DEF SubmitRefused, durable
<1>6. CASE MarkRunning
  BY <1>6 DEF MarkRunning, SetTask, TaskOpen
<1>7. ASSUME NEW s \in RunTerminal \cup {"admitted"}, RunEnds(s)
      PROVE  Completed'
  BY <1>7 DEF RunEnds, Idle
<1>8. CASE SettleTask
  BY <1>8 DEF SettleTask, CloseTask, SetTask, TaskOpen
<1>9. CASE CompleteNode
  BY <1>9 DEF CompleteNode, AcceptsResult, Done
<1>10. CASE ProjectGraph
  BY <1>10 DEF ProjectGraph, Projected, Done
<1>11. CASE ProjectGoal
  BY <1>11 DEF ProjectGoal, Done
<1>12. CASE ProjectGoalThrows
  BY <1>12 DEF ProjectGoalThrows, durable
<1>13. ASSUME NEW n \in Node, RecoverProven(n)
      PROVE  Completed'
  BY <1>13 DEF RecoverProven, CloseTask, SetTask, TaskOpen, Proof, RecoveredNodeStatus
<1>14. ASSUME NEW n \in Node, RecoverUnproven(n)
      PROVE  Completed'
  BY <1>14 DEF RecoverUnproven, Proof, NeverDispatched
<1>15. CASE RecoveryDone
  BY <1>15 DEF RecoveryDone, durable
<1>16. ASSUME NEW n \in Node, CancelNode(n)
      PROVE  Completed'
  BY <1>16 DEF CancelNode
<1>17. ASSUME NEW n \in Node, CancelRunning(n)
      PROVE  Completed'
  BY <1>17 DEF CancelRunning, CloseTask, SetTask, TaskOpen
<1>18. CASE CancelGoal
  BY <1>18 DEF CancelGoal
<1>19. CASE CancelDone
  BY <1>19 DEF CancelDone, durable
<1>20. CASE StartGraph
  BY <1>20 DEF StartGraph, Idle, local
<1>21. CASE PauseGraph
  BY <1>21 DEF PauseGraph, Idle, local
<1>22. CASE CancelGraph
  BY <1>22 DEF CancelGraph, Idle
<1>23. ASSUME NEW s \in {"active", "paused", "cancelled"}, UpdateGoal(s)
      PROVE  Completed'
  BY <1>23 DEF UpdateGoal, Idle, local
<1>24. ASSUME NEW n \in Node, CancelTask(n)
      PROVE  Completed'
  BY <1>24 DEF CancelTask, Idle, SetTask, TaskOpen, local
<1>25. CASE StartHost
  BY <1>25, ReconciledRows DEF StartHost, Recover
<1>26. CASE Rebuild
  BY <1>26, ReconciledRows, NoNodeAssumption DEF Rebuild, Recover, Idle
<1>27. CASE Crash
  BY <1>27 DEF Crash, durable
<1>28. CASE UNCHANGED vars
  BY <1>28 DEF vars
<1> QED
  BY <1>1, <1>2, <1>3, <1>4, <1>5, <1>6, <1>7, <1>8, <1>9, <1>10, <1>11,
     <1>12, <1>13, <1>14, <1>15, <1>16, <1>17, <1>18, <1>19, <1>20, <1>21,
     <1>22, <1>23, <1>24, <1>25, <1>26, <1>27, <1>28
     DEF Next, ExecuteStep, ProjectStep, RecoverStep, CancelStep, ClientStep, ProcessStep

(* graph.cancel keeps to open nodes.                                       *)
LEMMA CancelsOpenStep ==
    ASSUME IInv, [Next]_vars
    PROVE  CancelsOpen'
<1> USE DEF IInv, TypeOK, TurnState, CancelsOpen, Ended
<1>1. CASE ExecuteStep
  BY <1>1 DEF ExecuteStep, ClaimIntent, CreateTask, CreateAttempt, SubmitRun,
              SubmitRefused, MarkRunning, RunEnds, SettleTask, Idle
<1>2. CASE ProjectStep
  BY <1>2 DEF ProjectStep, CompleteNode, ProjectGraph, ProjectGoal,
              ProjectGoalThrows, Done
<1>3. CASE RecoverStep
  BY <1>3 DEF RecoverStep, RecoverProven, RecoverUnproven, RecoveryDone
<1>4. CASE CancelStep
  BY <1>4 DEF CancelStep, CancelNode, CancelRunning, CancelGoal, CancelDone
<1>5. CASE ClientStep
  BY <1>5 DEF ClientStep, StartGraph, PauseGraph, CancelGraph, UpdateGoal,
              CancelTask, Idle, local
<1>6. CASE ProcessStep
  BY <1>6 DEF ProcessStep, StartHost, Rebuild, Recover, Crash
<1>7. CASE UNCHANGED vars
  BY <1>7 DEF vars
<1> QED BY <1>1, <1>2, <1>3, <1>4, <1>5, <1>6, <1>7 DEF Next

(* What a turn knows of the graph is what the turn has itself done to it.  *)
LEMMA GraphTurnsStep ==
    ASSUME IInv, [Next]_vars
    PROVE  GraphTurns'
<1> USE DEF IInv, GraphTurns, Claiming
<1>1. CASE ExecuteStep
  BY <1>1 DEF ExecuteStep, ClaimIntent, CreateTask, CreateAttempt, SubmitRun,
              SubmitRefused, MarkRunning, RunEnds, SettleTask, Idle, durable
<1>2. CASE ProjectStep
  BY <1>2 DEF ProjectStep, CompleteNode, ProjectGraph, ProjectGoal,
              ProjectGoalThrows, Done
<1>3. CASE RecoverStep
  BY <1>3 DEF RecoverStep, RecoverProven, RecoverUnproven, RecoveryDone
<1>4. CASE CancelStep
  BY <1>4 DEF CancelStep, CancelNode, CancelRunning, CancelGoal, CancelDone
<1>5. CASE ClientStep
  BY <1>5 DEF ClientStep, StartGraph, PauseGraph, CancelGraph, UpdateGoal,
              CancelTask, Idle, local
<1>6. CASE ProcessStep
  BY <1>6 DEF ProcessStep, StartHost, Rebuild, Recover, Crash
<1>7. CASE UNCHANGED vars
  BY <1>7 DEF vars
<1> QED BY <1>1, <1>2, <1>3, <1>4, <1>5, <1>6, <1>7 DEF Next

-----------------------------------------------------------------------------

(* A step leaves what has ended alone.                                     *)
LEMMA EndsStandStep ==
    ASSUME IInv, [Next]_vars
    PROVE  EndsStand
<1> USE DEF IInv, TypeOK, TurnState, Claimed, CancelsOpen, Claiming, Ended,
          EndsStand, Terminal, RunTerminal
<1>1. ASSUME NEW n \in Node, ClaimIntent(n)
      PROVE  EndsStand
  BY <1>1 DEF ClaimIntent, Idle, Ready
<1>2. CASE CreateTask
  BY <1>2 DEF CreateTask
<1>3. CASE CreateAttempt
  BY <1>3 DEF CreateAttempt
<1>4. CASE SubmitRun
  BY <1>4 DEF SubmitRun
<1>5. CASE SubmitRefused
  BY <1>5 DEF SubmitRefused, durable
<1>6. CASE MarkRunning
  BY <1>6 DEF MarkRunning, SetTask, TaskOpen
<1>7. ASSUME NEW s \in RunTerminal \cup {"admitted"}, RunEnds(s)
      PROVE  EndsStand
  BY <1>7 DEF RunEnds, Idle
<1>8. CASE SettleTask
  BY <1>8 DEF SettleTask, CloseTask, SetTask, TaskOpen
<1>9. CASE CompleteNode
  BY <1>9 DEF CompleteNode, AcceptsResult, Done
<1>10. CASE ProjectGraph
  BY <1>10 DEF ProjectGraph, Projected, Done
<1>11. CASE ProjectGoal
  BY <1>11 DEF ProjectGoal, Done
<1>12. CASE ProjectGoalThrows
  BY <1>12 DEF ProjectGoalThrows, durable
<1>13. ASSUME NEW n \in Node, RecoverProven(n)
      PROVE  EndsStand
  BY <1>13 DEF RecoverProven, CloseTask, SetTask, TaskOpen, Proof, RecoveredNodeStatus
<1>14. ASSUME NEW n \in Node, RecoverUnproven(n)
      PROVE  EndsStand
  BY <1>14 DEF RecoverUnproven, Proof, NeverDispatched
<1>15. CASE RecoveryDone
  BY <1>15 DEF RecoveryDone, durable
<1>16. ASSUME NEW n \in Node, CancelNode(n)
      PROVE  EndsStand
  BY <1>16 DEF CancelNode
<1>17. ASSUME NEW n \in Node, CancelRunning(n)
      PROVE  EndsStand
  BY <1>17 DEF CancelRunning, CloseTask, SetTask, TaskOpen
<1>18. CASE CancelGoal
  BY <1>18 DEF CancelGoal
<1>19. CASE CancelDone
  BY <1>19 DEF CancelDone, durable
<1>20. CASE StartGraph
  BY <1>20 DEF StartGraph, Idle, local
<1>21. CASE PauseGraph
  BY <1>21 DEF PauseGraph, Idle, local
<1>22. CASE CancelGraph
  BY <1>22 DEF CancelGraph, Idle
<1>23. ASSUME NEW s \in {"active", "paused", "cancelled"}, UpdateGoal(s)
      PROVE  EndsStand
  BY <1>23 DEF UpdateGoal, Idle, local
<1>24. ASSUME NEW n \in Node, CancelTask(n)
      PROVE  EndsStand
  BY <1>24 DEF CancelTask, Idle, SetTask, TaskOpen, local
<1>25. CASE StartHost
  BY <1>25 DEF StartHost, Recover
<1>26. CASE Rebuild
  BY <1>26 DEF Rebuild, Recover, Idle
<1>27. CASE Crash
  BY <1>27 DEF Crash, durable
<1>28. CASE UNCHANGED vars
  BY <1>28 DEF vars
<1> QED
  BY <1>1, <1>2, <1>3, <1>4, <1>5, <1>6, <1>7, <1>8, <1>9, <1>10, <1>11,
     <1>12, <1>13, <1>14, <1>15, <1>16, <1>17, <1>18, <1>19, <1>20, <1>21,
     <1>22, <1>23, <1>24, <1>25, <1>26, <1>27, <1>28
     DEF Next, ExecuteStep, ProjectStep, RecoverStep, CancelStep, ClientStep, ProcessStep

LEMMA Initially == Init => IInv
<1> SUFFICES ASSUME Init PROVE IInv
  OBVIOUS
<1>1. TypeOK
  BY MaxRestartsAssumption
     DEF Init, TypeOK, GoalStatus, GraphStatus, NodeStatus, TaskStatus,
         AttemptStatus, RunStatus, RunTerminal, Terminal, Turn
<1>2. TurnState /\ Traced /\ Claimed /\ Completed /\ CancelsOpen /\ GraphTurns
  BY DEF Init, TurnState, Traced, Claimed, Completed, CancelsOpen, GraphTurns, Claiming
<1> QED BY <1>1, <1>2 DEF IInv

LEMMA Inductive == Spec => []IInv
<1>1. IInv /\ [Next]_vars => IInv'
  <2> SUFFICES ASSUME IInv, [Next]_vars PROVE IInv'
    OBVIOUS
  <2>1. TypeOK' /\ TurnState'
    BY TypeStep, TurnStep DEF IInv
  <2> QED BY <2>1, TracedStep, ClaimedStep, CompletedStep, CancelsOpenStep,
            GraphTurnsStep DEF IInv
<1> QED BY <1>1, Initially, PTL DEF Spec

-----------------------------------------------------------------------------
(* The theorems.                                                           *)

(* GoalGraph!TypeOK holds in every reachable state.                        *)
THEOREM TypeCorrect == Spec => []TypeOK
BY Inductive, PTL DEF IInv

(* For any graph and any number of crashes, rebuilds and recoveries, a     *)
(* node gets at most one AgentRun.                                         *)
THEOREM AtMostOneRun == Spec => []DispatchedOnce
<1>1. IInv => DispatchedOnce
  <2> SUFFICES ASSUME IInv, NEW n \in Node PROVE dispatched[n] <= 1
    BY DEF DispatchedOnce
  <2>1. dispatched[n] \in {0, 1}
    BY DEF IInv, Traced
  <2> QED BY <2>1
<1> QED BY <1>1, Inductive, PTL

(* No AgentRun is admitted before every dependency of its node completed.  *)
THEOREM InDependencyOrder == Spec => []DependenciesFirst
<1>1. IInv => DependenciesFirst
  BY DEF IInv, TypeOK, Traced, DependenciesFirst
<1> QED BY <1>1, Inductive, PTL

(* A completed node has a completed run, a completed graph completed nodes. *)
THEOREM NothingInvented == Spec => []CompletedMeansDone
<1>1. IInv => CompletedMeansDone
  BY DEF IInv, Completed, CompletedMeansDone
<1> QED BY <1>1, Inductive, PTL

(* No late result, recovery or repeated cancel rewrites what has ended.    *)
THEOREM WhatEndedStands == Spec => TerminalStands
<1>1. IInv /\ [Next]_vars => [EndsStand]_vars
  BY EndsStandStep
<1> QED BY <1>1, Inductive, PTL DEF Spec, TerminalStands

-----------------------------------------------------------------------------
(* The rows implement GraphPlan.  Each action of the plan is reached by    *)
(* the actions of GoalGraph that have its name's effect; whatever else a   *)
(* turn writes the plan does not see.                                      *)

Verdict == [n \in Node |-> IF node[n] \in Terminal THEN node[n] ELSE "open"]

(* The mapped variables move only with the rows they are mapped from.      *)
LEMMA SameRows ==
    ASSUME run' = run, node' = node, graph' = graph
    PROVE  UNCHANGED Plan!planVars
BY DEF Plan!planVars

(* Writing one node's row is writing its verdict.                          *)
LEMMA VerdictOfNode ==
    ASSUME TypeOK, NEW n \in Node, NEW s \in NodeStatus,
           node' = [node EXCEPT ![n] = s]
    PROVE  Verdict' = [Verdict EXCEPT ![n] = IF s \in Terminal THEN s ELSE "open"]
BY DEF TypeOK, Verdict

(* submitPrompt: the claim made sure of the dependencies.                  *)
LEMMA SubmitImplements ==
    ASSUME IInv, SubmitRun
    PROVE  Plan!Dispatch(current)
<1>1. /\ turn = "submit" /\ current \in Node
      /\ run' = [run EXCEPT ![current] = "admitted"]
      /\ UNCHANGED <<graph, node>>
  BY DEF IInv, TurnState, SubmitRun, Claiming
<1>2. graph = "running"
  BY <1>1 DEF IInv, GraphTurns, Claiming
<1>3. /\ node[current] = "running"
      /\ dispatched[current] = 0
      /\ \A d \in Dep[current] : node[d] = "completed"
  BY <1>1 DEF IInv, Claimed, Claiming
<1>4. run[current] = "none"
  BY <1>1, <1>3 DEF IInv, Traced
<1>5. Dep[current] \subseteq Node
  BY <1>1, DepAssumption
<1> QED
  BY <1>1, <1>2, <1>3, <1>4, <1>5 DEF Plan!Dispatch, Terminal

(* CreateAttempt's fresh run id: nothing was admitted under the last one.  *)
LEMMA AttemptImplements ==
    ASSUME IInv, CreateAttempt
    PROVE  UNCHANGED Plan!planVars
<1>1. /\ turn = "attempt" /\ current \in Node
      /\ run' = [run EXCEPT ![current] = "none"]
      /\ UNCHANGED <<graph, node>>
  BY DEF IInv, TurnState, CreateAttempt, Claiming
<1>2. dispatched[current] = 0
  BY <1>1 DEF IInv, Claimed, Claiming
<1>3. run[current] = "none"
  BY <1>1, <1>2 DEF IInv, Traced
<1>4. run' = run
  BY <1>1, <1>3 DEF IInv, TypeOK
<1> QED BY <1>1, <1>4, SameRows

(* A run settles, or opening the authority settles those on disk.          *)
LEMMA SettleImplements ==
    ASSUME IInv, UNCHANGED <<graph, node>>,
           \/ \E s \in RunTerminal \cup {"admitted"} : RunEnds(s)
           \/ StartHost \/ Rebuild
    PROVE  Plan!WorkSettles
<1>1. ASSUME NEW s \in RunTerminal \cup {"admitted"}, RunEnds(s)
      PROVE  \A n \in Node : \/ run'[n] = run[n]
                             \/ run[n] = "admitted" /\ run'[n] \in RunTerminal
  <2>1. live \in Node /\ run[live] = "admitted" /\ run' = [run EXCEPT ![live] = s]
    BY <1>1 DEF IInv, TypeOK, Completed, RunEnds
  <2> QED BY <1>1, <2>1 DEF IInv, TypeOK
<1>2. ASSUME StartHost \/ Rebuild
      PROVE  \A n \in Node : \/ run'[n] = run[n]
                             \/ run[n] = "admitted" /\ run'[n] \in RunTerminal
  BY <1>2, ReconciledRows DEF IInv, TypeOK, StartHost, Rebuild, Recover
<1> QED
  BY <1>1, <1>2 DEF Plan!WorkSettles, Plan!WorkEnds, RunTerminal

(* completeNode, for a result or for what a recovery has proved.           *)
LEMMA CompleteImplements ==
    ASSUME IInv, CompleteNode
    PROVE  \/ UNCHANGED Plan!planVars
           \/ \E n \in Node, v \in Plan!Judged : Plan!Judge(n, v)
<1>1. CASE AcceptsResult(current)
  <2>1. /\ current \in Node /\ result \in {"completed", "failed", "blocked"}
        /\ graph \notin Terminal /\ node[current] = "running"
        /\ node' = [node EXCEPT ![current] = result]
        /\ UNCHANGED <<graph, run>>
    BY <1>1 DEF IInv, TypeOK, TurnState, CompleteNode, AcceptsResult
  <2>2. result = "completed" => run[current] = "completed"
    BY DEF IInv, Completed
  <2>3. Verdict' = [Verdict EXCEPT ![current] = result]
    BY <2>1, VerdictOfNode DEF IInv, Terminal, NodeStatus
  <2>4. Verdict[current] = "open"
    BY <2>1 DEF Verdict, Terminal
  <2> QED
    BY <2>1, <2>2, <2>3, <2>4 DEF Verdict, Plan!Judge, Plan!Judged, Plan!PlanEnds, Terminal
<1>2. CASE ~AcceptsResult(current)
  BY <1>2, SameRows DEF CompleteNode
<1> QED BY <1>1, <1>2

(* A recovery that can prove nothing: back to the queue, or blocked.       *)
LEMMA UnprovenImplements ==
    ASSUME IInv, NEW n \in Node, RecoverUnproven(n)
    PROVE  UNCHANGED Plan!planVars \/ Plan!Judge(n, "blocked")
<1>1. UNCHANGED <<graph, run>>
  BY DEF RecoverUnproven
<1>2. CASE graph = "running" /\ node[n] = "running"
  <2>1. Verdict[n] = "open" /\ graph \notin Plan!PlanEnds
    BY <1>2 DEF Verdict, Terminal, Plan!PlanEnds, Plan!Judged
  <2>2. CASE NeverDispatched(n)
    <3>1. Verdict' = [Verdict EXCEPT ![n] = "open"]
      BY <1>2, <2>2, VerdictOfNode DEF RecoverUnproven, IInv, NodeStatus, Terminal
    <3>2. Verdict' = Verdict
      BY <2>1, <3>1 DEF Verdict
    <3> QED BY <1>1, <3>2 DEF Plan!planVars, Verdict
  <2>3. CASE ~NeverDispatched(n)
    <3>1. Verdict' = [Verdict EXCEPT ![n] = "blocked"]
      BY <1>2, <2>3, VerdictOfNode DEF RecoverUnproven, IInv, NodeStatus, Terminal
    <3> QED
      BY <1>1, <1>2, <2>1, <3>1 DEF Plan!Judge, Verdict, Terminal
  <2> QED BY <2>2, <2>3
<1>3. CASE ~(graph = "running" /\ node[n] = "running")
  BY <1>1, <1>3, SameRows DEF RecoverUnproven
<1> QED BY <1>2, <1>3

(* projectGraphStatus ends the graph as its nodes have ended.              *)
LEMMA ProjectImplements ==
    ASSUME IInv, ProjectGraph
    PROVE  \/ UNCHANGED Plan!planVars
           \/ \E v \in Plan!PlanEnds : Plan!Conclude(v)
<1>1. graph' = Projected /\ UNCHANGED <<node, run>>
  BY DEF ProjectGraph
<1>2. CASE Projected = graph
  BY <1>1, <1>2, SameRows
<1>3. CASE Projected # graph
  <2>1. graph \notin Terminal
    BY <1>3 DEF Projected
  <2>2. \/ Projected = "completed" /\ \A n \in Node : node[n] = "completed"
        \/ Projected \in {"failed", "blocked"} /\ \E n \in Node : node[n] = Projected
    BY <1>3 DEF Projected
  <2>3. Plan!Conclude(Projected)
    BY <1>1, <2>1, <2>2 DEF Plan!Conclude, Plan!PlanEnds, Plan!Judged, Terminal
  <2> QED BY <2>2, <2>3 DEF Plan!PlanEnds, Plan!Judged
<1> QED BY <1>2, <1>3

(* graph.cancel ends the graph, then every node that is still open.        *)
LEMMA CancelGraphImplements ==
    ASSUME IInv, CancelGraph
    PROVE  UNCHANGED Plan!planVars \/ Plan!Conclude("cancelled")
<1>1. graph' = "cancelled" /\ UNCHANGED <<node, run>> /\ graph \notin Terminal \ {"cancelled"}
  BY DEF CancelGraph
<1>2. CASE graph = "cancelled"
  BY <1>1, <1>2, SameRows
<1>3. CASE graph # "cancelled"
  BY <1>1, <1>3 DEF Plan!Conclude, Plan!PlanEnds, Plan!Judged, Terminal
<1> QED BY <1>2, <1>3

LEMMA CancelNodeImplements ==
    ASSUME IInv, NEW n \in Node, CancelNode(n)
    PROVE  Plan!GiveUp(n)
<1>1. /\ node' = [node EXCEPT ![n] = "cancelled"]
      /\ UNCHANGED <<graph, run>>
      /\ turn = "cancelNodes" /\ n \in todo
  BY DEF CancelNode
<1>2. graph = "cancelled" /\ node[n] \notin Ended
  BY <1>1 DEF IInv, GraphTurns, CancelsOpen
<1>3. Verdict[n] \in {"open", "blocked"}
  BY <1>2 DEF Verdict, Terminal, Ended
<1>4. Verdict' = [Verdict EXCEPT ![n] = "cancelled"]
  BY <1>1, VerdictOfNode DEF IInv, NodeStatus, Terminal
<1> QED
  BY <1>1, <1>2, <1>3, <1>4 DEF Plan!GiveUp, Verdict, Terminal

LEMMA SteerImplements ==
    ASSUME StartGraph \/ PauseGraph
    PROVE  Plan!Steer
BY DEF StartGraph, PauseGraph, Plan!Steer, Plan!PlanEnds, Plan!Judged, Terminal

(* A claim shows the plan nothing: its node was open and stays so.         *)
LEMMA ClaimImplements ==
    ASSUME IInv, NEW n \in Node, ClaimIntent(n)
    PROVE  UNCHANGED Plan!planVars
<1>1. /\ node' = [node EXCEPT ![n] = "running"]
      /\ UNCHANGED <<graph, run>>
      /\ node[n] \in {"pending", "ready"}
  BY DEF ClaimIntent, Ready
<1>2. Verdict[n] = "open"
  BY <1>1 DEF Verdict, Terminal
<1>3. Verdict' = [Verdict EXCEPT ![n] = "open"]
  BY <1>1, VerdictOfNode DEF IInv, NodeStatus, Terminal
<1>4. Verdict' = Verdict
  BY <1>2, <1>3 DEF Verdict
<1> QED BY <1>1, <1>4 DEF Plan!planVars, Verdict

(* Every other transaction writes rows the plan does not look at.          *)
LEMMA HiddenStep ==
    ASSUME \/ CreateTask \/ SubmitRefused \/ MarkRunning \/ SettleTask
           \/ ProjectGoal \/ ProjectGoalThrows
           \/ \E n \in Node : RecoverProven(n) \/ CancelRunning(n) \/ CancelTask(n)
           \/ RecoveryDone \/ CancelGoal \/ CancelDone
           \/ \E s \in {"active", "paused", "cancelled"} : UpdateGoal(s)
           \/ Crash \/ UNCHANGED vars
    PROVE  UNCHANGED Plan!planVars
<1>1. UNCHANGED <<run, node, graph>>
  BY DEF CreateTask, SubmitRefused, MarkRunning, SettleTask, ProjectGoal,
         ProjectGoalThrows, RecoverProven, CancelRunning, CancelTask, RecoveryDone,
         CancelGoal, CancelDone, UpdateGoal, Crash, durable, vars
<1> QED BY <1>1, SameRows

LEMMA StepImplements ==
    ASSUME IInv, [Next]_vars
    PROVE  [Plan!PlanNext]_(Plan!planVars)
<1>1. ASSUME NEW n \in Node, ClaimIntent(n)
      PROVE  UNCHANGED Plan!planVars
  BY <1>1, ClaimImplements
<1>2. ASSUME SubmitRun PROVE Plan!PlanNext
  <2>1. current \in Node
    BY <1>2 DEF IInv, TurnState, SubmitRun, Claiming
  <2> QED BY <1>2, <2>1, SubmitImplements DEF Plan!PlanNext
<1>3. ASSUME \/ \E s \in RunTerminal \cup {"admitted"} : RunEnds(s)
             \/ StartHost \/ Rebuild
      PROVE  Plan!PlanNext
  <2>1. UNCHANGED <<graph, node>>
    BY <1>3 DEF RunEnds, StartHost, Rebuild, Recover
  <2> QED BY <1>3, <2>1, SettleImplements DEF Plan!PlanNext
<1>4. ASSUME CompleteNode PROVE [Plan!PlanNext]_(Plan!planVars)
  BY <1>4, CompleteImplements DEF Plan!PlanNext
<1>5. ASSUME NEW n \in Node, RecoverUnproven(n)
      PROVE  [Plan!PlanNext]_(Plan!planVars)
  BY <1>5, UnprovenImplements DEF Plan!PlanNext, Plan!Judged
<1>6. ASSUME ProjectGraph PROVE [Plan!PlanNext]_(Plan!planVars)
  BY <1>6, ProjectImplements DEF Plan!PlanNext
<1>7. ASSUME CancelGraph PROVE [Plan!PlanNext]_(Plan!planVars)
  BY <1>7, CancelGraphImplements DEF Plan!PlanNext, Plan!PlanEnds
<1>8. ASSUME NEW n \in Node, CancelNode(n) PROVE Plan!PlanNext
  BY <1>8, CancelNodeImplements DEF Plan!PlanNext
<1>9. ASSUME StartGraph \/ PauseGraph PROVE Plan!PlanNext
  BY <1>9, SteerImplements DEF Plan!PlanNext
<1>10. ASSUME CreateAttempt PROVE UNCHANGED Plan!planVars
  BY <1>10, AttemptImplements
<1> QED
  BY <1>1, <1>2, <1>3, <1>4, <1>5, <1>6, <1>7, <1>8, <1>9, <1>10, HiddenStep
     DEF Next, ExecuteStep, ProjectStep, RecoverStep, CancelStep, ClientStep, ProcessStep

(* Whatever the graph, and wherever the Host dies between two transactions, *)
(* the rows keep what GraphPlan promises the client: each node worked on    *)
(* once and in order, judged by its work, the graph by its nodes.           *)
THEOREM RowsKeepThePlan == Spec => ImplementsPlan
<1>1. Init => Plan!PlanInit
  BY DEF Init, Plan!PlanInit, Terminal
<1>2. IInv /\ [Next]_vars => [Plan!PlanNext]_(Plan!planVars)
  BY StepImplements
<1> QED
  BY <1>1, <1>2, Inductive, PTL DEF Spec, ImplementsPlan, Plan!PlanSpec

=============================================================================
