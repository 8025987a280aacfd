----------------------------- MODULE GraphPlan -----------------------------
(***************************************************************************)
(* What a goal graph promises to the client that starts it, whatever        *)
(* becomes of the Host: a node is worked on at most once, after everything  *)
(* it depends on was completed and while the graph runs; a node is judged   *)
(* completed only by completed work; the graph ends as its nodes have       *)
(* ended, or as its client says; and what has ended stays so.  GoalGraph,   *)
(* with its transactions, crashes and recoveries, implements this.          *)
(***************************************************************************)
CONSTANTS Node, Dep

VARIABLES
    work,      \* work[n]: the one AgentRun of the node
    verdict,   \* verdict[n]: what the graph says of the node
    plan       \* the graph: held back, running, or its end

planVars == <<work, verdict, plan>>

Judged == {"completed", "failed", "blocked"}
PlanEnds == Judged \cup {"cancelled"}
WorkEnds == {"completed", "failed", "incomplete", "cancelled"}

PlanInit ==
    /\ work = [n \in Node |-> "none"]
    /\ verdict = [n \in Node |-> "open"]
    /\ plan = "held"

Dispatch(n) ==
    /\ plan = "running" /\ verdict[n] = "open" /\ work[n] = "none"
    /\ \A d \in Dep[n] : verdict[d] = "completed"
    /\ work' = [work EXCEPT ![n] = "admitted"]
    /\ UNCHANGED <<verdict, plan>>

\* work comes to its end, or a new Host finds the ends of several
WorkSettles ==
    /\ \A n \in Node : work'[n] = work[n] \/ (work[n] = "admitted" /\ work'[n] \in WorkEnds)
    /\ UNCHANGED <<verdict, plan>>

Judge(n, v) ==
    /\ plan \notin PlanEnds /\ verdict[n] = "open"
    /\ v = "completed" => work[n] = "completed"
    /\ verdict' = [verdict EXCEPT ![n] = v]
    /\ UNCHANGED <<work, plan>>

\* the client has cancelled the graph
GiveUp(n) ==
    /\ plan = "cancelled" /\ verdict[n] \in {"open", "blocked"}
    /\ verdict' = [verdict EXCEPT ![n] = "cancelled"]
    /\ UNCHANGED <<work, plan>>

\* start, resume, pause
Steer ==
    /\ plan \notin PlanEnds
    /\ plan' \in {"held", "running"}
    /\ UNCHANGED <<work, verdict>>

Conclude(v) ==
    /\ plan \notin PlanEnds
    /\ \/ v = "completed" /\ \A n \in Node : verdict[n] = "completed"
       \/ v \in {"failed", "blocked"} /\ \E n \in Node : verdict[n] = v
       \/ v = "cancelled"
    /\ plan' = v
    /\ UNCHANGED <<work, verdict>>

PlanNext ==
    \/ \E n \in Node : Dispatch(n) \/ GiveUp(n) \/ \E v \in Judged : Judge(n, v)
    \/ WorkSettles \/ Steer
    \/ \E v \in PlanEnds : Conclude(v)

PlanSpec == PlanInit /\ [][PlanNext]_planVars
=============================================================================
