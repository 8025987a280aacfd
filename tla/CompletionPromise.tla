------------------------- MODULE CompletionPromise -------------------------
(***************************************************************************)
(* What submitPrompt() promises of the completion it returns, whatever      *)
(* becomes of the connection and the Host: it is given away once, it is     *)
(* resolved only with an end that the run has had, or rejected, and neither *)
(* the run's end nor the answer is ever taken back.  The run does not wait  *)
(* for its client: a rejection says nothing of it.  Runs are independent    *)
(* of each other; one step may move several (a Host that dies).             *)
(***************************************************************************)
CONSTANTS Run, Outcome    \* Outcome: the ends of a run

VARIABLES
    record,    \* record[r]: what is recorded of the run: none, open, its end
    answer     \* answer[r]: the completion: none, waiting, rejected, the end given

promiseVars == <<record, answer>>

PromiseInit ==
    /\ record = [r \in Run |-> "none"]
    /\ answer = [r \in Run |-> "none"]

Begin(r) == record[r] = "none" /\ record'[r] = "open"
End(r) == record[r] = "open" /\ record'[r] \in Outcome

Ask(r) == answer[r] = "none" /\ answer'[r] = "waiting"
Reject(r) == answer[r] = "waiting" /\ answer'[r] = "rejected"
Resolve(r) == answer[r] = "waiting" /\ record[r] \in Outcome /\ answer'[r] = record[r]

PromiseNext ==
    \A r \in Run :
        /\ Begin(r) \/ End(r) \/ record'[r] = record[r]
        /\ Ask(r) \/ Reject(r) \/ Resolve(r) \/ answer'[r] = answer[r]

PromiseSpec == PromiseInit /\ [][PromiseNext]_promiseVars
=============================================================================
