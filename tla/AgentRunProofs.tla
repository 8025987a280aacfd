--------------------------- MODULE AgentRunProofs ---------------------------
(***************************************************************************)
(* Theorems about AgentRun, for any set of run ids, any set of failing     *)
(* calls and any outcomes of the completion gate.                          *)
(***************************************************************************)
EXTENDS AgentRun, TLAPS

LEMMA TypeCorrectInitially == Init => TypeOK
<1> SUFFICES ASSUME Init PROVE TypeOK
  OBVIOUS
<1>1. executions \in [Run -> Nat] /\ fact \in [Run -> Outcome \cup {NoFact}]
  BY DEF Init
<1>2. row \in [Run -> RowStatus] /\ ledger \in [Run -> LedgerStatus]
  BY DEF Init, RowStatus, LedgerStatus
<1>3. told \in [Run -> TerminalStatus \cup {"none"}] /\ outcome \in Outcome \cup {NoFact}
  BY DEF Init
<1> QED BY <1>1, <1>2, <1>3 DEF Init, TypeOK, Pc

LEMMA Conversions ==
    ASSUME NEW o \in Outcome
    PROVE  /\ Stored(o) \in Outcome /\ Stored(o).status = o.status
           /\ HostOutcome(o) \in Outcome /\ HostOutcome(o).status = o.status
BY DEF Stored, HostOutcome, Make, Outcome, Note

LEMMA NoConversion == Stored(NoFact) = NoFact /\ HostOutcome(NoFact) = NoFact
BY DEF Stored, HostOutcome, NoFact

LEMMA TypePreserved ==
    ASSUME TypeOK, [Next]_vars
    PROVE  TypeOK'
<1> USE DEF TypeOK, Goto, At, disk, seen
<1>1. CASE StartLedger
  BY <1>1 DEF StartLedger, Outcome, Note, Make, LedgerStatus, TerminalStatus, Pc
<1>2. CASE Prepare
  BY <1>2 DEF Prepare, ClearQuietly, Outcome, Note, Make, TerminalStatus, Pc
<1>3. CASE ContinuationRefused
  BY <1>3 DEF ContinuationRefused, ClearQuietly, Outcome, Note, Make, TerminalStatus, Pc
<1>4. CASE SettleCheckpoint
  <2>1. checkpoint' \in Run \cup {NoRun} /\ pc' \in Pc
    BY <1>4 DEF SettleCheckpoint, Pc
  <2>2. outcome' \in Outcome \cup {NoFact}
    <3>1. CASE outcome \in Outcome
      BY <1>4, <3>1 DEF SettleCheckpoint, Outcome, Note, Make, TerminalStatus
    <3>2. CASE outcome = NoFact
      BY <1>4, <3>2 DEF SettleCheckpoint, Resumable, Outcome, Note, Make, TerminalStatus, NoFact
    <3> QED BY <3>1, <3>2
  <2> QED BY <1>4, <2>1, <2>2 DEF SettleCheckpoint, Pc
<1>5. CASE RecordOutcome
  <2>1. Stored(outcome) \in Outcome \cup {NoFact}
    BY Conversions, NoConversion
  <2>2. fact' \in [Run -> Outcome \cup {NoFact}]
    BY <1>5, <2>1 DEF RecordOutcome
  <2>3. checkpoint' \in Run \cup {NoRun} /\ pc' \in Pc /\ pc # "none" /\ pc' # "none"
    BY <1>5 DEF RecordOutcome, Pc
  <2>4. UNCHANGED <<row, ledger, lease, up, closed, mode, activeRun, continuing, aborted,
                    asking, outcome, verdict, told, executions>>
    BY <1>5 DEF RecordOutcome
  <2> QED BY <2>2, <2>3, <2>4 DEF Pc
<1>6. CASE HostCheck
  <2>1. outcome' \in Outcome \cup {NoFact}
    BY <1>6, Conversions, NoConversion DEF HostCheck
  <2>2. verdict' \in TerminalStatus \cup {"none"}
    BY <1>6 DEF HostCheck, Outcome, NoFact
  <2>3. pc' \in Pc /\ pc # "none" /\ pc' # "none" /\ asking' \in BOOLEAN
    BY <1>6 DEF HostCheck, Pc
  <2> QED BY <1>6, <2>1, <2>2, <2>3 DEF HostCheck
<1>7. CASE HostCatch
  BY <1>7 DEF HostCatch, Outcome, Note, Make, TerminalStatus, Pc
<1>8. CASE EnsureFact
  BY <1>8 DEF EnsureFact, CommitThrows, Outcome, Note, Make, TerminalStatus, Pc
<1>9. CASE FinishRow
  BY <1>9 DEF FinishRow, CommitThrows, Outcome, Note, Make, TerminalStatus, Pc, RowStatus, NoFact
<1>10. CASE FinishLedger
  BY <1>10 DEF FinishLedger, Outcome, Pc, LedgerStatus, NoFact
<1>11. CASE EmitTerminal
  BY <1>11 DEF EmitTerminal, Outcome, Pc, NoFact
<1>12. CASE Settle
  BY <1>12 DEF Settle, Pc
<1>13. CASE SaveStep
  BY <1>13 DEF SaveStep
<1>14. CASE AskPermission \/ AnswerPermission
  BY <1>14 DEF AskPermission, AnswerPermission, Pc
<1>15. CASE Decide
  BY <1>15, RunAssumption DEF Decide, GateOutcomes, Outcome, Note, Make, TerminalStatus, Pc
<1>16. CASE TurnThrows
  BY <1>16 DEF TurnThrows, ClearQuietly, Outcome, Note, Make, TerminalStatus, Pc
<1>17. CASE Cancel \/ Close
  <2>1. CASE CancelActive
    <3>1. /\ aborted' \in BOOLEAN /\ asking' \in BOOLEAN
          /\ pc' \in Pc /\ (pc' = "none" <=> pc = "none")
      BY <2>1 DEF CancelActive, Pc
    <3>2. closed' \in BOOLEAN /\ UNCHANGED <<disk, up, mode, activeRun, continuing, outcome, seen>>
      BY <1>17 DEF Cancel, Close
    <3> QED BY <3>1, <3>2
  <2>2. CASE Close /\ activeRun = NoRun /\ UNCHANGED <<aborted, asking, pc>>
    BY <2>2 DEF Close
  <2> QED BY <1>17, <2>1, <2>2 DEF Cancel, Close
<1>18. CASE StartMaintenance \/ EndMaintenance
  BY <1>18 DEF StartMaintenance, EndMaintenance, Admissible
<1>19. CASE Crash \/ Exit \/ \E r \in Run : CrashAdmitting(r)
  BY <1>19 DEF Crash, Exit, CrashAdmitting, ProcessEnds, RowStatus, LedgerStatus, Pc
<1>20. CASE Restart
  BY <1>20 DEF Restart, RowStatus, Outcome, NoFact
<1>21. CASE OtherTakesLease \/ OtherLeavesLease
  BY <1>21 DEF OtherTakesLease, OtherLeavesLease
<1>22. ASSUME NEW r \in Run, NEW resume \in BOOLEAN, Submit(r, resume)
       PROVE  TypeOK'
  <2>1. executions' \in [Run -> Nat] /\ row' \in [Run -> RowStatus]
    BY <1>22 DEF Submit, RowStatus
  <2>2. outcome' \in Outcome \cup {NoFact} /\ verdict' \in TerminalStatus \cup {"none"}
    BY <1>22 DEF Submit, Outcome, Note, Make, TerminalStatus
  <2>3. /\ activeRun' = r /\ pc' \in Pc \ {"none"}
        /\ lease' = "self" /\ continuing' = resume /\ aborted' = FALSE
    BY <1>22 DEF Submit, Pc
  <2>4. UNCHANGED <<fact, ledger, checkpoint, up, closed, mode, asking, told>>
    BY <1>22 DEF Submit
  <2> QED BY <2>1, <2>2, <2>3, <2>4, RunAssumption
<1>23. CASE \E r \in Run : Resubmit(r) \/ ListRuns(r)
  BY <1>23 DEF Resubmit, ListRuns, Outcome, LedgerStatus, NoFact, TerminalStatus
<1>24. CASE UNCHANGED vars
  BY <1>24 DEF vars
<1> QED
  BY <1>1, <1>2, <1>3, <1>4, <1>5, <1>6, <1>7, <1>8, <1>9, <1>10, <1>11, <1>12, <1>13,
     <1>14, <1>15, <1>16, <1>17, <1>18, <1>19, <1>20, <1>21, <1>22, <1>23, <1>24
     DEF Next, RunStep, LoopStep

(* AgentRun!TypeOK holds in every reachable state.                         *)
THEOREM TypeCorrect == Spec => []TypeOK
BY TypeCorrectInitially, TypePreserved, PTL DEF Spec
-----------------------------------------------------------------------------
(* The inductive invariant: what is on disk of any run, and how far the    *)
(* active run has come.                                                    *)
BeforeRecord == {"ledger", "prepare", "turn", "ask", "decided", "record"}

Committed == {"project", "ledgerEnd", "emit"}

Projected == {"ledgerEnd", "emit", "settle"}

OutcomeMade == {"decided", "record", "yielded", "ensure", "project", "ledgerEnd", "emit",
                "settle", "reject"}

\* nothing of a run exists before its row
RowComesFirst ==
    \A r \in Run : row[r] = "none" =>
        /\ fact[r] = NoFact /\ told[r] = "none"
        /\ ledger[r] = "none" /\ executions[r] = 0

\* the authority never knows a terminal status that the JSONL does not hold
RowRepeatsFact ==
    \A r \in Run : row[r] \in TerminalStatus => fact[r].status = row[r]

MaintenanceAlone == mode = "maintenance" => activeRun = NoRun

MaintenanceHoldsLease == mode = "maintenance" => lease = "self"

OutcomeKnown == pc \in OutcomeMade => outcome \in Outcome

ActiveRow ==
    activeRun # NoRun =>
        IF pc \in Projected THEN row[activeRun] = outcome.status
                            ELSE row[activeRun] \in {"admitted", "running"}

ActiveFact ==
    activeRun # NoRun =>
        /\ pc \in BeforeRecord => fact[activeRun] = NoFact
        /\ pc \in Committed => fact[activeRun] = outcome

ActiveUntold == activeRun # NoRun /\ pc # "settle" => told[activeRun] = "none"

ActiveLedger ==
    activeRun # NoRun /\ pc \notin {"emit", "settle"} => ledger[activeRun] \in {"none", "running"}

\* a completed outcome is on its way only after its checkpoint is gone
ActiveCheckpoint ==
    pc \in OutcomeMade \ {"decided"} /\ outcome.status = "completed" => checkpoint # activeRun

Lease == WriterHoldsLease /\ MaintenanceAlone /\ MaintenanceHoldsLease

Commit ==
    /\ RowComesFirst /\ RowRepeatsFact /\ ExecutedOnce
    /\ OutcomeKnown /\ ActiveRow /\ ActiveFact /\ ActiveUntold

IInv ==
    /\ Lease /\ Commit
    /\ ActiveLedger /\ LedgerFollowsFact
    /\ ActiveCheckpoint /\ CompletedLeavesNoCheckpoint

-----------------------------------------------------------------------------
LEMMA InitiallyIInv == Init => IInv
BY RunAssumption
DEF Init, IInv, Lease, Commit, RowComesFirst, RowRepeatsFact, ExecutedOnce, OutcomeKnown,
    ActiveRow, ActiveFact, ActiveUntold, ActiveLedger, LedgerFollowsFact, ActiveCheckpoint,
    CompletedLeavesNoCheckpoint, WriterHoldsLease, MaintenanceAlone, MaintenanceHoldsLease, OutcomeMade, NoFact,
    TerminalStatus

(* The lease is taken before a run or an operation starts and given up by  *)
(* whoever ends it; no other action of the process touches it.             *)
LEMMA LeasePreserved ==
    ASSUME TypeOK, Lease, [Next]_vars
    PROVE  Lease'
<1> USE DEF Lease, WriterHoldsLease, MaintenanceAlone, MaintenanceHoldsLease, TypeOK, Goto, At,
        disk, seen
<1>1. CASE RunStep
  BY <1>1 DEF RunStep, StartLedger, Prepare, ContinuationRefused, SettleCheckpoint, RecordOutcome,
     HostCheck, HostCatch, EnsureFact, FinishRow, FinishLedger, EmitTerminal, Settle
<1>2. CASE LoopStep
  BY <1>2 DEF LoopStep, SaveStep, AskPermission, AnswerPermission, Decide, TurnThrows
<1>3. CASE Cancel \/ Close
  BY <1>3 DEF Cancel, Close, CancelActive
<1>4. CASE StartMaintenance \/ EndMaintenance
  BY <1>4 DEF StartMaintenance, EndMaintenance, Admissible
<1>5. CASE Crash \/ Exit \/ Restart \/ \E r \in Run : CrashAdmitting(r)
  BY <1>5 DEF Crash, Exit, Restart, CrashAdmitting, ProcessEnds
<1>6. CASE OtherTakesLease \/ OtherLeavesLease
  BY <1>6 DEF OtherTakesLease, OtherLeavesLease
<1>7. CASE \E r \in Run : \E resume \in BOOLEAN : Submit(r, resume)
  BY <1>7 DEF Submit, Admissible
<1>8. CASE \E r \in Run : Resubmit(r) \/ ListRuns(r)
  BY <1>8 DEF Resubmit, ListRuns, Admissible
<1>9. CASE UNCHANGED vars
  BY <1>9 DEF vars
<1> QED
  BY <1>1, <1>2, <1>3, <1>4, <1>5, <1>6, <1>7, <1>8, <1>9 DEF Next

(* The commit: a fact is written once and before the row, the row is       *)
(* written once and before the event, and a run id is executed once.       *)
LEMMA CommitPreserved ==
    ASSUME TypeOK, TypeOK', Lease, Commit, [Next]_vars
    PROVE  Commit'
<1> USE DEF Commit, RowComesFirst, RowRepeatsFact, ExecutedOnce, OutcomeKnown, ActiveRow,
        ActiveFact, ActiveUntold, OutcomeMade, Projected, Committed, BeforeRecord,
        TypeOK, Goto, At, disk, seen
<1>1. CASE StartLedger
  BY <1>1 DEF StartLedger, Make, Outcome, Note, TerminalStatus
<1>2. CASE Prepare \/ ContinuationRefused
  BY <1>2 DEF Prepare, ContinuationRefused, Make, Outcome, Note, TerminalStatus
<1>3. CASE SettleCheckpoint
  BY <1>3 DEF SettleCheckpoint, Make, Outcome, Note, TerminalStatus
<1>4. CASE RecordOutcome
  BY <1>4, Conversions DEF RecordOutcome, TerminalStatus
<1>5. CASE HostCheck
  BY <1>5, Conversions DEF HostCheck
<1>6. CASE HostCatch
  BY <1>6 DEF HostCatch, Make, Outcome, Note, TerminalStatus
<1>7. CASE EnsureFact
  BY <1>7 DEF EnsureFact, CommitThrows, Make, Outcome, Note, TerminalStatus
<1>8. CASE FinishRow
  BY <1>8 DEF FinishRow, CommitThrows, Make, Outcome, Note, TerminalStatus
<1>9. CASE FinishLedger
  BY <1>9 DEF FinishLedger
<1>10. CASE EmitTerminal
  BY <1>10 DEF EmitTerminal, Outcome, TerminalStatus
<1>11. CASE Settle
  BY <1>11 DEF Settle
<1>12. CASE LoopStep
  BY <1>12, RunAssumption DEF LoopStep, SaveStep, AskPermission, AnswerPermission, Decide, TurnThrows,
     GateOutcomes, Make, Outcome, Note, TerminalStatus
<1>13. CASE Cancel \/ Close
  BY <1>13 DEF Cancel, Close, CancelActive
<1>14. CASE StartMaintenance \/ EndMaintenance \/ OtherTakesLease \/ OtherLeavesLease
  BY <1>14 DEF StartMaintenance, EndMaintenance, OtherTakesLease, OtherLeavesLease
<1>15. CASE Crash \/ Exit
  BY <1>15 DEF Crash, Exit, ProcessEnds
<1>16. ASSUME NEW r \in Run, CrashAdmitting(r) PROVE Commit'
  BY <1>16 DEF CrashAdmitting, ProcessEnds, TerminalStatus
<1>17. CASE Restart
  <2>1. activeRun = NoRun /\ activeRun' = NoRun /\ pc' = "none"
    BY <1>17 DEF Restart, Lease, WriterHoldsLease
  <2>2. \A r \in Run : fact[r] # NoFact => fact[r].status \in TerminalStatus
    BY DEF Outcome
  <2>3. \A r \in Run : row[r] # "none" /\ fact[r] # NoFact => row'[r] = fact[r].status
    BY <1>17 DEF Restart
  <2>4. \A r \in Run : row[r] = "none" \/ fact[r] = NoFact => row'[r] = row[r]
    BY <1>17 DEF Restart
  <2>5. fact' = fact /\ told' = told /\ ledger' = ledger /\ executions' = executions
    BY <1>17 DEF Restart
  <2>6. RowComesFirst'
    BY <2>2, <2>3, <2>4, <2>5 DEF TerminalStatus
  <2>7. RowRepeatsFact' /\ ExecutedOnce'
    BY <2>3, <2>4, <2>5 DEF TerminalStatus
  <2> QED BY <2>1, <2>6, <2>7
<1>18. ASSUME NEW r \in Run, NEW resume \in BOOLEAN, Submit(r, resume) PROVE Commit'
  <2>1. fact[r] = NoFact /\ told[r] = "none" /\ ledger[r] = "none" /\ executions[r] = 0
    BY <1>18 DEF Submit
  <2>2. /\ activeRun' = r /\ executions' = [executions EXCEPT ![r] = @ + 1]
        /\ UNCHANGED <<fact, told, ledger>>
    BY <1>18 DEF Submit
  <2>3. row' = [row EXCEPT ![r] = row'[r]] /\ row'[r] \in {"admitted", "running"}
    BY <1>18 DEF Submit
  <2>4. \/ pc' = "ledger"
        \/ pc' = "ensure" /\ outcome' = Make("failed", "uncaught")
    BY <1>18 DEF Submit
  <2>5. OutcomeKnown'
    BY <2>4 DEF Make, Outcome, Note, TerminalStatus
  <2>6. ActiveRow' /\ ActiveFact' /\ ActiveUntold'
    BY <2>1, <2>2, <2>3, <2>4
  <2>7. RowComesFirst' /\ RowRepeatsFact'
    BY <2>1, <2>2, <2>3 DEF TerminalStatus
  <2>8. ExecutedOnce'
    BY <2>1, <2>2
  <2> QED BY <2>5, <2>6, <2>7, <2>8
<1>19. CASE \E r \in Run : Resubmit(r) \/ ListRuns(r)
  BY <1>19 DEF Resubmit, ListRuns
<1>20. CASE UNCHANGED vars
  BY <1>20 DEF vars
<1> QED
  BY <1>1, <1>2, <1>3, <1>4, <1>5, <1>6, <1>7, <1>8, <1>9, <1>10, <1>11, <1>12, <1>13,
     <1>14, <1>15, <1>16, <1>17, <1>18, <1>19, <1>20
     DEF Next, RunStep

(* The ledger: its entry is open while the run is, and closed with what    *)
(* the JSONL says.                                                         *)
LEMMA LedgerPreserved ==
    ASSUME TypeOK, TypeOK', Lease, Commit, ActiveLedger, LedgerFollowsFact, [Next]_vars
    PROVE  ActiveLedger' /\ LedgerFollowsFact'
<1> USE DEF ActiveLedger, LedgerFollowsFact, ActiveFact, Commit, RowComesFirst, OutcomeKnown,
        OutcomeMade, Committed, BeforeRecord, TypeOK, TerminalStatus, Goto, At, disk, seen
<1>1. CASE StartLedger
  BY <1>1 DEF StartLedger
<1>2. CASE Prepare \/ ContinuationRefused \/ SettleCheckpoint
  BY <1>2 DEF Prepare, ContinuationRefused, SettleCheckpoint
<1>3. CASE RecordOutcome
  BY <1>3 DEF RecordOutcome
<1>4. CASE HostCheck \/ HostCatch \/ FinishRow
  BY <1>4 DEF HostCheck, HostCatch, FinishRow, CommitThrows
<1>5. CASE EnsureFact
  BY <1>5 DEF EnsureFact, CommitThrows
<1>6. CASE FinishLedger
  BY <1>6 DEF FinishLedger
<1>7. CASE EmitTerminal \/ Settle
  BY <1>7, RunAssumption DEF EmitTerminal, Settle
<1>8. CASE LoopStep
  BY <1>8 DEF LoopStep, SaveStep, AskPermission, AnswerPermission, Decide, TurnThrows
<1>9. CASE Cancel \/ Close
  BY <1>9 DEF Cancel, Close, CancelActive
<1>10. CASE StartMaintenance \/ EndMaintenance \/ OtherTakesLease \/ OtherLeavesLease
  BY <1>10 DEF StartMaintenance, EndMaintenance, OtherTakesLease, OtherLeavesLease
<1>11. CASE Crash \/ Exit \/ \E r \in Run : CrashAdmitting(r)
  BY <1>11, RunAssumption DEF Crash, Exit, CrashAdmitting, ProcessEnds
<1>12. CASE Restart
  BY <1>12 DEF Restart
<1>13. ASSUME NEW r \in Run, NEW resume \in BOOLEAN, Submit(r, resume)
       PROVE  ActiveLedger' /\ LedgerFollowsFact'
  BY <1>13 DEF Submit
<1>14. ASSUME NEW r \in Run, Resubmit(r) \/ ListRuns(r)
       PROVE  ActiveLedger' /\ LedgerFollowsFact'
  <2>1. CASE Resubmit(r)
    BY <2>1 DEF Resubmit
  <2>2. CASE ListRuns(r) /\ fact[r] # NoFact
    BY <2>2 DEF ListRuns, Outcome
  <2>3. CASE ListRuns(r) /\ fact[r] = NoFact
    <3>1. SUFFICES ASSUME activeRun = r PROVE FALSE
      BY <2>3 DEF ListRuns
    <3>2. pc \in {"emit", "settle"}
      BY <2>3, <3>1, RunAssumption DEF ListRuns
    <3>3. row[r] = outcome.status /\ outcome.status \in TerminalStatus
      BY <3>1, <3>2, RunAssumption DEF ActiveRow, Projected, Outcome
    <3>4. fact[r].status \in TerminalStatus
      BY <3>3 DEF RowRepeatsFact
    <3> QED BY <2>3, <3>4 DEF NoFact
  <2> QED BY <1>14, <2>1, <2>2, <2>3
<1>15. CASE UNCHANGED vars
  BY <1>15 DEF vars
<1> QED
  BY <1>1, <1>2, <1>3, <1>4, <1>5, <1>6, <1>7, <1>8, <1>9, <1>10, <1>11, <1>12, <1>13,
     <1>14, <1>15 DEF Next, RunStep

(* The checkpoint: only a run without a fact writes one, and a completed   *)
(* outcome waits until it is gone.                                         *)
LEMMA CheckpointPreserved ==
    ASSUME TypeOK, TypeOK', Lease, Commit, ActiveCheckpoint, CompletedLeavesNoCheckpoint, [Next]_vars
    PROVE  ActiveCheckpoint' /\ CompletedLeavesNoCheckpoint'
<1> USE DEF ActiveCheckpoint, CompletedLeavesNoCheckpoint, ActiveFact, Commit, OutcomeMade,
        BeforeRecord, Committed, TypeOK, ClearQuietly, Goto, At, disk, seen
<1>1. CASE StartLedger
  BY <1>1 DEF StartLedger, Make
<1>2. CASE Prepare \/ ContinuationRefused
  BY <1>2, RunAssumption DEF Prepare, ContinuationRefused, Make, NoFact
<1>3. CASE SettleCheckpoint
  BY <1>3, RunAssumption DEF SettleCheckpoint, Resumable, Make, NoFact
<1>4. CASE RecordOutcome
  BY <1>4, Conversions, RunAssumption DEF RecordOutcome, OutcomeKnown
<1>5. CASE HostCheck
  BY <1>5, Conversions DEF HostCheck, OutcomeKnown
<1>6. CASE HostCatch
  BY <1>6 DEF HostCatch, Make
<1>7. CASE EnsureFact \/ FinishRow
  BY <1>7 DEF EnsureFact, FinishRow, CommitThrows, Make
<1>8. CASE FinishLedger \/ EmitTerminal \/ Settle
  BY <1>8 DEF FinishLedger, EmitTerminal, Settle
<1>9. CASE LoopStep
  BY <1>9, RunAssumption DEF LoopStep, SaveStep, AskPermission, AnswerPermission, Decide,
     TurnThrows, Make, NoFact
<1>10. CASE Cancel \/ Close
  BY <1>10 DEF Cancel, Close, CancelActive
<1>11. CASE StartMaintenance \/ EndMaintenance \/ OtherTakesLease \/ OtherLeavesLease
  BY <1>11 DEF StartMaintenance, EndMaintenance, OtherTakesLease, OtherLeavesLease
<1>12. CASE Crash \/ Exit \/ \E r \in Run : CrashAdmitting(r)
  BY <1>12 DEF Crash, Exit, CrashAdmitting, ProcessEnds
<1>13. CASE Restart
  BY <1>13 DEF Restart
<1>14. CASE \E r \in Run : \E resume \in BOOLEAN : Submit(r, resume)
  BY <1>14 DEF Submit, Make
<1>15. CASE \E r \in Run : Resubmit(r) \/ ListRuns(r)
  BY <1>15 DEF Resubmit, ListRuns
<1>16. CASE UNCHANGED vars
  BY <1>16 DEF vars
<1> QED
  BY <1>1, <1>2, <1>3, <1>4, <1>5, <1>6, <1>7, <1>8, <1>9, <1>10, <1>11, <1>12, <1>13,
     <1>14, <1>15, <1>16 DEF Next, RunStep

LEMMA Invariance == Spec => [](TypeOK /\ IInv)
<1>1. TypeOK /\ IInv /\ [Next]_vars => TypeOK' /\ IInv'
  BY TypePreserved, LeasePreserved, CommitPreserved, LedgerPreserved, CheckpointPreserved DEF IInv
<1> QED
  BY <1>1, TypeCorrectInitially, InitiallyIInv, PTL DEF Spec

-----------------------------------------------------------------------------
(* AgentRun!WriterHoldsLease: a run writes only under the session's lease. *)
THEOREM OneWriter == Spec => []WriterHoldsLease
<1>1. IInv => WriterHoldsLease
  BY DEF IInv, Lease
<1> QED BY <1>1, Invariance, PTL

(* AgentRun!ExecutedOnce: no retry and no crash runs a run id twice.       *)
THEOREM AtMostOnce == Spec => []ExecutedOnce
<1>1. IInv => ExecutedOnce
  BY DEF IInv, Commit
<1> QED BY <1>1, Invariance, PTL

(* AgentRun!CompletedLeavesNoCheckpoint: completed work is not resumed.    *)
THEOREM CompletedIsNotResumed == Spec => []CompletedLeavesNoCheckpoint
<1>1. IInv => CompletedLeavesNoCheckpoint
  BY DEF IInv
<1> QED BY <1>1, Invariance, PTL

(* AgentRun!LedgerFollowsFact: the ledger never contradicts the JSONL.     *)
THEOREM LedgerIsProjection == Spec => []LedgerFollowsFact
<1>1. IInv => LedgerFollowsFact
  BY DEF IInv
<1> QED BY <1>1, Invariance, PTL

(* AgentRun!StartNeverRefused: reconciliation at the start never throws.   *)
THEOREM StartSucceeds == Spec => []StartNeverRefused
<1>1. IInv => StartNeverRefused
  BY DEF IInv, Commit, RowRepeatsFact, StartNeverRefused, Reconcilable
<1> QED BY <1>1, Invariance, PTL

-----------------------------------------------------------------------------
(* AgentRun implements RunLifecycle: every step of the code is a step of   *)
(* the lifecycle or leaves its three variables alone.                      *)
LEMMA AdmitStep ==
    ASSUME NEW r \in Run, row[r] = "none", UNCHANGED <<fact, told>>,
           row' = [row EXCEPT ![r] = "admitted"] \/ row' = [row EXCEPT ![r] = "running"]
    PROVE  Lifecycle!LifecycleNext
BY DEF Lifecycle!LifecycleNext, Lifecycle!Admit

LEMMA ConcludeStep ==
    ASSUME TypeOK, NEW r \in Run, row[r] \in {"admitted", "running"}, fact[r] = NoFact, NEW o \in Outcome,
           fact' = [fact EXCEPT ![r] = o], UNCHANGED <<row, told>>
    PROVE  Lifecycle!LifecycleNext
<1> DEFINE status == [s \in Run |-> fact[s].status]
<1>1. status' = [status EXCEPT ![r] = o.status]
  BY DEF TypeOK
<1>2. o.status \in Lifecycle!TerminalStatus
  BY DEF Outcome, Lifecycle!TerminalStatus, TerminalStatus
<1>3. status[r] = "none"
  BY DEF NoFact
<1> QED
  BY <1>1, <1>2, <1>3 DEF Lifecycle!LifecycleNext, Lifecycle!Conclude

LEMMA ProjectStep ==
    ASSUME NEW S \in SUBSET {r \in Run : row[r] \in {"admitted", "running"} /\ fact[r].status # "none"},
           row' = [r \in Run |-> IF r \in S THEN fact[r].status ELSE row[r]], UNCHANGED <<fact, told>>
    PROVE  Lifecycle!LifecycleNext
<1> DEFINE status == [s \in Run |-> fact[s].status]
<1>1. S \in SUBSET {r \in Run : row[r] \in {"admitted", "running"} /\ status[r] # "none"}
  OBVIOUS
<1>2. row' = [r \in Run |-> IF r \in S THEN status[r] ELSE row[r]]
  OBVIOUS
<1> QED
  BY <1>1, <1>2 DEF Lifecycle!LifecycleNext, Lifecycle!Project

LEMMA TellStep ==
    ASSUME TypeOK, NEW r \in Run, row[r] \in TerminalStatus, told[r] = "none",
           told' = [told EXCEPT ![r] = row[r]], UNCHANGED <<fact, row>>
    PROVE  Lifecycle!LifecycleNext
BY DEF Lifecycle!LifecycleNext, Lifecycle!Tell, Lifecycle!TerminalStatus, TerminalStatus

LEMMA StepImplements ==
    ASSUME TypeOK, IInv, [Next]_vars
    PROVE  [Lifecycle!LifecycleNext]_(Lifecycle!lifecycleVars)
<1>q. UNCHANGED <<fact, row, told>> => UNCHANGED Lifecycle!lifecycleVars
  BY DEF Lifecycle!lifecycleVars
<1> USE DEF IInv, Commit, Goto, At, disk, seen
<1>1. CASE RecordOutcome
  <2>1. activeRun \in Run /\ outcome \in Outcome
    BY <1>1, RunAssumption DEF RecordOutcome, TypeOK, OutcomeKnown, OutcomeMade
  <2>2. row[activeRun] \in {"admitted", "running"} /\ fact[activeRun] = NoFact
    BY <1>1, <2>1, RunAssumption DEF RecordOutcome, ActiveRow, ActiveFact, Projected, BeforeRecord
  <2> QED
    BY <1>1, <2>1, <2>2, ConcludeStep, Conversions DEF RecordOutcome
<1>2. CASE EnsureFact
  <2>1. activeRun \in Run /\ outcome \in Outcome
    BY <1>2, RunAssumption DEF EnsureFact, TypeOK, OutcomeKnown, OutcomeMade
  <2>2. row[activeRun] \in {"admitted", "running"}
    BY <1>2, <2>1, RunAssumption DEF EnsureFact, ActiveRow, Projected
  <2>3. CASE fact[activeRun] = NoFact
    BY <1>2, <2>1, <2>2, <2>3, ConcludeStep DEF EnsureFact
  <2>4. CASE fact[activeRun] # NoFact
    <3>1. fact' = fact
      BY <1>2, <2>4 DEF EnsureFact, TypeOK
    <3> QED BY <1>2, <1>q, <3>1 DEF EnsureFact
  <2> QED BY <2>3, <2>4
<1>3. CASE FinishRow
  <2>1. activeRun \in Run /\ outcome \in Outcome
    BY <1>3, RunAssumption DEF FinishRow, TypeOK, OutcomeKnown, OutcomeMade
  <2>2. row[activeRun] \in {"admitted", "running"} /\ fact[activeRun] = outcome
    BY <1>3, <2>1, RunAssumption DEF FinishRow, ActiveRow, ActiveFact, Projected, Committed
  <2>3. CASE row' = row
    BY <1>3, <2>3, <1>q DEF FinishRow
  <2>4. CASE row' # row
    <3>1. row' = [r \in Run |-> IF r \in {activeRun} THEN fact[r].status ELSE row[r]]
      BY <1>3, <2>2, <2>4 DEF FinishRow, TypeOK
    <3>2. outcome.status # "none"
      BY <2>1 DEF Outcome, TerminalStatus
    <3>3. {activeRun} \in SUBSET {r \in Run : row[r] \in {"admitted", "running"} /\ fact[r].status # "none"}
      BY <2>1, <2>2, <3>2
    <3> QED BY <1>3, <3>1, <3>3, ProjectStep DEF FinishRow
  <2> QED BY <2>3, <2>4
<1>4. CASE EmitTerminal
  <2>1. activeRun \in Run /\ outcome \in Outcome
    BY <1>4, RunAssumption DEF EmitTerminal, TypeOK, OutcomeKnown, OutcomeMade
  <2>2. row[activeRun] = outcome.status /\ told[activeRun] = "none"
    BY <1>4, <2>1, RunAssumption DEF EmitTerminal, ActiveRow, ActiveUntold, Projected
  <2> QED
    BY <1>4, <2>1, <2>2, TellStep DEF EmitTerminal, Outcome
<1>5. CASE Restart
  <2> DEFINE S == {r \in Run : row[r] \in {"admitted", "running"} /\ fact[r].status # "none"}
  <2>1. \A r \in Run : fact[r] = NoFact \/ fact[r] \in Outcome
    BY DEF TypeOK
  <2>2. \A r \in Run : fact[r] # NoFact <=> fact[r].status # "none"
    BY <2>1 DEF NoFact, Outcome, TerminalStatus
  <2>3. \A r \in Run : row[r] \in {"none", "admitted", "running"} \cup TerminalStatus
    BY DEF TypeOK, RowStatus
  <2>4. row' = [r \in Run |-> IF r \in S THEN fact[r].status ELSE row[r]]
    BY <1>5, <2>2, <2>3 DEF Restart, RowRepeatsFact
  <2> QED
    BY <1>5, <2>4, ProjectStep DEF Restart
<1>6. ASSUME NEW r \in Run, NEW resume \in BOOLEAN, Submit(r, resume)
      PROVE  Lifecycle!LifecycleNext
  BY <1>6, AdmitStep DEF Submit
<1>7. ASSUME NEW r \in Run, CrashAdmitting(r)
      PROVE  Lifecycle!LifecycleNext
  BY <1>7, AdmitStep DEF CrashAdmitting, ProcessEnds
<1>8. CASE \/ StartLedger \/ Prepare \/ ContinuationRefused \/ SettleCheckpoint
           \/ HostCheck \/ HostCatch \/ FinishLedger \/ Settle
  BY <1>8, <1>q DEF StartLedger, Prepare, ContinuationRefused, SettleCheckpoint, HostCheck,
     HostCatch, FinishLedger, Settle
<1>9. CASE LoopStep
  BY <1>9, <1>q DEF LoopStep, SaveStep, AskPermission, AnswerPermission, Decide, TurnThrows
<1>10. CASE Cancel \/ Close \/ StartMaintenance \/ EndMaintenance
  BY <1>10, <1>q DEF Cancel, Close, StartMaintenance, EndMaintenance
<1>11. CASE Crash \/ Exit \/ OtherTakesLease \/ OtherLeavesLease
  BY <1>11, <1>q DEF Crash, Exit, ProcessEnds, OtherTakesLease, OtherLeavesLease
<1>12. CASE \E r \in Run : Resubmit(r) \/ ListRuns(r)
  BY <1>12, <1>q DEF Resubmit, ListRuns
<1>13. CASE UNCHANGED vars
  BY <1>13, <1>q DEF vars
<1> QED
  BY <1>1, <1>2, <1>3, <1>4, <1>5, <1>6, <1>7, <1>8, <1>9, <1>10, <1>11, <1>12, <1>13
     DEF Next, RunStep

(* AgentRun!ImplementsLifecycle: the detailed run keeps what RunLifecycle  *)
(* promises - a terminal fact is written once, only then repeated by the   *)
(* row, and only then told to the clients - through every crash.           *)
THEOREM Refinement == Spec => ImplementsLifecycle
<1>1. Init => Lifecycle!LifecycleInit
  BY DEF Init, Lifecycle!LifecycleInit, NoFact
<1> QED
  BY <1>1, Invariance, StepImplements, PTL DEF Spec, ImplementsLifecycle, Lifecycle!LifecycleSpec

-----------------------------------------------------------------------------
(* AgentRun implements SingleWriter: an admission or the start of a        *)
(* maintenance operation is how the runtime goes to work; settling, the    *)
(* end of the operation and the end of the process are how it leaves.      *)
AtWork == activeRun # NoRun \/ mode = "maintenance"

LEMMA SessionStutter ==
    ASSUME lease' = lease, AtWork' = AtWork PROVE UNCHANGED Session!writerVars
BY DEF Session!writerVars, Holders, Writers, Other, AtWork

LEMMA SessionWork ==
    ASSUME lease # "other", lease' = "self", AtWork'
    PROVE  Session!WriterNext
BY DEF Session!WriterNext, Session!Work, Holders, Writers, Other, AtWork

\* nobody but this runtime had the session, and now it does not work on it
LEMMA SessionLeave ==
    ASSUME TypeOK, Lease, lease # "other", lease' \in {"free", "dead"}, ~ AtWork'
    PROVE  [Session!WriterNext]_(Session!writerVars)
<1>1. Holders' = {} /\ Writers' = {}
  BY DEF Holders, Writers, Other, AtWork
<1>2. CASE lease = "self"
  <2>1. Holders = {"self"}
    BY <1>2 DEF Holders
  <2> QED BY <1>1, <2>1 DEF Session!WriterNext, Session!Leave
<1>3. CASE lease # "self"
  <2>1. Holders = {} /\ Writers = {}
    BY <1>3 DEF Holders, Writers, Other, Lease, WriterHoldsLease, MaintenanceHoldsLease, TypeOK
  <2> QED BY <1>1, <2>1 DEF Session!writerVars
<1> QED BY <1>2, <1>3

LEMMA SessionRest ==
    ASSUME lease = "self", lease' = "self", ~ AtWork'
    PROVE  Session!WriterNext
BY DEF Session!WriterNext, Session!Rest, Holders, Writers, Other, AtWork

LEMMA SessionStep ==
    ASSUME TypeOK, TypeOK', Lease, Lease', [Next]_vars
    PROVE  [Session!WriterNext]_(Session!writerVars)
<1> USE DEF TypeOK, AtWork, Goto, At, disk, seen
<1>1. CASE \/ StartLedger \/ Prepare \/ ContinuationRefused \/ SettleCheckpoint \/ RecordOutcome
           \/ HostCheck \/ HostCatch \/ EnsureFact \/ FinishRow \/ FinishLedger \/ EmitTerminal
  <2>1. activeRun # NoRun /\ UNCHANGED <<activeRun, lease>>
    BY <1>1 DEF StartLedger, Prepare, ContinuationRefused, SettleCheckpoint, RecordOutcome,
       HostCheck, HostCatch, EnsureFact, FinishRow, FinishLedger, EmitTerminal
  <2> QED BY <2>1, SessionStutter
<1>2. CASE Settle
  <2>1. activeRun # NoRun /\ lease = "self" /\ mode # "maintenance"
    BY <1>2 DEF Settle, Lease, WriterHoldsLease, MaintenanceAlone
  <2>2. ~ AtWork'
    BY <1>2, <2>1 DEF Settle
  <2> QED BY <1>2, <2>1, <2>2, SessionLeave, SessionRest DEF Settle
<1>3. CASE LoopStep \/ Cancel \/ Close \/ UNCHANGED vars
  <2>1. UNCHANGED <<activeRun, mode, lease>>
    BY <1>3 DEF LoopStep, SaveStep, AskPermission, AnswerPermission, Decide, TurnThrows, Cancel,
       Close, CancelActive, vars
  <2> QED BY <2>1, SessionStutter
<1>4. CASE StartMaintenance
  BY <1>4, SessionWork DEF StartMaintenance, Admissible
<1>5. CASE EndMaintenance
  <2>1. activeRun' = NoRun /\ mode' = "idle" /\ lease = "self" /\ lease' = "free"
    BY <1>5 DEF EndMaintenance, Lease, MaintenanceAlone, MaintenanceHoldsLease
  <2> QED BY <2>1, SessionLeave
<1>6. CASE Crash \/ Exit
  <2>1. activeRun' = NoRun /\ mode' = "idle"
    BY <1>6 DEF Crash, Exit, ProcessEnds
  <2>2. CASE lease = "self"
    BY <1>6, <2>1, <2>2, SessionLeave DEF Crash, Exit
  <2>3. CASE lease # "self"
    <3>1. ~ AtWork /\ lease' = lease
      BY <1>6, <2>3 DEF Crash, Exit, Lease, WriterHoldsLease, MaintenanceHoldsLease
    <3> QED BY <2>1, <3>1, SessionStutter
  <2> QED BY <2>2, <2>3
<1>7. ASSUME NEW r \in Run, CrashAdmitting(r)
      PROVE  [Session!WriterNext]_(Session!writerVars)
  BY <1>7, SessionLeave DEF CrashAdmitting, ProcessEnds, Admissible
<1>8. CASE Restart \/ \E r \in Run : ListRuns(r)
  BY <1>8, SessionStutter DEF Restart, ListRuns
<1>9. ASSUME NEW r \in Run, NEW resume \in BOOLEAN, Submit(r, resume)
      PROVE  Session!WriterNext
  BY <1>9, RunAssumption, SessionWork DEF Submit, Admissible
<1>10. ASSUME NEW r \in Run, Resubmit(r)
       PROVE  [Session!WriterNext]_(Session!writerVars)
  BY <1>10, SessionLeave DEF Resubmit, Admissible
<1>11. CASE OtherTakesLease
  <2>1. Holders = {} /\ Holders' = {"other"} /\ ~ AtWork'
    BY <1>11 DEF OtherTakesLease, Holders, Other, Lease, WriterHoldsLease, MaintenanceHoldsLease
  <2>2. Writers' = {"other"}
    BY <1>11, <2>1 DEF OtherTakesLease, Writers, Other
  <2> QED BY <2>1, <2>2 DEF Session!WriterNext, Session!Work
<1>12. CASE OtherLeavesLease
  <2>1. Holders = {"other"} /\ Holders' = {} /\ ~ AtWork'
    BY <1>12 DEF OtherLeavesLease, Holders, Other, Lease, WriterHoldsLease, MaintenanceHoldsLease
  <2>2. Writers' = {}
    BY <1>12, <2>1 DEF OtherLeavesLease, Writers, Other
  <2> QED BY <2>1, <2>2 DEF Session!WriterNext, Session!Leave
<1> QED
  BY <1>1, <1>2, <1>3, <1>4, <1>5, <1>6, <1>7, <1>8, <1>9, <1>10, <1>11, <1>12
     DEF Next, RunStep

(* AgentRun!ImplementsSingleWriter: whatever this runtime writes, run or   *)
(* maintenance, it writes while it holds the session, and the other one    *)
(* never holds it at the same time.                                        *)
THEOREM RunsHoldSession == Spec => ImplementsSingleWriter
<1>1. Init => Session!WriterInit
  BY DEF Init, Session!WriterInit, Holders, Writers, Other
<1>2. TypeOK /\ TypeOK' /\ IInv /\ IInv' /\ [Next]_vars
      => [Session!WriterNext]_(Session!writerVars)
  BY SessionStep DEF IInv
<1> QED
  BY <1>1, <1>2, Invariance, PTL DEF Spec, ImplementsSingleWriter, Session!WriterSpec
=============================================================================
