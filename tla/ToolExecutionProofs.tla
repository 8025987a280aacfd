------------------------ MODULE ToolExecutionProofs ------------------------
(***************************************************************************)
(* What ToolExecution promises of every call, for any number of calls,     *)
(* files, turns and slots: the verdicts in the file are true, conflicting  *)
(* code never overlaps, critical code was asked for, and session rules     *)
(* have a standing approval.                                               *)
(***************************************************************************)
EXTENDS ToolExecution, SequenceTheorems, FiniteSetTheorems, TLAPS

USE DEF callVars, codeVars, fileVars, permVars, workVars, turnVars

(* Records. *)

Recs(q) == {q[i] : i \in 1 .. Len(q)}

LEMMA PendingRecs ==
  ASSUME NEW c, NEW r
  PROVE  Pending(c, r) <=> r \in Recs(queue[c])
BY DEF Pending, Recs

LEMMA RecsAppend ==
  ASSUME NEW q \in Seq(Records), NEW x \in Records
  PROVE  /\ Append(q, x) \in Seq(Records)
         /\ Recs(Append(q, x)) = Recs(q) \cup {x}
BY DEF Recs

LEMMA RecsTail ==
  ASSUME NEW q \in Seq(Records), q # <<>>
  PROVE  /\ Tail(q) \in Seq(Records)
         /\ Head(q) \in Records
         /\ Recs(q) = Recs(Tail(q)) \cup {Head(q)}
<1>1. Tail(q) \in Seq(Records) /\ Head(q) \in Records /\ Len(Tail(q)) = Len(q) - 1
      /\ Len(q) \in Nat /\ Len(q) > 0
  OBVIOUS
<1>2. \A i \in 1 .. Len(Tail(q)) : Tail(q)[i] = q[i + 1]
  OBVIOUS
<1>3. ASSUME NEW i \in 1 .. Len(q) PROVE q[i] \in Recs(Tail(q)) \cup {Head(q)}
  <2>1. CASE i = 1
    BY <2>1
  <2>2. CASE i # 1
    <3>1. i - 1 \in 1 .. Len(Tail(q)) /\ Tail(q)[i - 1] = q[i]
      BY <2>2, <1>1, <1>2
    <3> QED
      BY <3>1 DEF Recs
  <2> QED
    BY <2>1, <2>2
<1>4. \A i \in 1 .. Len(Tail(q)) : Tail(q)[i] \in Recs(q)
  BY <1>1, <1>2 DEF Recs
<1>5. Head(q) \in Recs(q)
  BY <1>1 DEF Recs
<1> QED
  BY <1>1, <1>3, <1>4, <1>5 DEF Recs

LEMMA RecsFinish ==
  ASSUME NEW q \in Seq(Records), NEW x \in Records
  PROVE  /\ q \o <<x, "answer">> \in Seq(Records)
         /\ Recs(q \o <<x, "answer">>) = Recs(q) \cup {x, "answer"}
<1> DEFINE t == <<x, "answer">>
           both == q \o t
<1>1. t \in Seq(Records) /\ Len(t) = 2 /\ t[1] = x /\ t[2] = "answer"
  BY DEF Records
<1> HIDE DEF t
<1>2. /\ both \in Seq(Records)
      /\ Len(both) = Len(q) + 2 /\ Len(q) \in Nat
      /\ \A i \in 1 .. Len(q) : both[i] = q[i]
      /\ both[Len(q) + 1] = x /\ both[Len(q) + 2] = "answer"
  <2>1. /\ both \in Seq(Records)
        /\ Len(both) = Len(q) + Len(t)
        /\ \A i \in 1 .. Len(q) + Len(t) :
              both[i] = IF i <= Len(q) THEN q[i] ELSE t[i - Len(q)]
    BY <1>1, ConcatProperties
  <2>2. Len(q) \in Nat
    OBVIOUS
  <2> HIDE DEF both
  <2>3. Len(both) = Len(q) + 2 /\ \A i \in 1 .. Len(q) : both[i] = q[i]
    BY <1>1, <2>1, <2>2
  <2>4. both[Len(q) + 1] = t[1] /\ both[Len(q) + 2] = t[2]
    <3>1. Len(q) + 1 \in 1 .. Len(q) + Len(t) /\ Len(q) + 2 \in 1 .. Len(q) + Len(t)
          /\ ~ (Len(q) + 1 <= Len(q)) /\ ~ (Len(q) + 2 <= Len(q))
          /\ Len(q) + 1 - Len(q) = 1 /\ Len(q) + 2 - Len(q) = 2
      BY <1>1, <2>2
    <3> QED
      BY <2>1, <3>1
  <2> QED
    BY <1>1, <2>1, <2>2, <2>3, <2>4
<1> HIDE DEF both
<1>3. ASSUME NEW i \in 1 .. Len(both) PROVE both[i] \in Recs(q) \cup {x, "answer"}
  BY <1>2 DEF Recs
<1>4. Recs(q) \cup {x, "answer"} \subseteq Recs(both)
  <2>1. \A i \in 1 .. Len(q) : q[i] \in Recs(both)
    BY <1>2 DEF Recs
  <2>2. x \in Recs(both) /\ "answer" \in Recs(both)
    <3>1. Len(q) + 1 \in 1 .. Len(both) /\ Len(q) + 2 \in 1 .. Len(both)
      BY <1>2
    <3> QED
      BY <1>2, <3>1 DEF Recs
  <2> QED
    BY <2>1, <2>2 DEF Recs
<1>5. Recs(both) = Recs(q) \cup {x, "answer"}
  BY <1>3, <1>4 DEF Recs
<1> QED
  BY <1>2, <1>5 DEF t, both

-----------------------------------------------------------------------------
(* Type correctness. *)

LEMMA KindTyped ==
  ASSUME TypeOK, NEW c \in Call
  PROVE  kind[c] \in KindType
BY BatchAssumption DEF TypeOK

LEMMA GrantsAreRules ==
  ASSUME TypeOK, NEW c \in Call, NEW scope
  PROVE  GrantKeys(kind[c], scope) \subseteq Rules
<1>1. kind[c] \in KindType /\ kind[c].tool \in Tool
  BY KindTyped DEF KindType
<1> QED
  BY <1>1 DEF GrantKeys, Rules

\* finish() keeps the types of what it changes.
LEMMA FinishTyped ==
  ASSUME TypeOK, NEW c \in Call, NEW s \in Statuses, Finish(c, s) \/ FinishFreed(c, s)
  PROVE  /\ outcome' \in [Call -> Statuses \cup {"none"}]
         /\ latest' \in [Call -> LifeStates]
         /\ queue' \in [Call -> Seq(Records)]
         /\ stage' \in [Call -> Stages]
<1>1. /\ s \in Records /\ s \in LifeStates
      /\ "finished" \in Stages /\ "freed" \in Stages
  BY DEF Records, LifeStates, Stages
<1>2. queue[c] \o <<s, "answer">> \in Seq(Records)
  BY <1>1, RecsFinish DEF TypeOK
<1>3. stage' \in [Call -> Stages]
  BY <1>1 DEF TypeOK, Finish, FinishFreed, Goes
<1>4. Report(c, s)
  BY DEF Finish, FinishFreed
<1> QED
  BY <1>1, <1>2, <1>3, <1>4 DEF TypeOK, Report

LEMMA NotedTyped ==
  ASSUME TypeOK, NEW c \in Call, NEW s \in LifeStates, Noted(c, s)
  PROVE  /\ latest' \in [Call -> LifeStates]
         /\ queue' \in [Call -> Seq(Records)]
<1>1. Append(queue[c], s) \in Seq(Records)
  BY RecsAppend DEF TypeOK, Records
<1> QED
  BY <1>1 DEF TypeOK, Noted

LEMMA GoesTyped ==
  ASSUME TypeOK, NEW c \in Call, NEW s \in Stages, Goes(c, s)
  PROVE  stage' \in [Call -> Stages]
BY DEF TypeOK, Goes

LEMMA InitTyped == Init => TypeOK
<1> SUFFICES ASSUME Init PROVE TypeOK
  OBVIOUS
<1>1. queue \in [Call -> Seq(Records)]
  BY DEF Init
<1>2. /\ kind \in Batches /\ grants \subseteq Rules /\ charged \subseteq Call
      /\ mode \in Modes
  BY ModeAssumption DEF Init
<1>3. spent \in [calls : Nat, repeats : Nat] /\ turn \in 1 .. MaxTurns
  BY BoundAssumption DEF Init
<1>4. /\ shown \in [Call -> Nat] /\ disk \in [File -> Nat]
      /\ effect \in [Call -> BOOLEAN] /\ aborted \in BOOLEAN /\ alive \in BOOLEAN
      /\ snapshot \in {"none", "taking", "taken"}
  BY DEF Init
<1>5. /\ stage \in [Call -> Stages] /\ latest \in [Call -> LifeStates]
      /\ outcome \in [Call -> Statuses \cup {"none"}]
      /\ code \in [Call -> {"none", "running", "returned", "ended", "adrift", "lost", "stuck"}]
  BY DEF Init, Stages, LifeStates
<1>6. /\ fact \in [Call -> LifeStates \cup {"none", "called"}]
      /\ answer \in [Call -> Statuses \cup {"none"}]
      /\ approved \in [Call -> Scopes \cup {"none"}]
  BY DEF Init
<1> QED
  BY <1>1, <1>2, <1>3, <1>4, <1>5, <1>6 DEF TypeOK

LEMMA CallStepTyped ==
  ASSUME TypeOK, NEW c \in Call, CallStep(c)
  PROVE  TypeOK'
<1>1. CASE Flush(c)
  <2>1. Tail(queue[c]) \in Seq(Records) /\ Head(queue[c]) \in Records
    BY <1>1, RecsTail DEF Flush, TypeOK
  <2>2. queue' \in [Call -> Seq(Records)]
    BY <1>1, <2>1 DEF Flush, TypeOK
  <2>3. /\ fact' \in [Call -> LifeStates \cup {"none", "called"}]
        /\ answer' \in [Call -> Statuses \cup {"none"}]
    <3>1. CASE Head(queue[c]) = "answer"
      <4>1. answer' = [answer EXCEPT ![c] = outcome[c]] /\ fact' = fact
        BY <1>1, <3>1 DEF Flush
      <4> QED
        BY <4>1 DEF TypeOK
    <3>2. CASE Head(queue[c]) # "answer"
      <4>1. fact' = [fact EXCEPT ![c] = Head(queue[c])] /\ answer' = answer
        BY <1>1, <3>2 DEF Flush
      <4> QED
        BY <2>1, <3>2, <4>1 DEF TypeOK, Records
    <3> QED
      BY <3>1, <3>2
  <2> QED
    BY <1>1, <2>2, <2>3 DEF Flush, TypeOK
<1>2. CASE Receive(c)
  <2>1. <<"called", "not_started">> \in Seq(Records) /\ "noted" \in Stages
    BY DEF Records, LifeStates, Stages
  <2> QED
    BY <1>2, <2>1, GoesTyped DEF Receive, TypeOK
<1>3. CASE Admit(c)
  BY <1>3, GoesTyped, FinishTyped, NotedTyped
  DEF Admit, TypeOK, Stages, Statuses, LifeStates
<1>4. CASE Begin(c)
  BY <1>4, GoesTyped, FinishTyped, NotedTyped
  DEF Begin, TypeOK, Stages, Statuses, LifeStates
<1>5. CASE Judge(c)
  <2>1. shown' \in [Call -> Nat]
    BY <1>5 DEF Judge, PreviewOf, TypeOK
  <2> QED
    BY <1>5, <2>1, GoesTyped, FinishTyped DEF Judge, TypeOK, Stages, Statuses
<1>6. CASE PrepareFails(c)
  BY <1>6, GoesTyped, FinishTyped, NotedTyped
  DEF PrepareFails, TypeOK, Stages, Statuses, LifeStates
<1>7. CASE PrepareHangs(c)
  BY <1>7, GoesTyped, FinishTyped, NotedTyped
  DEF PrepareHangs, TypeOK, Stages, Statuses, LifeStates
<1>8. CASE OpenGate(c)
  BY <1>8, GoesTyped, FinishTyped, NotedTyped
  DEF OpenGate, TypeOK, Stages, Statuses, LifeStates
<1>9. CASE Approve(c)
  <2>1. PICK scope \in AnswerScopes, next \in AnswerModes \cup {mode} :
               /\ approved' = [approved EXCEPT ![c] = scope]
               /\ grants' = grants \cup GrantKeys(kind[c], scope)
               /\ mode' = next
    BY <1>9 DEF Approve
  <2>2. approved' \in [Call -> Scopes \cup {"none"}] /\ mode' \in Modes
    BY <2>1, ScopeAssumption, ModeAssumption DEF TypeOK
  <2>3. grants' \subseteq Rules
    BY <2>1, GrantsAreRules DEF TypeOK
  <2> QED
    BY <1>9, <2>2, <2>3, GoesTyped DEF Approve, TypeOK, Stages
<1>10. CASE Refuse(c)
  BY <1>10, GoesTyped, FinishTyped, NotedTyped
  DEF Refuse, TypeOK, Stages, Statuses, LifeStates
<1>11. CASE Start(c)
  BY <1>11, GoesTyped, FinishTyped, NotedTyped
  DEF Start, TypeOK, Stages, Statuses, LifeStates
<1>12. CASE StartStale(c)
  BY <1>12, GoesTyped, FinishTyped, NotedTyped
  DEF StartStale, TypeOK, Stages, Statuses, LifeStates
<1>13. CASE HookBlocks(c)
  BY <1>13, GoesTyped, FinishTyped, NotedTyped
  DEF HookBlocks, TypeOK, Stages, Statuses, LifeStates
<1>14. CASE Save(c)
  BY <1>14, GoesTyped, FinishTyped, NotedTyped
  DEF Save, TypeOK, Stages, Statuses, LifeStates
<1>15. CASE Launch(c)
  BY <1>15, GoesTyped, FinishTyped, NotedTyped
  DEF Launch, TypeOK, Launches, Stages, Statuses, LifeStates
<1>16. CASE Saved(c)
  <2>1. CASE aborted
    BY <1>16, <2>1, FinishTyped DEF Saved, TypeOK, Statuses
  <2>2. CASE ~ aborted
    <3>1. Goes(c, "running") /\ code' = [code EXCEPT ![c] = "running"]
      BY <1>16, <2>2 DEF Saved, Launches
    <3> QED
      BY <1>16, <2>2, <3>1, GoesTyped DEF Saved, TypeOK, Stages
  <2> QED
    BY <2>1, <2>2
<1>17. CASE Commit(c)
  <2>1. disk' \in [File -> Nat]
    <3> DEFINE f == kind[c].file
    <3>1. f \in File /\ disk' = [disk EXCEPT ![f] = disk[f] + 1]
      BY <1>17 DEF Commit, Reports
    <3> HIDE DEF f
    <3> QED
      BY <3>1 DEF TypeOK
  <2> QED
    BY <1>17, <2>1, NotedTyped DEF Commit, TypeOK, LifeStates
<1>18. CASE Succeed(c)
  <2> DEFINE s == "succeeded"
  <2>1. s \in Statuses
    BY DEF StoppedStatus, Statuses
  <2>2. Ends(c, "returned", s)
    BY <1>18 DEF Succeed
  <2> HIDE DEF s
  <2> QED
    BY <2>1, <2>2, FinishTyped DEF Ends, TypeOK
<1>19. CASE Fail(c)
  <2> DEFINE s == "failed"
  <2>1. s \in Statuses
    BY DEF StoppedStatus, Statuses
  <2>2. Ends(c, "ended", s)
    BY <1>19 DEF Fail
  <2> HIDE DEF s
  <2> QED
    BY <2>1, <2>2, FinishTyped DEF Ends, TypeOK
<1>20. CASE Stop(c)
  <2> DEFINE s == StoppedStatus(c)
  <2>1. s \in Statuses
    BY DEF StoppedStatus, Statuses
  <2>2. Ends(c, "ended", s)
    BY <1>20 DEF Stop
  <2> HIDE DEF s
  <2> QED
    BY <2>1, <2>2, FinishTyped DEF Ends, TypeOK
<1>21. CASE Quarantine(c)
  <2> DEFINE s == "unknown"
  <2>1. s \in Statuses
    BY DEF StoppedStatus, Statuses
  <2>2. Ends(c, "adrift", s)
    BY <1>21 DEF Quarantine
  <2> HIDE DEF s
  <2> QED
    BY <2>1, <2>2, FinishTyped DEF Ends, TypeOK
<1>22. CASE TimeOut(c)
  <2> DEFINE s == IF aborted THEN StoppedStatus(c) ELSE "failed"
  <2>1. s \in Statuses
    BY DEF StoppedStatus, Statuses
  <2>2. Ends(c, "lost", s)
    BY <1>22 DEF TimeOut
  <2> HIDE DEF s
  <2> QED
    BY <2>1, <2>2, FinishTyped DEF Ends, TypeOK
<1>23. CASE Settle(c)
  BY <1>23, GoesTyped, FinishTyped, NotedTyped
  DEF Settle, TypeOK, Stages, Statuses, LifeStates
<1>24. CASE Wrap(c)
  <2>1. TerminalStatus(latest[c]) \in Statuses
    BY DEF TerminalStatus, Statuses
  <2> QED
    BY <1>24, <2>1, FinishTyped DEF Wrap, TypeOK
<1>25. CASE CutShort(c)
  BY <1>25, GoesTyped, FinishTyped, NotedTyped
  DEF CutShort, TypeOK, Stages, Statuses, LifeStates
<1>26. CASE Recover(c)
  <2>1. RecoveredStatus(fact[c]) \in Statuses
    BY DEF RecoveredStatus, Statuses
  <2> QED
    BY <1>26, <2>1 DEF Recover, TypeOK
<1> QED
  BY <1>1, <1>2, <1>3, <1>4, <1>5, <1>6, <1>7, <1>8, <1>9, <1>10, <1>11, <1>12, <1>13,
       <1>14, <1>15, <1>16, <1>17, <1>18, <1>19, <1>20, <1>21, <1>22, <1>23, <1>24, <1>25,
       <1>26
  DEF CallStep, Advance, Run

LEMMA StepTyped == TypeOK /\ [Next]_vars => TypeOK'
<1> SUFFICES ASSUME TypeOK, [Next]_vars PROVE TypeOK'
  OBVIOUS
<1>1. CASE \E c \in Call : CallStep(c)
  BY <1>1, CallStepTyped
<1>2. CASE Abort
  <2>1. latest' \in [Call -> LifeStates]
    BY <1>2 DEF Abort, TypeOK, LifeStates
  <2>2. \A c \in Call : Append(queue[c], "cancel_requested") \in Seq(Records)
    BY RecsAppend DEF TypeOK, Records, LifeStates
  <2>3. queue' \in [Call -> Seq(Records)]
    BY <1>2, <2>2 DEF Abort, TypeOK
  <2> QED
    BY <1>2, <2>1, <2>3 DEF Abort, TypeOK
<1>3. CASE NextTurn
  <2>1. spent' \in [calls : Nat, repeats : Nat] /\ turn' \in 1 .. MaxTurns
    BY <1>3, BoundAssumption DEF NextTurn, Unspent, TypeOK
  <2> QED
    BY <1>3, <2>1 DEF NextTurn, TypeOK
<1>4. CASE Crash
  <2>1. spent' \in [calls : Nat, repeats : Nat] /\ turn' \in 1 .. MaxTurns
    BY <1>4, BoundAssumption DEF Crash, Unspent
  <2>2. mode' \in Modes /\ queue' \in [Call -> Seq(Records)]
    BY <1>4, ModeAssumption DEF Crash
  <2>3. /\ stage' \in [Call -> Stages] /\ latest' \in [Call -> LifeStates]
        /\ code' \in [Call -> {"none", "running", "returned", "ended", "adrift", "lost", "stuck"}]
    BY <1>4 DEF Crash, Stages, LifeStates
  <2> QED
    BY <1>4, <2>1, <2>2, <2>3 DEF Crash, TypeOK
<1>5. CASE \E f \in File : Edit(f)
  <2>1. disk' \in [File -> Nat]
    <3>1. PICK f \in File : disk' = [disk EXCEPT ![f] = disk[f] + 1]
      BY <1>5 DEF Edit
    <3> QED
      BY <3>1 DEF TypeOK
  <2> QED
    BY <1>5, <2>1 DEF Edit, TypeOK
<1>6. CASE UNCHANGED vars
  BY <1>6 DEF vars, TypeOK
<1> QED
  BY <1>1, <1>2, <1>3, <1>4, <1>5, <1>6 DEF Next

\* Every variable has its type, whatever the model sends, the user answers
\* and the tools do.
THEOREM TypeCorrect == Spec => []TypeOK
BY InitTyped, StepTyped, PTL DEF Spec

-----------------------------------------------------------------------------
(* The inductive invariant, part by part.                                  *)

Early == {"called", "not_started"}
Unstarted == {"new", "noted", "queued", "admitted", "gated", "asking", "waiting",
              "hooking", "saving", "wrapping"}
Unasked == {"new", "noted", "queued", "admitted", "gated", "asking"}
Allowed == {"waiting", "hooking", "saving", "running"}
Judged == {"gated", "asking", "wrapping"} \cup Allowed

\* The code of a call runs only while execute() awaits it.
CodeStaged(c) ==
  /\ code[c] = "running" => stage[c] = "running"
  /\ alive /\ stage[c] \in Unstarted => code[c] = "none"

\* In memory no state is final before the call has finished.
StateStaged(c) ==
  /\ stage[c] \in {"new", "noted", "queued"} => latest[c] = "not_started"
  /\ stage[c] \notin Over => latest[c] \notin Statuses

\* What was written before the admission is in the file before "running".
QueueStaged(c) ==
  /\ stage[c] = "new" => queue[c] = <<>>
  /\ stage[c] = "noted" =>
       queue[c] \in {<<"called", "not_started">>, <<"not_started">>, <<>>}
  /\ stage[c] # "noted" => Recs(queue[c]) \cap Early = {}
  /\ "answer" \in Recs(queue[c]) => stage[c] \in Over

\* Nothing runs before the file says so.
WrittenAhead(c) ==
  /\ stage[c] = "admitted" =>
       "running" \in Recs(queue[c]) \/ fact[c] \notin Early \cup {"none"}
  /\ stage[c] \in Judged \/ code[c] # "none" => fact[c] \notin Early \cup {"none"}

\* The call is at its end: what its code did or not will not change.
Closed(c) == stage[c] \in Over \/ ~ alive

Says(c, status) ==
  \/ status \in Recs(queue[c])
  \/ fact[c] = status \/ outcome[c] = status \/ answer[c] = status

SaysTrue(c) ==
  /\ Says(c, "side_effect_committed") => effect[c]
  /\ Says(c, "succeeded") => Proven(c)
  /\ Says(c, "cancelled") => Harmless(c) /\ Closed(c)

\* A critical call gets past the manager only with the user's approval.
ApprovalStaged(c) ==
  /\ stage[c] \in Unasked => approved[c] = "none"
  /\ kind[c].level = "critical" /\ stage[c] \in Allowed => approved[c] # "none"

CallInv(c) ==
  /\ CodeStaged(c) /\ StateStaged(c) /\ QueueStaged(c)
  /\ WrittenAhead(c) /\ SaysTrue(c) /\ ApprovalStaged(c)

\* The scheduler keeps holders apart; code that was left behind is apart from
\* them, and blocks every start until it has settled.
HoldersApart ==
  /\ \A c, d \in Holders : c # d => ~ Conflict(kind[c], kind[d])
  /\ \A d \in Call : code[d] = "adrift" =>
       aborted /\ \A c \in Holders : c # d => ~ Conflict(kind[c], kind[d])

IInv ==
  /\ TypeOK
  /\ \A c \in Call : CallInv(c)
  /\ HoldersApart
  /\ GrantsBacked

-----------------------------------------------------------------------------
(* Steps of one call.  Each is of one of a few sorts.                      *)

\* What the file and the user said of the call stands, and its kind.
Stands(c) ==
  /\ kind' = kind /\ alive' = alive
  /\ fact'[c] = fact[c] /\ answer'[c] = answer[c] /\ effect'[c] = effect[c]

\* The call comes to its end with the status s.
LEMMA FinishKeeps ==
  ASSUME TypeOK, NEW c \in Call, NEW s \in Statuses, CallInv(c),
         Finish(c, s) \/ FinishFreed(c, s),
         Stands(c), approved'[c] = approved[c], alive,
         stage[c] \notin {"new"} \cup Over,
         stage[c] = "noted" => queue[c] = <<>>,
         code'[c] # "running",
         code[c] = code'[c] \/ fact[c] \notin Early \cup {"none"},
         code[c] # "returned",
         s = "succeeded" => Proven(c)',
         s = "cancelled" => Harmless(c)'
  PROVE  CallInv(c)'
<1>1. /\ stage'[c] \in Over /\ latest'[c] = s /\ outcome'[c] = s
      /\ Recs(queue'[c]) = Recs(queue[c]) \cup {s, "answer"}
  <2>1. s \in Records
    BY DEF Records, LifeStates
  <2>2. queue'[c] = queue[c] \o <<s, "answer">> /\ queue[c] \in Seq(Records)
    BY DEF Finish, FinishFreed, Report, TypeOK
  <2>3. stage'[c] \in Over /\ latest'[c] = s /\ outcome'[c] = s
    BY DEF Finish, FinishFreed, Report, Goes, Over, TypeOK
  <2> QED
    BY <2>1, <2>2, <2>3, RecsFinish
<1>2. Recs(queue[c]) \cap Early = {}
  <2>1. Recs(<<>>) = {}
    BY DEF Recs
  <2> QED
    BY <2>1 DEF CallInv, QueueStaged
<1>3. s # "side_effect_committed" /\ {s, "answer"} \cap Early = {}
  BY DEF Statuses, Early
<1>4. CodeStaged(c)' /\ StateStaged(c)' /\ ApprovalStaged(c)'
  BY <1>1 DEF CodeStaged, StateStaged, ApprovalStaged, Unstarted, Unasked, Allowed, Over
<1>5. QueueStaged(c)'
  BY <1>1, <1>2, <1>3 DEF QueueStaged, Over
<1>6. WrittenAhead(c)'
  BY <1>1 DEF WrittenAhead, CallInv, Stands, Judged, Allowed, Over
<1>7. SaysTrue(c)'
  <2>1. Closed(c)'
    BY <1>1 DEF Closed
  <2>2. Says(c, "side_effect_committed")' => effect[c]
    BY <1>1, <1>3 DEF Says, SaysTrue, CallInv, Stands
  <2>3. Says(c, "succeeded")' => s = "succeeded" \/ Says(c, "succeeded")
    BY <1>1 DEF Says, Stands
  <2>4. Says(c, "succeeded") => effect[c]
    BY DEF SaysTrue, CallInv, Proven
  <2>5. Says(c, "cancelled")' => s = "cancelled" \/ Says(c, "cancelled")
    BY <1>1 DEF Says, Stands
  <2>6. ~ Says(c, "cancelled")
    BY DEF SaysTrue, CallInv, Closed
  <2>7. (s = "succeeded" => Proven(c)') /\ (s = "cancelled" => Harmless(c)')
    OBVIOUS
  <2>8. Says(c, "succeeded")' => Proven(c)'
    BY <2>3, <2>4, <2>7 DEF Proven, Stands
  <2>9. Says(c, "cancelled")' => Harmless(c)' /\ Closed(c)'
    BY <2>1, <2>5, <2>6, <2>7
  <2> QED
    BY <2>2, <2>8, <2>9 DEF SaysTrue, Stands
<1> QED
  BY <1>4, <1>5, <1>6, <1>7 DEF CallInv

\* The call goes on to its next await, without a record.
LEMMA MoveKeeps ==
  ASSUME TypeOK, NEW c \in Call, NEW s \in Stages, CallInv(c), alive,
         Goes(c, s), Stands(c),
         latest'[c] = latest[c], outcome'[c] = outcome[c], queue'[c] = queue[c],
         s \notin {"new", "noted", "admitted"} \cup Over,
         stage[c] \notin {"new", "running"} \cup Over,
         stage[c] = "noted" => queue[c] = <<>>,
         s = "queued" <=> stage[c] = "noted",
         s = "queued" \/ fact[c] \notin Early \cup {"none"},
         code'[c] = IF s = "running" THEN "running" ELSE "none",
         s \in Unasked => approved'[c] = "none",
         kind[c].level = "critical" /\ s \in Allowed => approved'[c] # "none"
  PROVE  CallInv(c)'
<1>1. stage'[c] = s
  BY DEF Goes, TypeOK
<1>2. stage[c] \in Unstarted /\ code[c] = "none"
  BY DEF TypeOK, Stages, Unstarted, CallInv, CodeStaged, Over
<1>3. CodeStaged(c)'
  BY <1>1 DEF CodeStaged, Unstarted
<1>4. StateStaged(c)'
  BY <1>1 DEF StateStaged, CallInv
<1>5. QueueStaged(c)'
  <2>1. Recs(<<>>) = {}
    BY DEF Recs
  <2> QED
    BY <1>1, <2>1 DEF QueueStaged, CallInv
<1>6. WrittenAhead(c)'
  BY <1>1 DEF WrittenAhead, Stands, Judged, Allowed
<1>7. SaysTrue(c)'
  <2>1. ~ Says(c, "cancelled") /\ (Says(c, "succeeded") => effect[c])
    BY <1>2 DEF CallInv, SaysTrue, Closed, Proven
  <2>2. \A r : Says(c, r)' <=> Says(c, r)
    BY DEF Says, Stands
  <2> QED
    BY <2>1, <2>2 DEF CallInv, SaysTrue, Proven, Stands
<1>8. ApprovalStaged(c)'
  BY <1>1 DEF ApprovalStaged, Stands
<1> QED
  BY <1>3, <1>4, <1>5, <1>6, <1>7, <1>8 DEF CallInv

\* A state that is not final is noted.
LEMMA NoteKeeps ==
  ASSUME TypeOK, NEW c \in Call, CallInv(c), alive, alive' = alive, kind' = kind,
         NEW r \in {"running", "side_effect_committed", "cancel_requested"},
         queue'[c] = Append(queue[c], r), latest'[c] = r, outcome'[c] = outcome[c],
         code'[c] = code[c], fact'[c] = fact[c], answer'[c] = answer[c],
         approved'[c] = approved[c], stage[c] \notin {"new", "noted"},
         \/ stage'[c] = stage[c] /\ stage[c] # "queued"
         \/ r = "running" /\ stage[c] = "queued" /\ stage'[c] = "admitted",
         effect'[c] = IF r = "side_effect_committed" THEN TRUE ELSE effect[c],
         r = "side_effect_committed" => stage[c] = "running"
  PROVE  CallInv(c)'
<1>1. Recs(queue'[c]) = Recs(queue[c]) \cup {r}
  <2>1. r \in Records /\ queue[c] \in Seq(Records)
    BY DEF Records, LifeStates, TypeOK
  <2> QED
    BY <2>1, RecsAppend
<1>2. CodeStaged(c)' /\ StateStaged(c)' /\ ApprovalStaged(c)'
  BY DEF CallInv, CodeStaged, StateStaged, ApprovalStaged, Unstarted, Unasked, Allowed,
         Statuses
<1>3. QueueStaged(c)'
  BY <1>1 DEF CallInv, QueueStaged, Early, Over
<1>4. WrittenAhead(c)'
  BY <1>1 DEF CallInv, WrittenAhead, Judged, Allowed
<1>5. SaysTrue(c)'
  <2>1. \A q : Says(c, q)' <=> Says(c, q) \/ q = r
    BY <1>1 DEF Says
  <2>2. Says(c, "side_effect_committed")' => effect'[c]
    BY <2>1 DEF CallInv, SaysTrue
  <2>3. Says(c, "succeeded")' => Proven(c)'
    BY <2>1 DEF CallInv, SaysTrue, Proven
  <2>4. Says(c, "cancelled")' => Harmless(c)' /\ Closed(c)'
    BY <2>1 DEF CallInv, SaysTrue, Harmless, Closed, Over
  <2> QED
    BY <2>2, <2>3, <2>4 DEF SaysTrue
<1> QED
  BY <1>2, <1>3, <1>4, <1>5 DEF CallInv

\* The first records of the call.
LEMMA ReceiveKeeps ==
  ASSUME TypeOK, NEW c \in Call, CallInv(c), Receive(c)
  PROVE  CallInv(c)'
<1>1. stage'[c] = "noted" /\ queue'[c] = <<"called", "not_started">>
  BY DEF Receive, Goes, TypeOK
<1>2. Recs(queue'[c]) = {"called", "not_started"}
  BY <1>1 DEF Recs
<1>3. Recs(queue[c]) = {}
  BY DEF Recs, Receive, CallInv, QueueStaged
<1>4. code[c] = "none" /\ latest[c] = "not_started" /\ approved[c] = "none"
  BY DEF Receive, CallInv, CodeStaged, StateStaged, ApprovalStaged, Unstarted, Unasked
<1>5. CodeStaged(c)' /\ StateStaged(c)' /\ ApprovalStaged(c)'
  BY <1>1, <1>4 DEF Receive, CodeStaged, StateStaged, ApprovalStaged, Unstarted, Unasked,
                    Allowed, Statuses
<1>6. QueueStaged(c)' /\ WrittenAhead(c)'
  BY <1>1, <1>2, <1>4 DEF Receive, QueueStaged, WrittenAhead, Judged, Allowed
<1>7. SaysTrue(c)'
  BY <1>2, <1>3, <1>4 DEF Receive, CallInv, SaysTrue, Says, Proven, Harmless, Closed, Over
<1> QED
  BY <1>5, <1>6, <1>7 DEF CallInv

\* A record reaches the file.
LEMMA FlushKeeps ==
  ASSUME TypeOK, NEW c \in Call, CallInv(c), Flush(c)
  PROVE  CallInv(c)'
<1> DEFINE r == Head(queue[c])
<1>1. /\ queue'[c] = Tail(queue[c]) /\ r \in Records
      /\ Recs(queue[c]) = Recs(queue'[c]) \cup {r}
      /\ Recs(queue'[c]) \subseteq Recs(queue[c]) /\ r \in Recs(queue[c])
  <2>1. queue[c] \in Seq(Records) /\ queue[c] # <<>> /\ queue'[c] = Tail(queue[c])
    BY DEF Flush, TypeOK
  <2> QED
    BY <2>1, RecsTail
<1>2. /\ r = "answer" => answer'[c] = outcome[c] /\ fact'[c] = fact[c]
      /\ r # "answer" => fact'[c] = r /\ answer'[c] = answer[c]
  BY DEF Flush, TypeOK
<1>3. /\ stage' = stage /\ latest' = latest /\ outcome' = outcome /\ code' = code
      /\ effect' = effect /\ kind' = kind /\ alive' = alive /\ approved' = approved
  BY DEF Flush
<1>4. stage[c] # "new"
  BY DEF Flush, CallInv, QueueStaged
<1>5. QueueStaged(c)'
  <2>1. ASSUME stage[c] = "noted"
        PROVE  queue'[c] \in {<<"called", "not_started">>, <<"not_started">>, <<>>}
    <3>1. queue[c] \in {<<"called", "not_started">>, <<"not_started">>}
      BY <2>1 DEF Flush, CallInv, QueueStaged
    <3>2. Tail(<<"called", "not_started">>) = <<"not_started">>
          /\ Tail(<<"not_started">>) = <<>>
      OBVIOUS
    <3> QED
      BY <1>1, <3>1, <3>2
  <2> QED
    BY <1>1, <1>3, <1>4, <2>1 DEF CallInv, QueueStaged
<1> HIDE DEF r
<1>6. CodeStaged(c)' /\ StateStaged(c)' /\ ApprovalStaged(c)'
  BY <1>3 DEF CallInv, CodeStaged, StateStaged, ApprovalStaged
<1>7. WrittenAhead(c)'
  <2>1. stage[c] # "noted" => r \notin Early
    BY <1>1 DEF CallInv, QueueStaged
  <2>2. stage[c] = "noted" => code[c] = "none"
    BY DEF Flush, CallInv, CodeStaged, Unstarted
  <2>3. r \in Records => r # "none"
    BY DEF Records, LifeStates, Statuses
  <2>4. r = "answer" => stage[c] # "admitted"
    BY <1>1 DEF CallInv, QueueStaged, Over
  <2> QED
    BY <1>1, <1>2, <1>3, <2>1, <2>2, <2>3, <2>4
    DEF CallInv, WrittenAhead, Judged, Allowed
<1>8. SaysTrue(c)'
  <2>1. \A q \in {"side_effect_committed", "succeeded", "cancelled"} :
           Says(c, q)' => Says(c, q)
    BY <1>1, <1>2, <1>3 DEF Says
  <2> QED
    BY <1>3, <2>1 DEF CallInv, SaysTrue, Proven, Harmless, Closed
<1> QED
  BY <1>5, <1>6, <1>7, <1>8 DEF CallInv

\* Code that was left behind comes to its end.
LEMMA SettleKeeps ==
  ASSUME TypeOK, NEW c \in Call, CallInv(c), Settle(c)
  PROVE  CallInv(c)'
<1>1. code[c] \in {"adrift", "lost", "stuck"} /\ code'[c] = "ended"
  BY DEF Settle, TypeOK
<1>2. stage[c] \notin Unstarted \/ ~ alive
  BY <1>1 DEF CallInv, CodeStaged
<1>3. CodeStaged(c)' /\ StateStaged(c)' /\ ApprovalStaged(c)'
  BY <1>1, <1>2 DEF Settle, CallInv, CodeStaged, StateStaged, ApprovalStaged
<1>4. QueueStaged(c)' /\ WrittenAhead(c)'
  BY <1>1 DEF Settle, CallInv, QueueStaged, WrittenAhead
<1>5. SaysTrue(c)'
  BY <1>1 DEF Settle, CallInv, SaysTrue, Says, Proven, Harmless, Closed
<1> QED
  BY <1>3, <1>4, <1>5 DEF CallInv

\* The next process gives the call its result.
LEMMA RecoverKeeps ==
  ASSUME TypeOK, NEW c \in Call, CallInv(c), Recover(c)
  PROVE  CallInv(c)'
<1>1. answer'[c] = RecoveredStatus(fact[c])
  BY DEF Recover, TypeOK
<1>2. CodeStaged(c)' /\ StateStaged(c)' /\ ApprovalStaged(c)'
  BY DEF Recover, CallInv, CodeStaged, StateStaged, ApprovalStaged
<1>3. QueueStaged(c)' /\ WrittenAhead(c)'
  BY DEF Recover, CallInv, QueueStaged, WrittenAhead
<1>4. RecoveredStatus(fact[c]) = "succeeded" => Proven(c)
  BY DEF RecoveredStatus, CallInv, SaysTrue, Says, Proven
<1>5. RecoveredStatus(fact[c]) = "cancelled" => Harmless(c)
  BY DEF RecoveredStatus, CallInv, SaysTrue, Says, Harmless, WrittenAhead, Early
<1>6. RecoveredStatus(fact[c]) # "side_effect_committed"
  BY DEF RecoveredStatus
<1>7. SaysTrue(c)'
  BY <1>1, <1>4, <1>5, <1>6
  DEF Recover, CallInv, SaysTrue, Says, Proven, Harmless, Closed
<1> QED
  BY <1>2, <1>3, <1>7 DEF CallInv

-----------------------------------------------------------------------------
(* The steps of a call keep its invariant.                                 *)

\* What is known of a call that has passed its first records.
LEMMA ReadyIsWritten ==
  ASSUME TypeOK, NEW c \in Call, CallInv(c), Ready(c)
  PROVE  alive /\ stage[c] = "admitted" /\ fact[c] \notin Early \cup {"none"}
BY PendingRecs DEF Ready, CallInv, WrittenAhead

LEMMA NotedIsFlushed ==
  ASSUME TypeOK, NEW c \in Call, CallInv(c), stage[c] = "noted",
         ~ Pending(c, "not_started")
  PROVE  queue[c] = <<>>
<1>1. Recs(<<"called", "not_started">>) = {"called", "not_started"}
      /\ Recs(<<"not_started">>) = {"not_started"}
  BY DEF Recs
<1> QED
  BY <1>1, PendingRecs DEF CallInv, QueueStaged

LEMMA OwnStep ==
  ASSUME TypeOK, NEW c \in Call, CallInv(c), CallStep(c)
  PROVE  CallInv(c)'
<1> USE DEF Stands, Over
<1>1. stage[c] \in Unstarted /\ alive => code[c] = "none"
  BY DEF CallInv, CodeStaged
<1>2. code[c] = "running" => stage[c] = "running" /\ fact[c] \notin Early \cup {"none"}
  BY DEF CallInv, CodeStaged, WrittenAhead
<1>3. stage[c] \in Judged => fact[c] \notin Early \cup {"none"}
  BY DEF CallInv, WrittenAhead
<1>4. stage[c] \in Unasked => approved[c] = "none"
  BY DEF CallInv, ApprovalStaged
<1>5. kind[c].level = "critical" /\ stage[c] \in Allowed => approved[c] # "none"
  BY DEF CallInv, ApprovalStaged
<1>6. {"cancelled", "failed", "unknown", "succeeded"} = Statuses
  BY DEF Statuses
<1>10. CASE Flush(c)
  BY <1>10, FlushKeeps
<1>11. CASE Receive(c)
  BY <1>11, ReceiveKeeps
<1>12. CASE Admit(c)
  <2>1. queue[c] = <<>> /\ stage[c] = "noted" /\ alive /\ code[c] = "none"
    BY <1>12, <1>1, NotedIsFlushed DEF Admit, Unstarted
  <2>2. CASE OverBudget(c)
    BY <1>12, <2>1, <2>2, <1>6, FinishKeeps DEF Admit
  <2>3. CASE ~ OverBudget(c)
    BY <1>12, <2>1, <2>3, <1>4, MoveKeeps DEF Admit, Stages, Unasked, Allowed
  <2> QED
    BY <2>2, <2>3
<1>13. CASE Begin(c)
  <2>1. /\ queue'[c] = Append(queue[c], "running") /\ latest'[c] = "running"
        /\ stage[c] = "queued" /\ stage'[c] = "admitted"
    BY <1>13 DEF Begin, Noted, Goes, TypeOK
  <2> QED
    BY <1>13, <2>1, NoteKeeps DEF Begin
<1>14. CASE Judge(c)
  <2>1. alive /\ stage[c] = "admitted" /\ fact[c] \notin Early \cup {"none"} /\ code[c] = "none"
        /\ approved[c] = "none"
    BY <1>14, <1>1, <1>3, <1>4, ReadyIsWritten DEF Judge, Judged, Unstarted, Unasked
  <2>2. CASE Denies(kind[c], mode) /\ Finish(c, "failed")
    BY <1>14, <2>1, <2>2, <1>6, FinishKeeps DEF Judge
  <2>3. CASE Allows(kind[c], mode, grants) /\ Goes(c, "waiting")
             /\ UNCHANGED <<latest, outcome, queue>>
    BY <1>14, <2>1, <2>3, MoveKeeps DEF Judge, Allows, Stages, Unasked, Allowed
  <2>4. CASE Asks(kind[c], mode, grants) /\ Goes(c, "gated")
             /\ UNCHANGED <<latest, outcome, queue>>
    BY <1>14, <2>1, <2>4, MoveKeeps DEF Judge, Stages, Unasked, Allowed
  <2> QED
    BY <1>14, <2>2, <2>3, <2>4 DEF Judge
<1>15. CASE PrepareFails(c)
  <2>1. alive /\ stage[c] = "admitted" /\ fact[c] \notin Early \cup {"none"} /\ code[c] = "none"
        /\ approved[c] = "none"
    BY <1>15, <1>1, <1>3, <1>4, ReadyIsWritten DEF PrepareFails, Judged, Unstarted, Unasked
  <2> QED
    BY <1>15, <2>1, <1>6, FinishKeeps DEF PrepareFails
<1>16. CASE PrepareHangs(c)
  <2>1. alive /\ stage[c] = "admitted" /\ fact[c] \notin Early \cup {"none"} /\ code[c] = "none"
        /\ approved[c] = "none"
    BY <1>16, <1>1, <1>3, <1>4, ReadyIsWritten DEF PrepareHangs, Judged, Unstarted, Unasked
  <2>2. code'[c] = "stuck"
    BY <1>16 DEF PrepareHangs, TypeOK
  <2> QED
    BY <1>16, <2>1, <2>2, <1>6, FinishKeeps DEF PrepareHangs
<1>17. CASE OpenGate(c)
  <2>1. alive /\ stage[c] = "gated" /\ fact[c] \notin Early \cup {"none"} /\ code[c] = "none"
        /\ approved[c] = "none"
    BY <1>17, <1>1, <1>3, <1>4, ReadyIsWritten DEF OpenGate, Judged, Unstarted, Unasked
  <2>2. CASE Denies(kind[c], mode) /\ Finish(c, "failed")
    BY <1>17, <2>1, <2>2, <1>6, FinishKeeps DEF OpenGate
  <2>3. CASE Allows(kind[c], mode, grants) /\ Goes(c, "waiting")
             /\ UNCHANGED <<latest, outcome, queue>>
    BY <1>17, <2>1, <2>3, MoveKeeps DEF OpenGate, Allows, Stages, Unasked, Allowed
  <2>4. CASE Asks(kind[c], mode, grants) /\ Goes(c, "asking")
             /\ UNCHANGED <<latest, outcome, queue>>
    BY <1>17, <2>1, <2>4, MoveKeeps DEF OpenGate, Stages, Unasked, Allowed
  <2> QED
    BY <1>17, <2>2, <2>3, <2>4 DEF OpenGate
<1>18. CASE Approve(c)
  <2>1. alive /\ stage[c] = "asking" /\ fact[c] \notin Early \cup {"none"} /\ code[c] = "none"
        /\ approved[c] = "none"
    BY <1>18, <1>1, <1>3, <1>4, ReadyIsWritten DEF Approve, Judged, Unstarted, Unasked
  <2>2. approved'[c] # "none"
    <3>1. PICK scope \in AnswerScopes : approved' = [approved EXCEPT ![c] = scope]
      BY <1>18 DEF Approve
    <3> QED
      BY <3>1, ScopeAssumption DEF Scopes, TypeOK
  <2> QED
    BY <1>18, <2>1, <2>2, MoveKeeps DEF Approve, Stages, Unasked, Allowed
<1>19. CASE Refuse(c)
  <2>1. alive /\ stage[c] = "asking" /\ fact[c] \notin Early \cup {"none"} /\ code[c] = "none"
        /\ approved[c] = "none"
    BY <1>19, <1>1, <1>3, <1>4, ReadyIsWritten DEF Refuse, Judged, Unstarted, Unasked
  <2> QED
    BY <1>19, <2>1, <1>6, FinishKeeps DEF Refuse
<1>20. CASE Start(c)
  <2>1. alive /\ stage[c] = "waiting" /\ fact[c] \notin Early \cup {"none"} /\ code[c] = "none"
        /\ (kind[c].level = "critical" => approved[c] # "none")
    BY <1>20, <1>1, <1>3, <1>5 DEF Start, Judged, Unstarted, Allowed, MayStart
  <2> QED
    BY <1>20, <2>1, MoveKeeps DEF Start, Stages, Unasked, Allowed, MayStart
<1>21. CASE StartStale(c)
  <2>1. alive /\ stage[c] = "waiting" /\ fact[c] \notin Early \cup {"none"} /\ code[c] = "none"
        /\ (kind[c].level = "critical" => approved[c] # "none")
    BY <1>21, <1>1, <1>3, <1>5 DEF StartStale, Judged, Unstarted, Allowed, MayStart
  <2> QED
    BY <1>21, <2>1, MoveKeeps DEF StartStale, Stages, Unasked, Allowed, MayStart
<1>22. CASE HookBlocks(c)
  <2>1. alive /\ stage[c] = "hooking" /\ fact[c] \notin Early \cup {"none"} /\ code[c] = "none"
        /\ (kind[c].level = "critical" => approved[c] # "none")
    BY <1>22, <1>1, <1>3, <1>5 DEF HookBlocks, Judged, Unstarted, Allowed
  <2> QED
    BY <1>22, <2>1, MoveKeeps DEF HookBlocks, Stages, Unasked, Allowed
<1>23. CASE Save(c)
  <2>1. alive /\ stage[c] = "hooking" /\ fact[c] \notin Early \cup {"none"} /\ code[c] = "none"
        /\ (kind[c].level = "critical" => approved[c] # "none")
    BY <1>23, <1>1, <1>3, <1>5 DEF Save, Judged, Unstarted, Allowed
  <2> QED
    BY <1>23, <2>1, MoveKeeps DEF Save, Stages, Unasked, Allowed
<1>24. CASE Launch(c)
  <2>1. alive /\ stage[c] = "hooking" /\ fact[c] \notin Early \cup {"none"}
        /\ (kind[c].level = "critical" => approved[c] # "none")
    BY <1>24, <1>3, <1>5 DEF Launch, Judged, Allowed
  <2>2. code'[c] = "running"
    BY <1>24 DEF Launch, Launches, TypeOK
  <2> QED
    BY <1>24, <2>1, <2>2, MoveKeeps DEF Launch, Launches, Stages, Unasked, Allowed
<1>25. CASE Saved(c)
  <2>1. alive /\ stage[c] = "saving" /\ fact[c] \notin Early \cup {"none"} /\ code[c] = "none"
        /\ (kind[c].level = "critical" => approved[c] # "none")
    BY <1>25, <1>1, <1>3, <1>5 DEF Saved, Judged, Allowed, Unstarted
  <2>2. CASE aborted
    BY <1>25, <2>1, <2>2, <1>6, FinishKeeps DEF Saved, Harmless
  <2>3. CASE ~ aborted
    <3>1. code'[c] = "running"
      BY <1>25, <2>3 DEF Saved, Launches, TypeOK
    <3> QED
      BY <1>25, <2>1, <2>3, <3>1, MoveKeeps DEF Saved, Launches, Stages, Unasked, Allowed
  <2> QED
    BY <2>2, <2>3
<1>26. CASE Commit(c)
  <2>1. /\ queue'[c] = Append(queue[c], "side_effect_committed")
        /\ latest'[c] = "side_effect_committed" /\ effect'[c] = TRUE /\ stage[c] = "running"
    BY <1>26, <1>2 DEF Commit, Noted, TypeOK
  <2> QED
    BY <1>26, <2>1, NoteKeeps DEF Commit
<1>27. CASE Succeed(c)
  <2> DEFINE s == "succeeded"
  <2>1. alive /\ stage[c] = "running" /\ code[c] = "running"
        /\ fact[c] \notin Early \cup {"none"}
    BY <1>27, <1>2 DEF Succeed
  <2>2. Ends(c, "returned", s) /\ code'[c] = "returned"
    BY <1>27 DEF Succeed, Ends, TypeOK
  <2>3. s \in Statuses /\ (s = "succeeded" => code'[c] = "returned")
        /\ (s = "cancelled" => kind[c].repeatable /\ ~ effect[c])
    BY <2>2 DEF StoppedStatus, Statuses
  <2> HIDE DEF s
  <2> QED
    BY <2>1, <2>2, <2>3, FinishKeeps DEF Ends, Proven, Harmless
<1>28. CASE Fail(c)
  <2> DEFINE s == "failed"
  <2>1. alive /\ stage[c] = "running" /\ code[c] = "running"
        /\ fact[c] \notin Early \cup {"none"}
    BY <1>28, <1>2 DEF Fail
  <2>2. Ends(c, "ended", s) /\ code'[c] = "ended"
    BY <1>28 DEF Fail, Ends, TypeOK
  <2>3. s \in Statuses /\ (s = "succeeded" => code'[c] = "returned")
        /\ (s = "cancelled" => kind[c].repeatable /\ ~ effect[c])
    BY <2>2 DEF StoppedStatus, Statuses
  <2> HIDE DEF s
  <2> QED
    BY <2>1, <2>2, <2>3, FinishKeeps DEF Ends, Proven, Harmless
<1>29. CASE Stop(c)
  <2> DEFINE s == StoppedStatus(c)
  <2>1. alive /\ stage[c] = "running" /\ code[c] = "running"
        /\ fact[c] \notin Early \cup {"none"}
    BY <1>29, <1>2 DEF Stop
  <2>2. Ends(c, "ended", s) /\ code'[c] = "ended"
    BY <1>29 DEF Stop, Ends, TypeOK
  <2>3. s \in Statuses /\ (s = "succeeded" => code'[c] = "returned")
        /\ (s = "cancelled" => kind[c].repeatable /\ ~ effect[c])
    BY <2>2 DEF StoppedStatus, Statuses
  <2> HIDE DEF s
  <2> QED
    BY <2>1, <2>2, <2>3, FinishKeeps DEF Ends, Proven, Harmless
<1>30. CASE Quarantine(c)
  <2> DEFINE s == "unknown"
  <2>1. alive /\ stage[c] = "running" /\ code[c] = "running"
        /\ fact[c] \notin Early \cup {"none"}
    BY <1>30, <1>2 DEF Quarantine
  <2>2. Ends(c, "adrift", s) /\ code'[c] = "adrift"
    BY <1>30 DEF Quarantine, Ends, TypeOK
  <2>3. s \in Statuses /\ (s = "succeeded" => code'[c] = "returned")
        /\ (s = "cancelled" => kind[c].repeatable /\ ~ effect[c])
    BY <2>2 DEF StoppedStatus, Statuses
  <2> HIDE DEF s
  <2> QED
    BY <2>1, <2>2, <2>3, FinishKeeps DEF Ends, Proven, Harmless
<1>31. CASE TimeOut(c)
  <2> DEFINE s == IF aborted THEN StoppedStatus(c) ELSE "failed"
  <2>1. alive /\ stage[c] = "running" /\ code[c] = "running"
        /\ fact[c] \notin Early \cup {"none"}
    BY <1>31, <1>2 DEF TimeOut
  <2>2. Ends(c, "lost", s) /\ code'[c] = "lost"
    BY <1>31 DEF TimeOut, Ends, TypeOK
  <2>3. s \in Statuses /\ (s = "succeeded" => code'[c] = "returned")
        /\ (s = "cancelled" => kind[c].repeatable /\ ~ effect[c])
    BY <2>2 DEF StoppedStatus, Statuses
  <2> HIDE DEF s
  <2> QED
    BY <2>1, <2>2, <2>3, FinishKeeps DEF Ends, Proven, Harmless
<1>32. CASE Settle(c)
  BY <1>32, SettleKeeps
<1>33. CASE Wrap(c)
  <2> DEFINE s == TerminalStatus(latest[c])
  <2>1. alive /\ stage[c] = "wrapping" /\ fact[c] \notin Early \cup {"none"} /\ code[c] = "none"
    BY <1>33, <1>1, <1>3 DEF Wrap, Judged, Unstarted
  <2>2. s \in Statuses /\ s # "succeeded"
    BY <2>1 DEF TerminalStatus, CallInv, StateStaged, Statuses
  <2>3. Finish(c, s) /\ code'[c] = code[c]
    BY <1>33 DEF Wrap
  <2> HIDE DEF s
  <2> QED
    BY <1>33, <2>1, <2>2, <2>3, FinishKeeps DEF Wrap, Harmless
<1>34. CASE CutShort(c)
  <2>1. alive /\ stage[c] \in Unstarted \ {"new"} /\ code[c] = "none"
    BY <1>34, <1>1 DEF CutShort, Ready, Unstarted
  <2>2. stage[c] = "noted" => queue[c] = <<>>
    BY <1>34, NotedIsFlushed DEF CutShort, Ready
  <2> QED
    BY <1>34, <2>1, <2>2, <1>6, FinishKeeps DEF CutShort, Harmless, Unstarted
<1>35. CASE Recover(c)
  BY <1>35, RecoverKeeps
<1> QED
  BY <1>10, <1>11, <1>12, <1>13, <1>14, <1>15, <1>16, <1>17, <1>18, <1>19, <1>20, <1>21,
       <1>22, <1>23,
     <1>24, <1>25, <1>26, <1>27, <1>28, <1>29, <1>30, <1>31, <1>32, <1>33, <1>34, <1>35
  DEF CallStep, Advance, Run

\* A step of another call leaves a call as it is.
Untouched(c) ==
  /\ kind' = kind /\ alive' = alive /\ aborted' = aborted
  /\ stage'[c] = stage[c] /\ latest'[c] = latest[c] /\ outcome'[c] = outcome[c]
  /\ code'[c] = code[c] /\ effect'[c] = effect[c] /\ queue'[c] = queue[c]
  /\ fact'[c] = fact[c] /\ answer'[c] = answer[c] /\ approved'[c] = approved[c]

LEMMA OtherStep ==
  ASSUME TypeOK, NEW d \in Call, CallStep(d), NEW c \in Call, c # d
  PROVE  Untouched(c)
<1> USE DEF Untouched, Finish, FinishFreed, Report, Noted, Goes
<1>1. CASE Flush(d)
  BY <1>1 DEF Flush, TypeOK
<1>2. CASE Receive(d)
  BY <1>2 DEF Receive, TypeOK
<1>3. CASE Admit(d)
  BY <1>3 DEF Admit, TypeOK
<1>4. CASE Begin(d)
  BY <1>4 DEF Begin, TypeOK
<1>5. CASE Judge(d)
  BY <1>5 DEF Judge, TypeOK
<1>6. CASE PrepareFails(d)
  BY <1>6 DEF PrepareFails, TypeOK
<1>7. CASE PrepareHangs(d)
  BY <1>7 DEF PrepareHangs, TypeOK
<1>8. CASE OpenGate(d)
  BY <1>8 DEF OpenGate, TypeOK
<1>9. CASE Approve(d)
  BY <1>9 DEF Approve, TypeOK
<1>10. CASE Refuse(d)
  BY <1>10 DEF Refuse, TypeOK
<1>11. CASE Start(d)
  BY <1>11 DEF Start, TypeOK
<1>12. CASE StartStale(d)
  BY <1>12 DEF StartStale, TypeOK
<1>13. CASE HookBlocks(d)
  BY <1>13 DEF HookBlocks, TypeOK
<1>14. CASE Save(d)
  BY <1>14 DEF Save, TypeOK
<1>15. CASE Launch(d)
  BY <1>15 DEF Launch, TypeOK, Launches
<1>16. CASE Saved(d)
  BY <1>16 DEF Saved, TypeOK, Launches
<1>17. CASE Commit(d)
  BY <1>17 DEF Commit, TypeOK
<1>18. CASE Succeed(d)
  BY <1>18 DEF Succeed, TypeOK, Ends
<1>19. CASE Fail(d)
  BY <1>19 DEF Fail, TypeOK, Ends
<1>20. CASE Stop(d)
  BY <1>20 DEF Stop, TypeOK, Ends
<1>21. CASE Quarantine(d)
  BY <1>21 DEF Quarantine, TypeOK, Ends
<1>22. CASE TimeOut(d)
  BY <1>22 DEF TimeOut, TypeOK, Ends
<1>23. CASE Settle(d)
  BY <1>23 DEF Settle, TypeOK
<1>24. CASE Wrap(d)
  BY <1>24 DEF Wrap, TypeOK
<1>25. CASE CutShort(d)
  BY <1>25 DEF CutShort, TypeOK
<1>26. CASE Recover(d)
  BY <1>26 DEF Recover, TypeOK
<1> QED
  BY <1>1, <1>2, <1>3, <1>4, <1>5, <1>6, <1>7, <1>8, <1>9, <1>10, <1>11, <1>12, <1>13,
       <1>14, <1>15, <1>16, <1>17, <1>18,
     <1>19, <1>20, <1>21, <1>22, <1>23, <1>24, <1>25, <1>26
  DEF CallStep, Advance, Run

LEMMA UntouchedKeeps ==
  ASSUME NEW c \in Call, CallInv(c), Untouched(c)
  PROVE  CallInv(c)'
<1> USE DEF Untouched, CallInv
<1>1. CodeStaged(c)' /\ StateStaged(c)' /\ ApprovalStaged(c)'
  BY DEF CodeStaged, StateStaged, ApprovalStaged
<1>2. QueueStaged(c)' /\ WrittenAhead(c)'
  BY DEF QueueStaged, WrittenAhead
<1>3. SaysTrue(c)'
  BY DEF SaysTrue, Says, Proven, Harmless, Closed
<1> QED
  BY <1>1, <1>2, <1>3

\* The steps that are not of a call.
LEMMA AbortKeeps ==
  ASSUME TypeOK, NEW c \in Call, CallInv(c), Abort
  PROVE  CallInv(c)'
<1>1. CASE stage[c] # "new" /\ latest[c] \in {"running", "side_effect_committed"}
  <2>1. /\ latest'[c] = "cancel_requested"
        /\ queue'[c] = Append(queue[c], "cancel_requested")
    BY <1>1 DEF Abort, TypeOK
  <2>2. stage[c] \notin {"new", "noted", "queued"}
    BY <1>1 DEF CallInv, StateStaged
  <2> QED
    BY <2>1, <2>2, NoteKeeps DEF Abort
<1>2. CASE ~ (stage[c] # "new" /\ latest[c] \in {"running", "side_effect_committed"})
  <2>1. latest'[c] = latest[c] /\ queue'[c] = queue[c]
    BY <1>2 DEF Abort, TypeOK
  <2> USE DEF Abort, CallInv
  <2>2. CodeStaged(c)' /\ StateStaged(c)' /\ ApprovalStaged(c)'
    BY <2>1 DEF CodeStaged, StateStaged, ApprovalStaged
  <2>3. QueueStaged(c)' /\ WrittenAhead(c)'
    BY <2>1 DEF QueueStaged, WrittenAhead
  <2>4. SaysTrue(c)'
    BY <2>1 DEF SaysTrue, Says, Proven, Harmless, Closed
  <2> QED
    BY <2>2, <2>3, <2>4
<1> QED
  BY <1>1, <1>2

LEMMA CrashKeeps ==
  ASSUME TypeOK, NEW c \in Call, CallInv(c), Crash
  PROVE  CallInv(c)'
<1>1. /\ stage'[c] = "new" /\ latest'[c] = "not_started" /\ outcome'[c] = "none"
      /\ queue'[c] = <<>> /\ approved'[c] = "none" /\ ~ alive'
      /\ code'[c] = IF code[c] \in {"none", "returned"} THEN code[c] ELSE "ended"
      /\ UNCHANGED <<kind, effect, fact, answer>>
  BY DEF Crash
<1>2. Recs(queue'[c]) = {}
  BY <1>1 DEF Recs
<1>3. CodeStaged(c)' /\ StateStaged(c)' /\ ApprovalStaged(c)'
  BY <1>1 DEF CodeStaged, StateStaged, ApprovalStaged, Statuses, Allowed
<1>4. QueueStaged(c)' /\ WrittenAhead(c)'
  BY <1>1, <1>2 DEF QueueStaged, CallInv, WrittenAhead, Judged, Allowed
<1>5. SaysTrue(c)'
  BY <1>1, <1>2 DEF CallInv, SaysTrue, Says, Proven, Harmless, Closed
<1> QED
  BY <1>3, <1>4, <1>5 DEF CallInv

LEMMA CallsKeep ==
  ASSUME TypeOK, \A c \in Call : CallInv(c), [Next]_vars
  PROVE  \A c \in Call : CallInv(c)'
<1> TAKE c \in Call
<1>1. CASE \E d \in Call : CallStep(d)
  BY <1>1, OwnStep, OtherStep, UntouchedKeeps
<1>2. CASE Abort
  BY <1>2, AbortKeeps
<1>3. CASE NextTurn \/ (\E f \in File : Edit(f)) \/ UNCHANGED vars
  <2> USE DEF CallInv
  <2>0. UNCHANGED <<kind, alive, stage, latest, outcome, code, effect, queue, fact, answer,
                    approved>>
    BY <1>3 DEF NextTurn, Edit, vars
  <2>1. CodeStaged(c)' /\ StateStaged(c)' /\ ApprovalStaged(c)'
    BY <2>0 DEF CodeStaged, StateStaged, ApprovalStaged
  <2>2. QueueStaged(c)' /\ WrittenAhead(c)'
    BY <2>0 DEF QueueStaged, WrittenAhead
  <2>3. SaysTrue(c)'
    BY <2>0 DEF SaysTrue, Says, Proven, Harmless, Closed
  <2> QED
    BY <2>1, <2>2, <2>3
<1>4. CASE Crash
  BY <1>4, CrashKeeps
<1> QED
  BY <1>1, <1>2, <1>3, <1>4 DEF Next

-----------------------------------------------------------------------------
(* The holders of resources stay apart.                                    *)

LEMMA ConflictIsMutual ==
  ASSUME NEW k, NEW l, Conflict(k, l)
  PROVE  Conflict(l, k)
BY DEF Conflict

\* Only Start() makes a holder, and only a holder's code can be left behind.
LEMMA HoldersComeFromStart ==
  ASSUME TypeOK, NEW c \in Call, CallInv(c), CallStep(c)
  PROVE  /\ c \in Holders' => c \in Holders \/ MayStart(c)
         /\ code'[c] = "adrift" => code[c] = "adrift" \/ (c \in Holders /\ aborted)
<1> USE DEF Holders, Finish, FinishFreed, Report, Noted, Goes
<1>a. code[c] = "running" => stage[c] = "running"
  BY DEF CallInv, CodeStaged
<1>0. CASE Start(c)
  BY <1>0 DEF Start
<1>1. CASE Flush(c)
  BY <1>1, <1>a DEF Flush, TypeOK
<1>2. CASE Receive(c)
  BY <1>2, <1>a DEF Receive, TypeOK
<1>3. CASE Admit(c)
  BY <1>3, <1>a DEF Admit, TypeOK
<1>4. CASE Begin(c)
  BY <1>4, <1>a DEF Begin, TypeOK
<1>5. CASE Judge(c)
  BY <1>5, <1>a DEF Judge, TypeOK
<1>6. CASE PrepareFails(c)
  BY <1>6, <1>a DEF PrepareFails, TypeOK
<1>7. CASE PrepareHangs(c)
  BY <1>7, <1>a DEF PrepareHangs, TypeOK
<1>8. CASE OpenGate(c)
  BY <1>8, <1>a DEF OpenGate, TypeOK
<1>9. CASE Approve(c)
  BY <1>9, <1>a DEF Approve, TypeOK
<1>10. CASE Refuse(c)
  BY <1>10, <1>a DEF Refuse, TypeOK
<1>11. CASE StartStale(c)
  BY <1>11, <1>a DEF StartStale, TypeOK
<1>12. CASE HookBlocks(c)
  BY <1>12, <1>a DEF HookBlocks, TypeOK
<1>13. CASE Save(c)
  BY <1>13, <1>a DEF Save, TypeOK
<1>14. CASE Launch(c)
  BY <1>14, <1>a DEF Launch, TypeOK, Launches
<1>15. CASE Saved(c)
  BY <1>15, <1>a DEF Saved, TypeOK, Launches
<1>16. CASE Commit(c)
  BY <1>16, <1>a DEF Commit, TypeOK
<1>17. CASE Succeed(c)
  BY <1>17, <1>a DEF Succeed, TypeOK, Ends
<1>18. CASE Fail(c)
  BY <1>18, <1>a DEF Fail, TypeOK, Ends
<1>19. CASE Stop(c)
  BY <1>19, <1>a DEF Stop, TypeOK, StoppedStatus, Ends
<1>20. CASE Quarantine(c)
  BY <1>20, <1>a DEF Quarantine, TypeOK, Ends
<1>21. CASE TimeOut(c)
  BY <1>21, <1>a DEF TimeOut, TypeOK, StoppedStatus, Ends
<1>22. CASE Settle(c)
  BY <1>22, <1>a DEF Settle, TypeOK
<1>23. CASE Wrap(c)
  BY <1>23, <1>a DEF Wrap, TypeOK
<1>24. CASE CutShort(c)
  BY <1>24, <1>a DEF CutShort, TypeOK
<1>25. CASE Recover(c)
  BY <1>25, <1>a DEF Recover, TypeOK
<1> QED
  BY <1>0, <1>1, <1>2, <1>3, <1>4, <1>5, <1>6, <1>7, <1>8, <1>9, <1>10, <1>11, <1>12, <1>13,
       <1>14, <1>15, <1>16, <1>17, <1>18,
     <1>19, <1>20, <1>21, <1>22, <1>23, <1>24, <1>25
  DEF CallStep, Advance, Run

LEMMA HoldersKeep ==
  ASSUME TypeOK, \A c \in Call : CallInv(c), HoldersApart, [Next]_vars
  PROVE  HoldersApart'
<1>1. ASSUME NEW c \in Call, CallStep(c)
      PROVE  HoldersApart'
  <2>1. /\ \A d \in Call : d # c => (d \in Holders' <=> d \in Holders) /\ code'[d] = code[d]
        /\ kind' = kind /\ aborted' = aborted
    <3>1. \A d \in Call : d # c => Untouched(d)
      BY <1>1, OtherStep
    <3>2. kind' = kind /\ aborted' = aborted
      BY <1>1 DEF CallStep, Advance, Run, Flush, Receive, Admit, Begin, Judge, PrepareFails,
         PrepareHangs, OpenGate, Approve, Refuse, Start, StartStale, HookBlocks, Save, Launch,
         Saved, Commit, Succeed, Fail, Stop, Quarantine, TimeOut, Ends, Settle, Wrap,
         CutShort, Recover
    <3> QED
      BY <3>1, <3>2 DEF Untouched, Holders
  <2>2. /\ c \in Holders' => c \in Holders \/ MayStart(c)
        /\ code'[c] = "adrift" => code[c] = "adrift" \/ (c \in Holders /\ aborted)
    BY <1>1, HoldersComeFromStart
  <2>3. MayStart(c) => /\ ~ aborted /\ \A d \in Holders : ~ Conflict(kind[c], kind[d])
                       /\ \A d \in Call : code[d] # "adrift"
    BY DEF MayStart, HoldersApart
  <2>4. \A d, e \in Holders' : d # e => ~ Conflict(kind[d], kind[e])
    <3> TAKE d, e \in Holders'
    <3> HAVE d # e
    <3>0. d \in Call /\ e \in Call
      BY DEF Holders
    <3>1. CASE d \in Holders /\ e \in Holders
      BY <3>1 DEF HoldersApart
    <3>2. CASE d \notin Holders
      BY <2>1, <2>2, <2>3, <3>0, <3>2
    <3>3. CASE e \notin Holders
      BY <2>1, <2>2, <2>3, <3>0, <3>3, ConflictIsMutual
    <3> QED
      BY <3>1, <3>2, <3>3
  <2>5. ASSUME NEW d \in Call, code'[d] = "adrift"
        PROVE  aborted /\ \A e \in Holders' : e # d => ~ Conflict(kind[e], kind[d])
    <3>1. (code[d] = "adrift" \/ d \in Holders) /\ aborted
      BY <2>1, <2>2, <2>5 DEF HoldersApart
    <3>2. \A e \in Holders' : e \in Holders
      BY <2>1, <2>2, <2>3, <3>1 DEF Holders
    <3> QED
      BY <3>1, <3>2 DEF HoldersApart
  <2> QED
    BY <2>1, <2>4, <2>5 DEF HoldersApart
<1>2. CASE Abort
  BY <1>2 DEF Abort, HoldersApart, Holders
<1>3. CASE NextTurn
  <2>1. \A d \in Call : code[d] # "adrift"
    BY <1>3 DEF NextTurn
  <2> QED
    BY <1>3, <2>1 DEF NextTurn, HoldersApart, Holders
<1>4. CASE Crash
  <2>1. Holders' = {} /\ \A d \in Call : code'[d] # "adrift"
    BY <1>4 DEF Crash, Holders
  <2> QED
    BY <2>1 DEF HoldersApart
<1>5. CASE (\E f \in File : Edit(f)) \/ UNCHANGED vars
  BY <1>5 DEF Edit, vars, HoldersApart, Holders
<1> QED
  BY <1>1, <1>2, <1>3, <1>4, <1>5 DEF Next

-----------------------------------------------------------------------------
(* Rules have an approval.                                                 *)

LEMMA GrantsKeep ==
  ASSUME TypeOK, \A c \in Call : CallInv(c), GrantsBacked, [Next]_vars
  PROVE  GrantsBacked'
<1>1. ASSUME NEW c \in Call, Approve(c)
      PROVE  GrantsBacked'
  <2>1. PICK scope \in AnswerScopes :
               /\ approved' = [approved EXCEPT ![c] = scope]
               /\ grants' = grants \cup GrantKeys(kind[c], scope)
    BY <1>1 DEF Approve
  <2>2. approved[c] = "none" /\ kind' = kind
    BY <1>1 DEF Approve, CallInv, ApprovalStaged, Unasked
  <2>3. GrantKeys(kind[c], "none") = {}
    BY DEF GrantKeys
  <2>4. ASSUME NEW g \in grants
        PROVE  \E d \in Call : g \in GrantKeys(kind[d], approved'[d])
    <3>1. PICK d \in Call : g \in GrantKeys(kind[d], approved[d])
      BY <2>4 DEF GrantsBacked
    <3>2. d # c
      BY <2>2, <2>3, <3>1
    <3>3. approved'[d] = approved[d]
      BY <2>1, <3>2 DEF TypeOK
    <3> QED
      BY <3>1, <3>3
  <2>5. approved'[c] = scope
    BY <2>1 DEF TypeOK
  <2> QED
    BY <2>1, <2>2, <2>4, <2>5 DEF GrantsBacked
<1>2. ASSUME NEW c \in Call, StartStale(c)
      PROVE  GrantsBacked'
  <2>1. /\ grants' = grants \ GrantKeys(kind[c], approved[c]) /\ kind' = kind
        /\ \A d \in Call : d # c => approved'[d] = approved[d]
    BY <1>2 DEF StartStale, TypeOK
  <2>2. ASSUME NEW g \in grants'
        PROVE  \E d \in Call : g \in GrantKeys(kind[d], approved'[d])
    <3>1. PICK d \in Call : g \in GrantKeys(kind[d], approved[d])
      BY <2>1, <2>2 DEF GrantsBacked
    <3>2. d # c
      BY <2>1, <2>2, <3>1
    <3> QED
      BY <2>1, <3>1, <3>2
  <2> QED
    BY <2>1, <2>2 DEF GrantsBacked
<1>3. ASSUME NEW c \in Call, CallStep(c), ~ Approve(c), ~ StartStale(c)
      PROVE  kind' = kind /\ grants' = grants /\ approved' = approved
  BY <1>3 DEF CallStep, Advance, Run, Flush, Receive, Admit, Begin, Judge, PrepareFails,
     PrepareHangs, OpenGate, Refuse, Start, HookBlocks, Save, Launch,
     Saved, Commit, Succeed, Fail, Stop, Quarantine, TimeOut, Ends, Settle, Wrap,
     CutShort, Recover
<1>4. CASE Crash
  BY <1>4 DEF Crash, GrantsBacked
<1>5. ASSUME kind' = kind, grants' = grants, approved' = approved
      PROVE  GrantsBacked'
  BY <1>5 DEF GrantsBacked
<1>6. CASE Abort \/ NextTurn \/ (\E f \in File : Edit(f)) \/ UNCHANGED vars
  BY <1>5, <1>6 DEF Abort, NextTurn, Edit, vars
<1> QED
  BY <1>1, <1>2, <1>3, <1>4, <1>5, <1>6 DEF Next

-----------------------------------------------------------------------------
(* The invariant and what it says.                                         *)

LEMMA InitInv == Init => IInv
<1> SUFFICES ASSUME Init PROVE IInv
  OBVIOUS
<1>1. Recs(<<>>) = {}
  BY DEF Recs
<1>2. ASSUME NEW c \in Call PROVE CallInv(c)
  BY <1>1 DEF Init, CallInv, CodeStaged, StateStaged, QueueStaged, WrittenAhead, SaysTrue,
     Says, ApprovalStaged, Judged, Allowed, Statuses
<1>3. HoldersApart /\ GrantsBacked
  BY DEF Init, HoldersApart, Holders, GrantsBacked
<1> QED
  BY <1>2, <1>3, InitTyped DEF IInv

LEMMA StepInv == IInv /\ [Next]_vars => IInv'
<1> SUFFICES ASSUME IInv, [Next]_vars PROVE IInv'
  OBVIOUS
<1>1. TypeOK'
  BY StepTyped DEF IInv
<1>2. (\A c \in Call : CallInv(c))'
  BY CallsKeep DEF IInv
<1>3. HoldersApart' /\ GrantsBacked'
  BY HoldersKeep, GrantsKeep DEF IInv
<1> QED
  BY <1>1, <1>2, <1>3 DEF IInv

LEMMA Invariance == Spec => []IInv
BY InitInv, StepInv, PTL DEF Spec

\* The result that finish() or, after a crash, interruptedToolResults() gives
\* is never "cancelled" for a call that may have acted nor "succeeded" for one
\* that has not.
THEOREM TrueVerdicts == Spec => []VerdictsTrue
<1>1. IInv => VerdictsTrue
  BY DEF IInv, CallInv, SaysTrue, Says, VerdictsTrue
<1> QED
  BY <1>1, Invariance, PTL

\* Conflicting code never runs at once, that of an earlier turn left behind by
\* its abort included.
THEOREM CodeKeptApart == Spec => []NoOverlap
<1>1. IInv => NoOverlap
  <2> SUFFICES ASSUME IInv, NEW c \in Call, NEW d \in Call, c # d, code[c] = "running",
                      code[d] \in {"running", "adrift"}
               PROVE  ~ Conflict(kind[c], kind[d])
    BY DEF NoOverlap
  <2>1. \A e \in Call : code[e] = "running" => e \in Holders
    BY DEF IInv, CallInv, CodeStaged, Holders
  <2> QED
    BY <2>1 DEF IInv, HoldersApart
<1> QED
  BY <1>1, Invariance, PTL

\* No rule and no mode lets the code of a critical call run unasked.
THEOREM CriticalIsAsked == Spec => []CriticalAsked
<1>1. IInv => CriticalAsked
  BY DEF IInv, CallInv, CodeStaged, ApprovalStaged, Allowed, CriticalAsked
<1> QED
  BY <1>1, Invariance, PTL

\* revokeResult() leaves no rule behind that only the revoked approval made.
THEOREM GrantsHaveApproval == Spec => []GrantsBacked
<1>1. IInv => GrantsBacked
  BY DEF IInv
<1> QED
  BY <1>1, Invariance, PTL
-----------------------------------------------------------------------------
(* The result of a call and its place in the pipeline.                     *)

\* The records of a call end with its answer.
EndsWithAnswer(q) ==
  /\ q # <<>> /\ q[Len(q)] = "answer"
  /\ \A i \in 1 .. Len(q) : i < Len(q) => q[i] # "answer"

\* While the process runs, a call has a status when it is over, and then its
\* answer is either the last record to come or the last that has come.
Spoken(c) ==
  IF alive /\ stage[c] \in Over
  THEN /\ outcome[c] # "none" /\ latest[c] \in Statuses
       /\ \/ queue[c] = <<>> /\ answer[c] = outcome[c]
          \/ EndsWithAnswer(queue[c]) /\ answer[c] = "none"
  ELSE /\ alive => answer[c] = "none"
       /\ ~ alive => queue[c] = <<>>

PlacesKept == IsFiniteSet(Piped) /\ Cardinality(Piped) <= Slots

RInv == IInv /\ (\A c \in Call : Spoken(c)) /\ PlacesKept

\* execute() finishes the call: in its place, or without one.
Ending(c) ==
  /\ alive /\ alive' = alive /\ answer' = answer /\ fact' = fact
  /\ stage[c] \notin Over
  /\ \E s \in Statuses : Report(c, s)
  /\ Goes(c, "freed") \/ (Goes(c, "finished") /\ c \in Piped)

\* execute() goes on; it takes a place only where there is one.
Going(c) ==
  /\ alive /\ alive' = alive /\ answer' = answer /\ fact' = fact
  /\ stage[c] \notin Over /\ stage'[c] \notin Over /\ outcome' = outcome
  /\ c \in Piped' => c \in Piped \/ Cardinality(Piped) < Slots

LEMMA EndsInPlace ==
  ASSUME TypeOK, NEW c \in Call, NEW s \in Statuses, Finish(c, s),
         alive, alive' = alive, answer' = answer, fact' = fact,
         stage[c] \notin {"new", "noted", "queued"} \cup Over
  PROVE  Ending(c)
BY DEF Ending, Finish, Piped, Over, Done

LEMMA EndsFreed ==
  ASSUME TypeOK, NEW c \in Call, NEW s \in Statuses, FinishFreed(c, s),
         alive, alive' = alive, answer' = answer, fact' = fact,
         stage[c] \notin Over
  PROVE  Ending(c)
BY DEF Ending, FinishFreed

LEMMA GoesOn ==
  ASSUME TypeOK, NEW c \in Call, NEW s \in Stages, Goes(c, s),
         alive, alive' = alive, answer' = answer, fact' = fact, outcome' = outcome,
         stage[c] \notin Over, s \notin Over,
         \/ s \in {"noted", "queued"}
         \/ stage[c] \notin {"new", "noted", "queued"}
         \/ Cardinality(Piped) < Slots
  PROVE  Going(c)
<1>1. stage'[c] = s
  BY DEF Goes, TypeOK
<1> QED
  BY <1>1 DEF Going, Piped, Over, Done

\* Every step of a call is of one of five sorts.
LEMMA StepSorts ==
  ASSUME TypeOK, NEW c \in Call, CallInv(c), CallStep(c)
  PROVE  Flush(c) \/ Settle(c) \/ Recover(c) \/ Ending(c) \/ Going(c)
<1>a. code[c] = "running" => stage[c] = "running"
  BY DEF CallInv, CodeStaged
<1>b. {"cancelled", "failed", "unknown", "succeeded"} = Statuses
  BY DEF Statuses
<1> USE DEF Over, Stages
<1>1. CASE Receive(c)
  BY <1>1, GoesOn DEF Receive
<1>2. CASE Admit(c)
  <2>1. CASE OverBudget(c)
    BY <1>2, <2>1, <1>b, EndsFreed DEF Admit
  <2>2. CASE ~ OverBudget(c)
    BY <1>2, <2>2, GoesOn DEF Admit
  <2> QED
    BY <2>1, <2>2
<1>3. CASE Begin(c)
  BY <1>3, GoesOn DEF Begin, Noted
<1>4. CASE Judge(c)
  <2>1. CASE Finish(c, "failed")
    BY <1>4, <2>1, <1>b, EndsInPlace DEF Judge, Ready
  <2>2. CASE (Goes(c, "waiting") \/ Goes(c, "gated")) /\ UNCHANGED <<latest, outcome, queue>>
    BY <1>4, <2>2, GoesOn DEF Judge, Ready
  <2> QED
    BY <1>4, <2>1, <2>2 DEF Judge
<1>5. CASE OpenGate(c)
  <2>1. CASE Finish(c, "failed")
    BY <1>5, <2>1, <1>b, EndsInPlace DEF OpenGate
  <2>2. CASE (Goes(c, "waiting") \/ Goes(c, "asking")) /\ UNCHANGED <<latest, outcome, queue>>
    BY <1>5, <2>2, GoesOn DEF OpenGate
  <2> QED
    BY <1>5, <2>1, <2>2 DEF OpenGate
<1>6. CASE PrepareFails(c)
  BY <1>6, <1>b, EndsInPlace DEF PrepareFails, Ready
<1>7. CASE PrepareHangs(c)
  BY <1>7, <1>b, EndsInPlace DEF PrepareHangs, Ready
<1>8. CASE Refuse(c)
  BY <1>8, <1>b, EndsInPlace DEF Refuse
<1>9. CASE Approve(c)
  BY <1>9, GoesOn DEF Approve
<1>10. CASE Start(c)
  BY <1>10, GoesOn DEF Start, MayStart
<1>11. CASE StartStale(c)
  BY <1>11, GoesOn DEF StartStale, MayStart
<1>12. CASE HookBlocks(c)
  BY <1>12, GoesOn DEF HookBlocks
<1>13. CASE Save(c)
  BY <1>13, GoesOn DEF Save
<1>14. CASE Launch(c)
  BY <1>14, GoesOn DEF Launch, Launches
<1>15. CASE Saved(c)
  <2>1. CASE aborted
    BY <1>15, <2>1, <1>b, EndsInPlace DEF Saved
  <2>2. CASE ~ aborted
    BY <1>15, <2>2, GoesOn DEF Saved, Launches
  <2> QED
    BY <2>1, <2>2
<1>16. CASE Commit(c)
  BY <1>16, <1>a DEF Commit, Noted, Going, Piped, Done
<1>17. CASE Succeed(c)
  <2> DEFINE s == "succeeded"
  <2>1. s \in Statuses /\ alive /\ stage[c] = "running" /\ Ends(c, "returned", s)
    BY <1>17, <1>a DEF Succeed, StoppedStatus, Statuses
  <2> HIDE DEF s
  <2> QED
    BY <2>1, EndsInPlace DEF Ends
<1>18. CASE Fail(c)
  <2> DEFINE s == "failed"
  <2>1. s \in Statuses /\ alive /\ stage[c] = "running" /\ Ends(c, "ended", s)
    BY <1>18, <1>a DEF Fail, StoppedStatus, Statuses
  <2> HIDE DEF s
  <2> QED
    BY <2>1, EndsInPlace DEF Ends
<1>19. CASE Stop(c)
  <2> DEFINE s == StoppedStatus(c)
  <2>1. s \in Statuses /\ alive /\ stage[c] = "running" /\ Ends(c, "ended", s)
    BY <1>19, <1>a DEF Stop, StoppedStatus, Statuses
  <2> HIDE DEF s
  <2> QED
    BY <2>1, EndsInPlace DEF Ends
<1>20. CASE Quarantine(c)
  <2> DEFINE s == "unknown"
  <2>1. s \in Statuses /\ alive /\ stage[c] = "running" /\ Ends(c, "adrift", s)
    BY <1>20, <1>a DEF Quarantine, StoppedStatus, Statuses
  <2> HIDE DEF s
  <2> QED
    BY <2>1, EndsInPlace DEF Ends
<1>21. CASE TimeOut(c)
  <2> DEFINE s == IF aborted THEN StoppedStatus(c) ELSE "failed"
  <2>1. s \in Statuses /\ alive /\ stage[c] = "running" /\ Ends(c, "lost", s)
    BY <1>21, <1>a DEF TimeOut, StoppedStatus, Statuses
  <2> HIDE DEF s
  <2> QED
    BY <2>1, EndsInPlace DEF Ends
<1>22. CASE Wrap(c)
  <2> DEFINE s == TerminalStatus(latest[c])
  <2>1. s \in Statuses /\ alive /\ stage[c] = "wrapping" /\ Finish(c, s)
    BY <1>22 DEF Wrap, TerminalStatus, Statuses
  <2> HIDE DEF s
  <2> QED
    BY <1>22, <2>1, EndsInPlace DEF Wrap
<1>23. CASE CutShort(c)
  <2>1. stage[c] \notin Over /\ "cancelled" \in Statuses
    BY <1>23, <1>b DEF CutShort, Ready
  <2>2. CASE FinishFreed(c, "cancelled")
    BY <1>23, <2>1, <2>2, EndsFreed DEF CutShort
  <2>3. CASE stage[c] = "hooking" /\ Finish(c, "cancelled")
    BY <1>23, <2>1, <2>3, EndsInPlace DEF CutShort
  <2> QED
    BY <1>23, <2>2, <2>3 DEF CutShort
<1> QED
  BY <1>1, <1>2, <1>3, <1>4, <1>5, <1>6, <1>7, <1>8, <1>9, <1>10, <1>11, <1>12, <1>13, <1>14,
     <1>15, <1>16, <1>17, <1>18, <1>19, <1>20, <1>21, <1>22, <1>23
  DEF CallStep, Advance, Run

LEMMA FinishedQueue ==
  ASSUME NEW q \in Seq(Records), NEW x \in Records, x # "answer", "answer" \notin Recs(q)
  PROVE  EndsWithAnswer(q \o <<x, "answer">>)
<1> DEFINE t == <<x, "answer">>
           both == q \o t
<1>1. t \in Seq(Records) /\ Len(t) = 2 /\ t[1] = x /\ t[2] = "answer"
  BY DEF Records
<1> HIDE DEF t
<1>2. /\ both \in Seq(Records) /\ Len(both) = Len(q) + 2 /\ Len(q) \in Nat
      /\ \A i \in 1 .. Len(both) :
            both[i] = IF i <= Len(q) THEN q[i] ELSE t[i - Len(q)]
  <2>1. /\ both \in Seq(Records) /\ Len(both) = Len(q) + Len(t)
        /\ \A i \in 1 .. Len(q) + Len(t) :
              both[i] = IF i <= Len(q) THEN q[i] ELSE t[i - Len(q)]
    BY <1>1, ConcatProperties
  <2> HIDE DEF both
  <2>2. Len(q) \in Nat
    OBVIOUS
  <2> QED
    BY <1>1, <2>1, <2>2
<1> HIDE DEF both
<1>3. both[Len(both)] = "answer" /\ both # <<>>
  BY <1>1, <1>2
<1>4. ASSUME NEW i \in 1 .. Len(both), i < Len(both)
      PROVE  both[i] # "answer"
  <2>1. CASE i <= Len(q)
    <3>1. i \in 1 .. Len(q) /\ both[i] = q[i]
      BY <1>2, <2>1
    <3> QED
      BY <3>1 DEF Recs
  <2>2. CASE ~ (i <= Len(q))
    <3>1. i - Len(q) = 1
      BY <1>2, <1>4, <2>2
    <3> QED
      BY <1>1, <1>2, <2>2, <3>1
  <2> QED
    BY <2>1, <2>2
<1>5. EndsWithAnswer(both)
  BY <1>3, <1>4 DEF EndsWithAnswer
<1> QED
  BY <1>5 DEF t, both

LEMMA TailOfAnswer ==
  ASSUME NEW q \in Seq(Records), EndsWithAnswer(q)
  PROVE  /\ Head(q) = "answer" => Tail(q) = <<>>
         /\ Head(q) # "answer" => EndsWithAnswer(Tail(q))
<1>1. /\ Len(q) \in Nat /\ Len(q) > 0 /\ Head(q) = q[1]
      /\ Tail(q) \in Seq(Records) /\ Len(Tail(q)) = Len(q) - 1
      /\ \A i \in 1 .. Len(Tail(q)) : Tail(q)[i] = q[i + 1]
  BY DEF EndsWithAnswer
<1>2. CASE Head(q) = "answer"
  <2>1. Len(q) = 1
    BY <1>1, <1>2 DEF EndsWithAnswer
  <2>2. Tail(q) = <<>>
    <3>1. Tail(q) \in Seq(Records) /\ Len(Tail(q)) = 0
      BY <1>1, <2>1
    <3> DEFINE t == Tail(q)
    <3>2. t \in Seq(Records) /\ Len(t) = 0
      BY <3>1
    <3> HIDE DEF t
    <3>3. t = <<>>
      BY <3>2, EmptySeq
    <3> QED
      BY <3>3 DEF t
  <2> QED
    BY <1>2, <2>2
<1>3. CASE Head(q) # "answer"
  <2> DEFINE t == Tail(q)
  <2>1. Len(q) > 1 /\ Len(t) = Len(q) - 1
    BY <1>1, <1>3 DEF EndsWithAnswer
  <2>2. \A i \in 1 .. Len(t) : t[i] = q[i + 1]
    BY <1>1
  <2> HIDE DEF t
  <2>3. t[Len(t)] = "answer" /\ t # <<>>
    BY <1>1, <2>1, <2>2 DEF EndsWithAnswer
  <2>4. \A i \in 1 .. Len(t) : i < Len(t) => t[i] # "answer"
    BY <1>1, <2>1, <2>2 DEF EndsWithAnswer
  <2> QED
    BY <1>3, <2>3, <2>4 DEF EndsWithAnswer, t
<1> QED
  BY <1>2, <1>3

LEMMA SpokenOwnStep ==
  ASSUME TypeOK, NEW c \in Call, CallInv(c), Spoken(c), CallStep(c)
  PROVE  Spoken(c)'
<1>1. CASE Flush(c)
  <2>1. /\ alive /\ alive' /\ stage' = stage /\ outcome' = outcome /\ latest' = latest
        /\ queue[c] # <<>> /\ queue'[c] = Tail(queue[c]) /\ queue[c] \in Seq(Records)
        /\ answer'[c] = IF Head(queue[c]) = "answer" THEN outcome[c] ELSE answer[c]
    BY <1>1 DEF Flush, TypeOK
  <2>2. CASE stage[c] \in Over
    BY <2>1, <2>2, TailOfAnswer DEF Spoken
  <2>3. CASE stage[c] \notin Over
    <3>1. Head(queue[c]) # "answer"
      BY <2>1, <2>3, RecsTail DEF CallInv, QueueStaged
    <3> QED
      BY <2>1, <2>3, <3>1 DEF Spoken
  <2> QED
    BY <2>2, <2>3
<1>2. CASE Settle(c)
  BY <1>2 DEF Settle, Spoken
<1>3. CASE Recover(c)
  BY <1>3 DEF Recover, Spoken
<1>4. CASE Ending(c)
  <2>1. PICK s \in Statuses : Report(c, s)
    BY <1>4 DEF Ending
  <2>2. s \in Records /\ s # "answer" /\ s # "none"
    BY DEF Records, LifeStates, Statuses
  <2>3. "answer" \notin Recs(queue[c]) /\ queue[c] \in Seq(Records)
    BY <1>4 DEF Ending, CallInv, QueueStaged, TypeOK
  <2>4. /\ outcome'[c] = s /\ latest'[c] = s
        /\ queue'[c] = queue[c] \o <<s, "answer">>
        /\ stage'[c] \in Over
    BY <1>4, <2>1 DEF Ending, Report, Goes, Over, TypeOK
  <2>5. EndsWithAnswer(queue'[c])
    BY <2>2, <2>3, <2>4, FinishedQueue
  <2> QED
    BY <1>4, <2>2, <2>4, <2>5 DEF Ending, Spoken
<1>5. CASE Going(c)
  BY <1>5 DEF Going, Spoken
<1> QED
  BY <1>1, <1>2, <1>3, <1>4, <1>5, StepSorts

LEMMA SpokenKeeps ==
  ASSUME IInv, \A c \in Call : Spoken(c), [Next]_vars
  PROVE  \A c \in Call : Spoken(c)'
<1> USE DEF IInv
<1> TAKE c \in Call
<1>1. ASSUME NEW d \in Call, CallStep(d)
      PROVE  Spoken(c)'
  <2>1. CASE c = d
    BY <1>1, <2>1, SpokenOwnStep
  <2>2. CASE c # d
    <3>1. Untouched(c)
      BY <1>1, <2>2, OtherStep
    <3> QED
      BY <3>1 DEF Untouched, Spoken
  <2> QED
    BY <2>1, <2>2
<1>2. CASE Abort
  <2>1. stage[c] \in Over => latest[c] \notin {"running", "side_effect_committed"}
    BY <1>2 DEF Abort, Spoken, Statuses
  <2>2. stage[c] \in Over => latest'[c] = latest[c] /\ queue'[c] = queue[c]
    BY <1>2, <2>1 DEF Abort
  <2> QED
    BY <1>2, <2>2 DEF Abort, Spoken
<1>3. CASE NextTurn \/ (\E f \in File : Edit(f)) \/ UNCHANGED vars
  <2>1. UNCHANGED <<alive, stage, latest, outcome, queue, answer>>
    BY <1>3 DEF NextTurn, Edit, vars
  <2> QED
    BY <2>1 DEF Spoken
<1>4. CASE Crash
  BY <1>4 DEF Crash, Spoken
<1> QED
  BY <1>1, <1>2, <1>3, <1>4 DEF Next

LEMMA PlacesKeep ==
  ASSUME IInv, \A c \in Call : Spoken(c), PlacesKept, [Next]_vars
  PROVE  PlacesKept'
<1> USE DEF IInv
<1>0. Slots \in Nat
  BY BoundAssumption
<1>1. ASSUME Piped' \subseteq Piped
      PROVE  PlacesKept'
  BY <1>0, <1>1, FS_Subset, FS_CardinalityType DEF PlacesKept
<1>2. ASSUME NEW c \in Call, CallStep(c)
      PROVE  PlacesKept'
  <2>1. \A d \in Call : d # c => (d \in Piped' <=> d \in Piped)
    <3>1. \A d \in Call : d # c => Untouched(d)
      BY <1>2, OtherStep
    <3> QED
      BY <3>1 DEF Untouched, Piped, Done
  <2>2. c \in Piped' => c \in Piped \/ Cardinality(Piped) < Slots
    <3>1. CASE Flush(c)
      <4>1. queue[c] # <<>> /\ alive /\ stage' = stage
        BY <3>1 DEF Flush
      <4> QED
        BY <4>1 DEF Piped, Done, Spoken
    <3>2. CASE Settle(c)
      BY <3>2 DEF Settle, Piped, Done
    <3>3. CASE Recover(c)
      BY <3>3 DEF Recover, Piped, Done
    <3>4. CASE Ending(c)
      <4>1. stage'[c] = "freed" \/ c \in Piped
        BY <3>4 DEF Ending, Goes, TypeOK
      <4> QED
        BY <4>1 DEF Piped
    <3>5. CASE Going(c)
      BY <3>5 DEF Going
    <3> QED
      BY <1>2, <3>1, <3>2, <3>3, <3>4, <3>5, StepSorts
  <2>3. Piped' \subseteq Piped \cup {c}
    BY <2>1 DEF Piped
  <2>4. CASE c \in Piped \/ c \notin Piped'
    BY <1>1, <2>3, <2>4
  <2>5. CASE c \notin Piped /\ Cardinality(Piped) < Slots
    <3>1. IsFiniteSet(Piped \cup {c}) /\ Cardinality(Piped \cup {c}) = Cardinality(Piped) + 1
      BY <2>5, FS_AddElement DEF PlacesKept
    <3>2. IsFiniteSet(Piped') /\ Cardinality(Piped') <= Cardinality(Piped) + 1
      BY <2>3, <3>1, FS_Subset
    <3>3. Cardinality(Piped) \in Nat /\ Cardinality(Piped') \in Nat
      BY <3>2, FS_CardinalityType DEF PlacesKept
    <3> QED
      BY <1>0, <2>5, <3>2, <3>3 DEF PlacesKept
  <2> QED
    BY <2>2, <2>4, <2>5
<1>3. CASE Abort \/ NextTurn \/ (\E f \in File : Edit(f)) \/ UNCHANGED vars
  <2>1. stage' = stage /\ answer' = answer
    BY <1>3 DEF Abort, NextTurn, Edit, vars
  <2> QED
    BY <1>1, <2>1 DEF Piped, Done
<1>4. CASE Crash
  BY <1>1, <1>4 DEF Crash, Piped
<1> QED
  BY <1>2, <1>3, <1>4 DEF Next

LEMMA PlaceInvariance == Spec => []RInv
<1>1. Init => RInv
  <2> SUFFICES ASSUME Init PROVE RInv
    OBVIOUS
  <2>1. Piped = {}
    BY DEF Init, Piped
  <2>2. PlacesKept
    BY <2>1, FS_EmptySet, BoundAssumption DEF PlacesKept
  <2>3. \A c \in Call : Spoken(c)
    BY DEF Init, Spoken, Over
  <2> QED
    BY <2>2, <2>3, InitInv DEF RInv
<1>2. RInv /\ [Next]_vars => RInv'
  <2> SUFFICES ASSUME RInv, [Next]_vars PROVE RInv'
    OBVIOUS
  <2>1. IInv' /\ PlacesKept'
    BY StepInv, PlacesKeep DEF RInv
  <2>2. (\A c \in Call : Spoken(c))'
    BY SpokenKeeps DEF RInv
  <2> QED
    BY <2>1, <2>2 DEF RInv
<1> QED
  BY <1>1, <1>2, PTL DEF Spec

\* The calls that wait for the scheduler of the resources, or were started by
\* it, have places in the pipeline: its queue of maxConcurrentTools never
\* refuses one.
THEOREM PipelineBounded == Spec => []PipelineBound
<1>1. RInv => PipelineBound
  BY DEF RInv, PlacesKept, PipelineBound, AtResources, Holders, Piped, Over, Done
<1> QED
  BY <1>1, PlaceInvariance, PTL

\* Whatever else happens to the call, its result stands and nothing follows it.
THEOREM ResultIsLastWord == Spec => LastWord
<1>1. RInv /\ [Next]_vars
      => [\A c \in Call : answer[c] # "none"
                          => answer'[c] = answer[c] /\ fact'[c] = fact[c]]_vars
  <2> SUFFICES ASSUME RInv, Next, NEW c \in Call, answer[c] # "none"
               PROVE  answer'[c] = answer[c] /\ fact'[c] = fact[c]
    OBVIOUS
  <2> USE DEF RInv, IInv
  <2>1. ASSUME CallStep(c)
        PROVE  answer'[c] = answer[c] /\ fact'[c] = fact[c]
    <3>1. ~ Flush(c)
      BY DEF Flush, Spoken, EndsWithAnswer
    <3>2. ~ Recover(c)
      BY DEF Recover
    <3> QED
      BY <2>1, <3>1, <3>2, StepSorts DEF Settle, Ending, Going
  <2>2. ASSUME NEW d \in Call, d # c, CallStep(d)
        PROVE  answer'[c] = answer[c] /\ fact'[c] = fact[c]
    BY <2>2, OtherStep DEF Untouched
  <2>3. CASE Abort \/ NextTurn \/ Crash \/ \E f \in File : Edit(f)
    BY <2>3 DEF Abort, NextTurn, Crash, Edit
  <2> QED
    BY <2>1, <2>2, <2>3 DEF Next
<1> QED
  BY <1>1, PlaceInvariance, PTL DEF Spec, LastWord

-----------------------------------------------------------------------------
(* The calls keep the scheduler to its contract.                           *)

\* A call that waits finds a free slot: every other place is at most a holder's.
LEMMA SlotForWaiting ==
  ASSUME RInv, NEW c \in Call, stage[c] = "waiting"
  PROVE  Cardinality(Holders) < Slots /\ c \notin Holders
<1>1. Holders \cup {c} \subseteq Piped /\ c \notin Holders /\ c \in Piped
  BY DEF Holders, Piped, Done, Over
<1>2. IsFiniteSet(Piped) /\ Cardinality(Piped) <= Slots
  BY DEF RInv, PlacesKept
<1>3. IsFiniteSet(Holders) /\ IsFiniteSet(Holders \cup {c})
      /\ Cardinality(Holders \cup {c}) <= Cardinality(Piped)
  BY <1>1, <1>2, FS_Subset
<1>4. Cardinality(Holders \cup {c}) = Cardinality(Holders) + 1
  BY <1>1, <1>3, FS_AddElement
<1>5. Cardinality(Holders) \in Nat /\ Cardinality(Piped) \in Nat /\ Slots \in Nat
  BY <1>2, <1>3, FS_CardinalityType, BoundAssumption
<1> QED
  BY <1>1, <1>2, <1>3, <1>4, <1>5

LEMMA ContractOfStart ==
  ASSUME RInv, NEW c \in Call, alive, ~ aborted, stage[c] = "waiting"
  PROVE  MayStart(c) <=> Resources!MayRun(c)
<1>1. Cardinality(Holders) < Slots /\ c \notin Holders
  BY SlotForWaiting
<1>2. Resources!Cardinality(Holders) = Cardinality(Holders)
  BY DEF Cardinality, Resources!Cardinality
<1>3. ASSUME NEW d \in Holders
      PROVE  Resources!Compatible(c, d) <=> ~ Conflict(kind[c], kind[d])
  <2>1. d \in Call
    BY DEF Holders
  <2>2. Conflict(kind[d], kind[c]) <=> Conflict(kind[c], kind[d])
    BY ConflictIsMutual
  <2> QED
    BY <2>1, <2>2 DEF Resources!Compatible
<1> QED
  BY <1>1, <1>2, <1>3 DEF MayStart, Resources!MayRun

\* MayStart says nothing of slots: there is always one.
THEOREM StartIsContracts == Spec => []StartsByContract
<1>1. RInv => StartsByContract
  BY ContractOfStart DEF StartsByContract
<1> QED
  BY <1>1, PlaceInvariance, PTL

LEMMA ResourcesStep ==
  ASSUME RInv, [Next]_vars
  PROVE  [Resources!ContractNext]_(Resources!contractVars)
<1> USE DEF Resources!contractVars
<1>1. ASSUME NEW c \in Call, CallStep(c)
      PROVE  [Resources!ContractNext]_(Resources!contractVars)
  <2>1. kind' = kind
    BY <1>1 DEF CallStep, Advance, Run, Flush, Receive, Admit, Begin, Judge, PrepareFails,
       PrepareHangs, OpenGate, Approve, Refuse, Start, StartStale, HookBlocks, Save, Launch,
       Saved, Commit, Succeed, Fail, Stop, Quarantine, TimeOut, Ends, Settle, Wrap,
       CutShort, Recover
  <2>2. \A d \in Call : d # c => (d \in Holders' <=> d \in Holders)
    <3>1. \A d \in Call : d # c => Untouched(d)
      BY <1>1, OtherStep DEF RInv, IInv
    <3> QED
      BY <3>1 DEF Untouched, Holders
  <2>3. c \in Holders' => c \in Holders \/ MayStart(c)
    BY <1>1, HoldersComeFromStart DEF RInv, IInv
  <2>4. Holders \subseteq Call /\ Holders' \subseteq Call
    BY DEF Holders
  <2>5. CASE c \in Holders' /\ c \notin Holders
    <3>1. MayStart(c) /\ Holders' = Holders \cup {c}
      BY <2>2, <2>3, <2>4, <2>5
    <3>2. Resources!MayRun(c)
      BY <3>1, ContractOfStart DEF MayStart
    <3> QED
      BY <2>1, <3>1, <3>2 DEF Resources!ContractNext, Resources!Take
  <2>6. CASE c \in Holders /\ c \notin Holders'
    <3>1. Holders' = Holders \ {c}
      BY <2>2, <2>4, <2>6
    <3> QED
      BY <2>1, <2>6, <3>1 DEF Resources!ContractNext, Resources!Give
  <2>7. CASE c \in Holders <=> c \in Holders'
    <3>1. Holders' = Holders
      BY <2>2, <2>4, <2>7
    <3> QED
      BY <2>1, <3>1
  <2> QED
    BY <2>5, <2>6, <2>7
<1>2. CASE Abort \/ NextTurn \/ (\E f \in File : Edit(f)) \/ UNCHANGED vars
  <2>1. kind' = kind /\ stage' = stage
    BY <1>2 DEF Abort, NextTurn, Edit, vars
  <2> QED
    BY <2>1 DEF Holders
<1>3. CASE Crash
  <2>1. kind' = kind /\ Holders' = {}
    BY <1>3 DEF Crash, Holders
  <2> QED
    BY <2>1 DEF Resources!ContractNext, Resources!Drop
<1> QED
  BY <1>1, <1>2, <1>3 DEF Next

\* The pipeline of the calls, with its aborts, hooks and snapshots, uses the
\* resources as the scheduler's contract has it, which ToolScheduler implements.
THEOREM PipelineKeepsContract == Spec => ImplementsContract
<1>1. Init => Resources!ContractInit
  BY DEF Init, Holders, Resources!ContractInit
<1>2. RInv /\ [Next]_vars => [Resources!ContractNext]_(Resources!contractVars)
  BY ResourcesStep
<1> QED
  BY <1>1, <1>2, PlaceInvariance, PTL DEF Spec, ImplementsContract, Resources!ContractSpec
=============================================================================
