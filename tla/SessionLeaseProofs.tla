------------------------- MODULE SessionLeaseProofs -------------------------
(***************************************************************************)
(* The session lease excludes, for any number of processes and attempts,   *)
(* until a reclaimer takes away the live lease that has replaced the one   *)
(* it judged; and no lock file is lost in any other way than that.         *)
(***************************************************************************)
EXTENDS SessionLease, TLAPS

\* whoever has passed the check after its creation owns the file at the path
OwnersOwn == robbed = {} => \A p \in Process : pc[p] \in Leased => owner = p

\* whoever reclaims has found the process of the lease it read dead
ReclaimsDead ==
    \A p \in Process :
        /\ pc[p] = "judge" => existing[p] \in Process
        /\ pc[p] \in {"retire", "rename"} => existing[p] \in Process /\ ~Alive(existing[p])

\* whoever is to unlink has its own file at the path or was robbed of it
UnlinksOwn == \A p \in Process : pc[p] = "unlink" => owner = p \/ <<p, "unlink">> \in robbed

IInv == OwnersOwn /\ ReclaimsDead /\ UnlinksOwn

(* Every step keeps the types.                                             *)
LEMMA Typing == TypeOK /\ [Next]_vars => TypeOK'
<1> SUFFICES ASSUME TypeOK, [Next]_vars PROVE TypeOK'
  OBVIOUS
<1> USE LeaseAssumption DEF TypeOK, Goto, At, Readable
<1>1. CASE UNCHANGED vars
  BY <1>1 DEF vars
<1>2. ASSUME NEW p \in Process, Acquire(p) PROVE TypeOK'
  <2>1. pc' \in [Process -> Place]
    BY <1>2 DEF Acquire, Place
  <2>2. attempt' \in [Process -> 0 .. MaxAttempts]
    BY <1>2 DEF Acquire
  <2> QED BY <1>2, <2>1, <2>2 DEF Acquire
<1>3. ASSUME NEW p \in Process, Create(p) PROVE TypeOK'
  <2>1. pc' \in [Process -> Place]
    BY <1>3 DEF Create, Place
  <2>2. attempt' \in [Process -> 0 .. MaxAttempts]
    BY <1>3 DEF Create
  <2> QED BY <1>3, <2>1, <2>2 DEF Create
<1>4. ASSUME NEW p \in Process, Write(p) PROVE TypeOK'
  <2>1. pc' \in [Process -> Place]
    BY <1>4 DEF Write, Place
  <2>2. attempt' \in [Process -> 0 .. MaxAttempts]
    BY <1>4 DEF Write
  <2> QED BY <1>4, <2>1, <2>2 DEF Write
<1>5. ASSUME NEW p \in Process, Verify(p) PROVE TypeOK'
  <2>1. pc' \in [Process -> Place]
    BY <1>5 DEF Verify, Place
  <2>2. attempt' \in [Process -> 0 .. MaxAttempts]
    BY <1>5 DEF Verify
  <2> QED BY <1>5, <2>1, <2>2 DEF Verify
<1>6. ASSUME NEW p \in Process, ReadLease(p) PROVE TypeOK'
  <2>1. pc' \in [Process -> Place]
    BY <1>6 DEF ReadLease, Place
  <2>2. attempt' \in [Process -> 0 .. MaxAttempts]
    BY <1>6 DEF ReadLease
  <2> QED BY <1>6, <2>1, <2>2 DEF ReadLease
<1>6a. ASSUME NEW p \in Process, Judge(p) PROVE TypeOK'
  <2>1. pc' \in [Process -> Place]
    BY <1>6a DEF Judge, Place
  <2>2. attempt' \in [Process -> 0 .. MaxAttempts]
    BY <1>6a DEF Judge
  <2> QED BY <1>6a, <2>1, <2>2 DEF Judge
<1>7. ASSUME NEW p \in Process, Retire(p) PROVE TypeOK'
  <2>1. pc' \in [Process -> Place]
    BY <1>7 DEF Retire, Place
  <2>2. attempt' \in [Process -> 0 .. MaxAttempts]
    BY <1>7 DEF Retire
  <2> QED BY <1>7, <2>1, <2>2 DEF Retire
<1>8. ASSUME NEW p \in Process, Rename(p) PROVE TypeOK'
  <2>1. pc' \in [Process -> Place]
    BY <1>8 DEF Rename, Place
  <2>2. attempt' \in [Process -> 0 .. MaxAttempts]
    BY <1>8 DEF Rename, Lost
  <2>3. robbed' \subseteq Process \X Leased
    BY <1>8 DEF Rename, Lost
  <2> QED BY <1>8, <2>1, <2>2, <2>3 DEF Rename
<1>9. ASSUME NEW p \in Process, Release(p) PROVE TypeOK'
  <2>1. pc' \in [Process -> Place]
    BY <1>9 DEF Release, Place
  <2>2. attempt' \in [Process -> 0 .. MaxAttempts]
    BY <1>9 DEF Release
  <2> QED BY <1>9, <2>1, <2>2 DEF Release
<1>10. ASSUME NEW p \in Process, Unlink(p) PROVE TypeOK'
  <2>1. pc' \in [Process -> Place]
    BY <1>10 DEF Unlink, Place
  <2>2. attempt' \in [Process -> 0 .. MaxAttempts]
    BY <1>10 DEF Unlink, Lost
  <2>3. robbed' \subseteq Process \X Leased
    BY <1>10 DEF Unlink, Lost
  <2> QED BY <1>10, <2>1, <2>2, <2>3 DEF Unlink
<1>11. ASSUME NEW p \in Process, Crash(p) PROVE TypeOK'
  <2>1. pc' \in [Process -> Place]
    BY <1>11 DEF Crash, Place
  <2>2. attempt' \in [Process -> 0 .. MaxAttempts]
    BY <1>11 DEF Crash
  <2> QED BY <1>11, <2>1, <2>2 DEF Crash
<1> QED
  BY <1>1, <1>2, <1>3, <1>4, <1>5, <1>6, <1>7, <1>8, <1>9, <1>10, <1>11, <1>6a DEF Next, AllDead

(* Every step keeps the inductive invariant.                               *)
LEMMA Step == TypeOK /\ IInv /\ [Next]_vars => IInv'
<1> SUFFICES ASSUME TypeOK, IInv, [Next]_vars PROVE IInv'
  OBVIOUS
<1> USE LeaseAssumption DEF TypeOK, IInv, OwnersOwn, ReclaimsDead, UnlinksOwn, Readable, Leased, Alive, Goto, At
<1>1. CASE UNCHANGED vars
  BY <1>1 DEF vars
<1>2. ASSUME NEW p \in Process, Acquire(p) PROVE IInv'
  BY <1>2 DEF Acquire
<1>3. ASSUME NEW p \in Process, Create(p) PROVE IInv'
  BY <1>3 DEF Create
<1>4. ASSUME NEW p \in Process, Write(p) PROVE IInv'
  BY <1>4 DEF Write
<1>5. ASSUME NEW p \in Process, Verify(p) PROVE IInv'
  BY <1>5 DEF Verify
<1>6. ASSUME NEW p \in Process, ReadLease(p) PROVE IInv'
  BY <1>6 DEF ReadLease
<1>6a. ASSUME NEW p \in Process, Judge(p) PROVE IInv'
  BY <1>6a DEF Judge
<1>7. ASSUME NEW p \in Process, Retire(p) PROVE IInv'
  BY <1>7 DEF Retire
<1>8. ASSUME NEW p \in Process, Rename(p) PROVE IInv'
  <2>1. ReclaimsDead'
    BY <1>8 DEF Rename
  <2>2. robbed \subseteq robbed' /\ robbed' = robbed \cup Lost(existing[p])
    BY <1>8 DEF Rename
  <2>3. \A q \in Process : pc'[q] \in Leased => pc[q] \in Leased /\ pc'[q] = pc[q] /\ q # p
    BY <1>8 DEF Rename
  <2>4. ASSUME NEW q \in Process, owner = q, pc'[q] \in Leased
        PROVE  <<q, pc'[q]>> \in robbed'
    <3>1. q # p /\ q # existing[p]
      BY <1>8, <2>3, <2>4 DEF Rename
    <3>2. Lost(existing[p]) = {<<q, pc[q]>>}
      BY <2>3, <2>4, <3>1 DEF Lost
    <3> QED BY <2>2, <2>3, <2>4, <3>2
  <2>5. OwnersOwn'
    <3> SUFFICES ASSUME robbed' = {}, NEW q \in Process, pc'[q] \in Leased
                 PROVE  FALSE
      OBVIOUS
    <3>1. owner = q
      BY <2>2, <2>3
    <3> QED BY <2>4, <3>1
  <2>6. UnlinksOwn'
    <3> SUFFICES ASSUME NEW q \in Process, pc'[q] = "unlink"
                 PROVE  <<q, "unlink">> \in robbed'
      OBVIOUS
    <3>1. owner = q \/ <<q, "unlink">> \in robbed
      BY <2>3
    <3> QED BY <2>2, <2>4, <3>1
  <2> QED BY <2>1, <2>5, <2>6
<1>9. ASSUME NEW p \in Process, Release(p) PROVE IInv'
  BY <1>9 DEF Release
<1>10. ASSUME NEW p \in Process, Unlink(p) PROVE IInv'
  <2>1. ReclaimsDead'
    BY <1>10 DEF Unlink
  <2>2. robbed \subseteq robbed' /\ robbed' = robbed \cup Lost(p)
    BY <1>10 DEF Unlink
  <2>3. \A q \in Process : pc'[q] \in Leased => pc[q] \in Leased /\ pc'[q] = pc[q] /\ q # p
    BY <1>10 DEF Unlink
  <2>4. ASSUME NEW q \in Process, owner = q, pc'[q] \in Leased
        PROVE  <<q, pc'[q]>> \in robbed'
    <3>1. q # p /\ q # p
      BY <1>10, <2>3, <2>4 DEF Unlink
    <3>2. Lost(p) = {<<q, pc[q]>>}
      BY <2>3, <2>4, <3>1 DEF Lost
    <3> QED BY <2>2, <2>3, <2>4, <3>2
  <2>5. OwnersOwn'
    <3> SUFFICES ASSUME robbed' = {}, NEW q \in Process, pc'[q] \in Leased
                 PROVE  FALSE
      OBVIOUS
    <3>1. owner = q
      BY <2>2, <2>3
    <3> QED BY <2>4, <3>1
  <2>6. UnlinksOwn'
    <3> SUFFICES ASSUME NEW q \in Process, pc'[q] = "unlink"
                 PROVE  <<q, "unlink">> \in robbed'
      OBVIOUS
    <3>1. owner = q \/ <<q, "unlink">> \in robbed
      BY <2>3
    <3> QED BY <2>2, <2>4, <3>1
  <2> QED BY <2>1, <2>5, <2>6
<1>11. ASSUME NEW p \in Process, Crash(p) PROVE IInv'
  BY <1>11 DEF Crash
<1> QED
  BY <1>1, <1>2, <1>3, <1>4, <1>5, <1>6, <1>7, <1>8, <1>9, <1>10, <1>11, <1>6a DEF Next, AllDead

LEMMA Initially == Init => TypeOK /\ IInv
<1> SUFFICES ASSUME Init PROVE TypeOK /\ IInv
  OBVIOUS
<1>1. attempt \in [Process -> 0 .. MaxAttempts]
  BY LeaseAssumption DEF Init
<1>2. /\ pc \in [Process -> Place]
      /\ noted \in [Process -> Process \cup {NoProcess}]
      /\ existing \in [Process -> Process \cup {NoProcess}]
  BY DEF Init, Place
<1>3. IInv
  BY DEF Init, IInv, OwnersOwn, ReclaimsDead, UnlinksOwn, Leased
<1> QED BY <1>1, <1>2, <1>3 DEF Init, TypeOK

(* SessionLease!TypeOK, whoever reclaims when.                             *)
THEOREM TypeCorrect == Spec => []TypeOK
BY Initially, Typing, PTL DEF Spec

LEMMA Invariance == Spec => [](TypeOK /\ IInv)
<1>1. TypeOK /\ IInv /\ [Next]_vars => TypeOK' /\ IInv'
  BY Typing, Step
<1> QED BY <1>1, Initially, PTL DEF Spec

(* SessionLease!OneHolder: one runtime writes the session, until a         *)
(* reclaimer robs the holder.                                              *)
THEOREM Exclusion == Spec => [](robbed = {} => OneHolder)
<1>1. IInv => (robbed = {} => OneHolder)
  BY DEF IInv, OwnersOwn, OneHolder, At, Leased
<1> QED BY <1>1, Invariance, PTL

(* SessionLease!OnlyOwnOrDeadRemoved: how a lock file can leave the path.  *)
THEOREM NoStrayRemoval == Spec => OnlyOwnOrDeadRemoved
<1> DEFINE Accounted ==
        owner # NoProcess /\ owner' # owner =>
          \/ At(owner, "unlink")
          \/ ~Alive(owner)
          \/ \E p \in Process : At(p, "rename") /\ pc'[p] # "rename" /\ owner # existing[p]
          \/ \E p \in Process : At(p, "unlink") /\ <<p, "unlink">> \in robbed
<1>1. TypeOK /\ IInv /\ [Next]_vars => [Accounted]_vars
  <2> SUFFICES ASSUME TypeOK, IInv, [Next]_vars, owner # NoProcess, owner' # owner
               PROVE  Accounted
    OBVIOUS
  <2>1. PICK p \in Process : Create(p) \/ Rename(p) \/ Unlink(p)
    BY DEF Next, AllDead, vars, Acquire, Write, Verify, ReadLease, Judge, Retire, Release, Crash
  <2>2. CASE Create(p)
    BY <2>2 DEF Create
  <2>3. CASE Rename(p)
    <3>1. pc'[p] # "rename"
      BY <2>3 DEF Rename, TypeOK, Goto
    <3> QED BY <2>3, <3>1 DEF Rename, IInv, ReclaimsDead, At
  <2>4. CASE Unlink(p)
    BY <2>4 DEF Unlink, IInv, UnlinksOwn, At
  <2> QED BY <2>1, <2>2, <2>3, <2>4
<1> QED BY <1>1, Invariance, PTL DEF Spec, OnlyOwnOrDeadRemoved

-----------------------------------------------------------------------------
(* SessionLease implements SingleWriter until the first robbery, which is  *)
(* the moment the robbed holder leaves: a successful verification is how a *)
(* process goes to work, release and crash are how it leaves.              *)
LEMMA WorkStep ==
    ASSUME TypeOK, OwnersOwn, robbed = {}, NEW p \in Process, Verify(p)
    PROVE  [Session!WriterNext]_(Session!writerVars)
<1>0. Unrobbed = Holders /\ Unrobbed' = Holders'
  BY DEF Unrobbed, Verify
<1>1. CASE owner = p
  <2>1. Holders \subseteq {p}
    BY <1>1 DEF OwnersOwn, Holders, At, Leased
  <2>2. Holders' = {p}
    BY <1>1, <2>1 DEF TypeOK, Verify, Holders, At, Goto
  <2> QED BY <1>0, <2>1, <2>2 DEF Session!WriterNext, Session!Work
<1>2. CASE owner # p
  <2>1. Holders' = Holders
    BY <1>2 DEF TypeOK, Verify, Holders, At, Goto
  <2> QED BY <1>0, <2>1 DEF Session!writerVars
<1> QED BY <1>1, <1>2

LEMMA LeaveStep ==
    ASSUME TypeOK, OwnersOwn, robbed = {}, UNCHANGED robbed,
           NEW p \in Process, pc[p] = "held",
           NEW place \in Place \ {"held"}, Goto(p, place)
    PROVE  Session!WriterNext
<1>1. Holders = {p}
  BY DEF OwnersOwn, Holders, At, Leased
<1>2. Holders' = {}
  BY <1>1 DEF TypeOK, Holders, At, Goto
<1> QED BY <1>1, <1>2 DEF Session!WriterNext, Session!Leave, Unrobbed

\* a process that neither has the lease nor gets it changes nothing, unless
\* it robs the holder
LEMMA OutsideStep ==
    ASSUME TypeOK, OwnersOwn, robbed = {}, NEW p \in Process, pc[p] # "held",
           NEW place \in Place \ {"held"}, Goto(p, place)
    PROVE  [Session!WriterNext]_(Session!writerVars)
<1>1. Holders' = Holders
  BY DEF TypeOK, Holders, At, Goto
<1>2. Unrobbed = Holders
  BY DEF Unrobbed
<1>3. CASE robbed' = {}
  BY <1>1, <1>2, <1>3 DEF Unrobbed, Session!writerVars
<1>4. CASE robbed' # {}
  <2>1. Unrobbed' = {}
    BY <1>4 DEF Unrobbed
  <2>2. CASE Holders = {}
    BY <1>2, <2>1, <2>2 DEF Session!writerVars
  <2>3. CASE Holders # {}
    <3>1. PICK q \in Process : pc[q] = "held"
      BY <2>3 DEF Holders, At
    <3>2. Holders = {q}
      BY <3>1 DEF OwnersOwn, Holders, At, Leased
    <3> QED BY <1>2, <2>1, <3>2 DEF Session!WriterNext, Session!Leave
  <2> QED BY <2>2, <2>3
<1> QED BY <1>3, <1>4

LEMMA StepImplements ==
    ASSUME TypeOK, IInv, [Next]_vars
    PROVE  [Session!WriterNext]_(Session!writerVars)
<1> USE DEF IInv, Place, At
<1>1. CASE AllDead \/ UNCHANGED vars
  <2>1. Unrobbed' = Unrobbed
    BY <1>1 DEF AllDead, vars, Holders, Unrobbed
  <2> QED BY <2>1 DEF Session!writerVars
<1>2. CASE robbed # {} /\ Next
  <2>1. robbed \subseteq robbed'
    BY <1>2 DEF Next, AllDead, vars, Acquire, Create, Write, Verify, ReadLease, Judge, Retire,
                Rename, Release, Unlink, Crash
  <2>2. Unrobbed' = Unrobbed
    BY <1>2, <2>1 DEF Unrobbed
  <2> QED BY <2>2 DEF Session!writerVars
<1>3. CASE robbed = {} /\ Next
  <2>1. ASSUME NEW p \in Process, Verify(p)
        PROVE  [Session!WriterNext]_(Session!writerVars)
    BY <1>3, <2>1, WorkStep
  <2>2. ASSUME NEW p \in Process, Release(p)
        PROVE  [Session!WriterNext]_(Session!writerVars)
    BY <1>3, <2>2, LeaveStep DEF Release
  <2>3. ASSUME NEW p \in Process, Crash(p)
        PROVE  [Session!WriterNext]_(Session!writerVars)
    BY <1>3, <2>3, LeaveStep, OutsideStep DEF Crash
  <2>4. ASSUME NEW p \in Process,
               \/ Acquire(p) \/ Create(p) \/ Write(p) \/ ReadLease(p) \/ Judge(p)
               \/ Retire(p) \/ Rename(p) \/ Unlink(p)
        PROVE  [Session!WriterNext]_(Session!writerVars)
    BY <1>3, <2>4, OutsideStep
       DEF Acquire, Create, Write, ReadLease, Judge, Retire, Rename, Unlink
  <2> QED BY <1>1, <1>3, <2>1, <2>2, <2>3, <2>4 DEF Next
<1> QED BY <1>1, <1>2, <1>3

(* SessionLease!ImplementsSingleWriter: the lock file passes the session   *)
(* from one runtime to the next, for any number of processes, as long as   *)
(* no reclaimer has robbed a holder.                                       *)
THEOREM Refinement == Spec => ImplementsSingleWriter
<1>1. Init => Session!WriterInit
  BY DEF Init, Session!WriterInit, Unrobbed, Holders, At
<1> QED
  BY <1>1, Invariance, StepImplements, PTL DEF Spec, ImplementsSingleWriter, Session!WriterSpec
=============================================================================
