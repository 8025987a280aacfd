-------------------------- MODULE HostClientProofs --------------------------
(***************************************************************************)
(* What a client may rely on, for any number of runs, reconnects, sockets, *)
(* Hosts and kept events: completions are resolved with what the authority *)
(* holds, and within a connection no event is passed over in silence.      *)
(***************************************************************************)
EXTENDS HostClient, SequenceTheorems, FiniteSetTheorems, TLAPS

USE DEF hostVars, wireVars, linkVars, knownVars, attemptVars, clientVars

(***************************************************************************)
(* Completions: a run is open while it executes, and whatever is on its    *)
(* way to the client about its end is what the row says.                   *)
(***************************************************************************)
RowsFollow ==
  \A r \in Run : /\ phase[r] \in {"admitted", "going"} => row[r] = "open"
                 /\ phase[r] \in {"ended", "announced"} => row[r] \in Outcome
                 /\ row[r] = "none" => phase[r] = "none"

\* The answer that an attempt has is of the kind that its stage waits for.
AnswersKept ==
  \A a \in Attempt : /\ stage[a] = "answered" => got[a] \in Answer /\ got[a].kind = "snapshot"
                     /\ stage[a] = "inspected" => got[a] \in Answer /\ got[a].kind = "row"

TypeInv == TypeOK /\ RowsFollow /\ AnswersKept

Elements(q) == {q[i] : i \in 1 .. Len(q)}

\* What a frame, if it names the end of a run, says of it.
TellsTruth(f, rows) ==
  /\ f.kind = "completion" => rows[f.run] = f.outcome
  /\ (f.kind = "row" /\ f.row \in Outcome) => rows[f.run] = f.row

FramesTrue ==
  /\ \A f \in Elements(toClient) \cup Elements(answers) : TellsTruth(f, row)
  /\ \A a \in Attempt : got[a] # NoFrame => TellsTruth(got[a], row)

TruthInv == TypeInv /\ FramesTrue /\ OutcomeTrue

(***************************************************************************)
(* Events: above base, the last event that the Host found in the journal,  *)
(* the history is dense, nobody asks from below it, and what the client    *)
(* has been told, or will be by the frames on their way, leaves no hole.   *)
(***************************************************************************)
HistoryDense(base) ==
  /\ base <= sequence
  /\ \A i \in 1 .. Len(history) :
        IF i <= Len(history) - (sequence - base) THEN history[i].seq <= base
        ELSE history[i].seq = sequence - Len(history) + i

Numbers(f) == f.kind \in {"event", "gap", "welcome"}

\* A client that has handled the events up to h is told of all up to n
\* by the frames of q before the given place, or at all.
CoversBefore(q, h, n, place) ==
  \/ n <= h
  \/ \E j \in 1 .. Len(q) : j < place /\ Numbers(q[j]) /\ q[j].seq >= n

Covers(q, h, n) == n <= h \/ \E j \in 1 .. Len(q) : Numbers(q[j]) /\ q[j].seq >= n

\* The frames of q leave no hole, when the Host is at top.
Dense(q, h, top) ==
  \A i \in 1 .. Len(q) :
     /\ q[i].kind = "event" => CoversBefore(q, h, q[i].seq - 1, i)
     /\ Numbers(q[i]) => q[i].seq <= top
     /\ q[i].kind = "gap" => /\ q[i].seq >= h
                             /\ \A j \in 1 .. i - 1 : Numbers(q[j]) => q[j].seq <= q[i].seq

FramesDense == Dense(toClient, heard, sequence)

\* Numbers that the client may yet ask from, or believe to be at.
AsksFromTold ==
  /\ subscribed => Covers(toClient, heard, sequence)
  /\ link = "ready" => Covers(toClient, heard, known)
  /\ \A q \in Elements(toHost) \cup Elements(queryLane) :
        q.op = "subscribe" => Covers(toClient, heard, q.after)
  /\ \A q \in Elements(outbox) : q.op \in {"submit", "inspect"}
  /\ \A f \in Elements(answers) \cup Elements(toClient) :
        f.kind = "snapshot" => Covers(toClient, heard, f.seq)
  /\ \A a \in Attempt : stage[a] = "answered" => Covers(toClient, heard, got[a].seq)

\* Before the hello is answered nothing else is under way.
Greets ==
  /\ heard <= sequence
  /\ link # "ready" => /\ heard = 0 /\ ~ subscribed
                       /\ queryLane = <<>> /\ answers = <<>>
                       /\ \A x \in Elements(runLane) : ~ x.live
  /\ link = "down" => toHost = <<>> /\ toClient = <<>> /\ outbox = <<>>
  /\ link = "opening" =>
       \/ toHost = <<[op |-> "hello"]>> /\ toClient = <<>>
       \/ toHost = <<>> /\ Len(toClient) = 1 /\ toClient[1].kind = "welcome"
  /\ link = "ready" => /\ \A q \in Elements(toHost) : q.op # "hello"
                       /\ \A f \in Elements(toClient) : f.kind # "welcome"

\* Whatever the client may believe to be at is not below base.
AsksAbove(base) ==
  /\ link = "ready" => known >= base
  /\ \A q \in Elements(toHost) \cup Elements(queryLane) : q.op = "subscribe" => q.after >= base
  /\ \A f \in Elements(answers) \cup Elements(toClient) :
        (Numbers(f) \/ f.kind = "snapshot") => f.seq >= base
  /\ \A a \in Attempt : stage[a] = "answered" => got[a].seq >= base

HoleInv(base) == /\ TypeInv /\ HistoryDense(base) /\ FramesDense /\ AsksFromTold /\ Greets
                 /\ AsksAbove(base)

-----------------------------------------------------------------------------
(* Sequences. *)

LEMMA Appended ==
  ASSUME NEW S, NEW s \in Seq(S), NEW x \in S
  PROVE  /\ Append(s, x) \in Seq(S) /\ Len(Append(s, x)) = Len(s) + 1
         /\ \A i \in 1 .. Len(s) : Append(s, x)[i] = s[i]
         /\ Append(s, x)[Len(s) + 1] = x
BY AppendProperties

LEMMA Rest ==
  ASSUME NEW S, NEW s \in Seq(S), s # <<>>
  PROVE  /\ Tail(s) \in Seq(S) /\ Head(s) \in S /\ Head(s) = s[1]
         /\ Len(s) >= 1 /\ Len(Tail(s)) = Len(s) - 1
         /\ \A i \in 1 .. Len(s) - 1 : Tail(s)[i] = s[i + 1]
BY HeadTailProperties

-----------------------------------------------------------------------------
(* Type correctness. *)

Items == [seq : Nat, view : Shown]

\* What is found in the journal are events, none after the given one.
LEMMA RestoredTyped ==
  ASSUME history \in Seq(Items), NEW last \in Nat, NEW found \in Restored(last)
  PROVE  /\ found \in Seq(Items)
         /\ \A i \in 1 .. Len(found) : found[i].seq <= last
<1>1. PICK n \in 0 .. Len(history) :
        \E place \in [1 .. n -> {k \in 1 .. Len(history) : history[k].seq <= last}] :
           found = [i \in 1 .. n |-> history[place[i]]]
  BY DEF Restored
<1>2. PICK place \in [1 .. n -> {k \in 1 .. Len(history) : history[k].seq <= last}] :
        found = [i \in 1 .. n |-> history[place[i]]]
  BY <1>1
<1>3. n \in Nat
  BY <1>1
<1>4. ASSUME NEW i \in 1 .. n PROVE found[i] \in Items /\ found[i].seq <= last
  <2>1. place[i] \in 1 .. Len(history) /\ history[place[i]].seq <= last
    BY <1>2
  <2> QED
    BY <1>2, <2>1, ElementOfSeq
<1>5. found \in [1 .. n -> Items]
  BY <1>2, <1>4
<1>6. found \in Seq(Items) /\ Len(found) = n
  BY <1>3, <1>5
<1> QED
  BY <1>4, <1>6

LEMMA PublishTyped ==
  ASSUME TypeOK, NEW shown \in Shown, Publish(shown)
  PROVE  /\ sequence' \in Nat /\ active' \in Shown
         /\ history' \in Seq(Items) /\ toClient' \in Seq(Frame)
<1> DEFINE item == [seq |-> sequence + 1, view |-> shown]
           frame == [kind |-> "event", seq |-> sequence + 1, view |-> shown]
<1>1. item \in Items /\ frame \in Frame
  BY DEF TypeOK, Items, Frame
<1>2. Append(history, item) \in Seq(Items)
  BY <1>1, Appended DEF TypeOK, Items
<1> DEFINE longer == Append(history, item)
<1>3. Newest(longer) \in Seq(Items)
  <2> HIDE DEF longer
  <2>1. CASE Len(longer) > HistoryLimit
    <3>1. Len(longer) \in Nat /\ Len(longer) - HistoryLimit + 1 \in 1 .. Len(longer) + 1
      BY <1>2, <2>1, BoundAssumption DEF longer
    <3>2. SubSeq(longer, Len(longer) - HistoryLimit + 1, Len(longer)) \in Seq(Items)
      BY <1>2, <3>1, SubSeqProperties DEF longer
    <3> QED
      BY <2>1, <3>2 DEF Newest
  <2> QED
    BY <1>2, <2>1 DEF Newest, longer
<1>4. toClient' \in Seq(Frame)
  BY <1>1, Appended DEF TypeOK, Publish
<1> QED
  BY <1>3, <1>4 DEF TypeOK, Publish, Items

LEMMA MissedTyped ==
  ASSUME TypeOK, NEW after \in Nat
  PROVE  Missed(after) \in Seq(Frame)
<1> DEFINE old == {i \in 1 .. Len(history) : history[i].seq <= after}
           skip == Cardinality(old)
<1>1. Len(history) \in Nat
  BY DEF TypeOK
<1>2. IsFiniteSet(1 .. Len(history)) /\ Cardinality(1 .. Len(history)) = Len(history)
  <2>1. 1 \in Int /\ Len(history) \in Int
    BY <1>1
  <2>2. /\ IsFiniteSet(1 .. Len(history))
        /\ Cardinality(1 .. Len(history)) = IF 1 > Len(history) THEN 0 ELSE Len(history) - 1 + 1
    BY <2>1, FS_Interval
  <2> QED
    BY <1>1, <2>2
<1>3. IsFiniteSet(old) /\ skip \in Nat /\ skip <= Len(history)
  <2>1. old \subseteq 1 .. Len(history)
    OBVIOUS
  <2>2. IsFiniteSet(old) /\ Cardinality(old) <= Cardinality(1 .. Len(history))
    BY <1>2, <2>1, FS_Subset
  <2> QED
    BY <1>2, <2>2, FS_CardinalityType
<1> HIDE DEF skip
<1>4. ASSUME NEW i \in 1 .. Len(history) - skip
      PROVE  [kind |-> "event", seq |-> history[skip + i].seq, view |-> history[skip + i].view] \in Frame
  <2>1. skip + i \in 1 .. Len(history)
    BY <1>1, <1>3
  <2>2. history[skip + i] \in [seq : Nat, view : Shown]
    BY <2>1, ElementOfSeq DEF TypeOK
  <2> QED
    BY <2>2 DEF Frame
<1>5. Missed(after) = [i \in 1 .. Len(history) - skip |->
                         [kind |-> "event", seq |-> history[skip + i].seq,
                          view |-> history[skip + i].view]]
  BY DEF Missed, skip, old
<1>6. Len(history) - skip \in Nat
  BY <1>1, <1>3
<1> QED
  BY <1>4, <1>5, <1>6, IsASeq

LEMMA OpenTyped ==
  ASSUME TypeOK, OpenSocket
  PROVE  /\ toHost' \in Seq(Request) /\ toClient' \in Seq(Frame)
         /\ socket' \in Nat /\ link' \in {"down", "opening", "ready"}
<1>1. CASE link = "down"
  <2>1. <<>> \in Seq(Frame) /\ socket + 1 \in Nat /\ <<[op |-> "hello"]>> \in Seq(Request)
    BY DEF TypeOK, Request
  <2>2. /\ socket' = socket + 1 /\ link' = "opening" /\ toClient' = <<>>
        /\ toHost' = <<[op |-> "hello"]>>
    BY <1>1 DEF OpenSocket
  <2> QED
    BY <2>1, <2>2
<1>2. CASE link # "down"
  BY <1>2 DEF TypeOK, OpenSocket
<1> QED
  BY <1>1, <1>2

LEMMA AskTyped ==
  ASSUME TypeOK, NEW q \in Request, Ask(q)
  PROVE  /\ toHost' \in Seq(Request) /\ toClient' \in Seq(Frame)
         /\ socket' \in Nat /\ link' \in {"down", "opening", "ready"}
         /\ outbox' \in Seq(Request)
<1>1. Append(toHost, q) \in Seq(Request) /\ Append(outbox, q) \in Seq(Request)
  BY Appended DEF TypeOK
<1>2. CASE link = "ready"
  BY <1>1, <1>2 DEF TypeOK, Ask
<1>3. CASE link # "ready"
  BY <1>1, <1>3, OpenTyped DEF Ask
<1> QED
  BY <1>2, <1>3

LEMMA DisconnectedTyped ==
  ASSUME TypeInv, Disconnected
  PROVE  /\ toHost' \in Seq(Request) /\ toClient' \in Seq(Frame) /\ outbox' \in Seq(Request)
         /\ socket' \in Nat /\ link' \in {"down", "opening", "ready"} /\ timer' \in BOOLEAN
         /\ known' \in Nat /\ knownHost' \in Nat /\ view' \in Shown /\ heard' \in Nat
         /\ comp' \in [Run -> {"none", "waiting", "rejected"} \cup Outcome]
         /\ stage' \in [Attempt -> Stages] /\ before' \in [Attempt -> Nat]
         /\ left' \in [Attempt -> SUBSET Run] /\ got' \in [Attempt -> Answer \cup {NoFrame}]
         /\ AnswersKept'
<1>1. \A S : <<>> \in Seq(S)
  OBVIOUS
<1>2. stage' \in [Attempt -> Stages]
      /\ \A a \in Attempt : stage'[a] \in {"answered", "inspected"} => stage'[a] = stage[a]
  BY DEF Disconnected, TypeInv, TypeOK, Stages
<1>3. comp' \in [Run -> {"none", "waiting", "rejected"} \cup Outcome]
  BY DEF Disconnected, TypeInv, TypeOK
<1>4. AnswersKept'
  BY <1>2 DEF Disconnected, TypeInv, AnswersKept
<1> HIDE DEF NoFrame
<1> QED
  BY <1>1, <1>2, <1>3, <1>4 DEF Disconnected, TypeInv, TypeOK

LEMMA TypeInit == Init => TypeInv
<1> SUFFICES ASSUME Init PROVE TypeInv
  OBVIOUS
<1>1. TypeOK
  <2>1. \A S : <<>> \in Seq(S)
    OBVIOUS
  <2> HIDE DEF NoFrame
  <2> QED
    BY <2>1 DEF Init, TypeOK, Shown, Rows, Stages
<1> QED
  BY <1>1 DEF Init, TypeInv, RowsFollow, AnswersKept

LEMMA TypeStep ==
  ASSUME TypeInv, [Next]_vars
  PROVE  TypeInv'
<1> USE DEF TypeInv
<1>1. ASSUME NEW r \in Run, StartRun(r) PROVE TypeInv'
  <2>1. r \in Shown
    BY DEF Shown
  <2> QED
    BY <1>1, <2>1, PublishTyped DEF TypeOK, RowsFollow, AnswersKept, StartRun, Moves, Items
<1>2. ASSUME NEW r \in Run, Progress(r) PROVE TypeInv'
  <2>1. r \in Shown
    BY DEF Shown
  <2> QED
    BY <1>2, <2>1, PublishTyped DEF TypeOK, RowsFollow, AnswersKept, Progress, Items
<1>3. ASSUME NEW r \in Run, EndRun(r) PROVE TypeInv'
  <2>1. PICK o \in Outcome : row' = [row EXCEPT ![r] = o]
    BY <1>3 DEF EndRun
  <2>2. o # "none" /\ o \in Rows
    BY OutcomeAssumption DEF Rows
  <2> QED
    BY <1>3, <2>1, <2>2 DEF TypeOK, RowsFollow, AnswersKept, EndRun, Moves, Silent
<1>4. ASSUME NEW r \in Run, AnnounceEnd(r) PROVE TypeInv'
  <2>1. NoRun \in Shown
    BY DEF Shown
  <2> QED
    BY <1>4, <2>1, PublishTyped DEF TypeOK, RowsFollow, AnswersKept, AnnounceEnd, Moves, Items
<1>5. ASSUME NEW r \in Run, Broadcast(r) PROVE TypeInv'
  <2>1. row[r] \in Outcome
    BY <1>5 DEF RowsFollow, Broadcast, Moves
  <2>2. [kind |-> "completion", run |-> r, outcome |-> row[r]] \in Frame
    BY <2>1 DEF Frame
  <2>3. toClient' \in Seq(Frame)
    BY <1>5, <2>2, Appended DEF TypeOK, Broadcast
  <2> QED
    BY <1>5, <2>3 DEF TypeOK, RowsFollow, AnswersKept, Broadcast, Moves
<1>h. ASSUME NEW r \in Run, Hush(r) PROVE TypeInv'
  BY <1>h DEF TypeOK, RowsFollow, AnswersKept, Hush, Moves, Silent
<1>6. CASE Rebuild
  <2> DEFINE item == [seq |-> sequence + 1, view |-> NoRun]
             frame == [kind |-> "event", seq |-> sequence + 1, view |-> NoRun]
  <2>1. NoRun \in Shown /\ item \in [seq : Nat, view : Shown] /\ frame \in Frame
    BY DEF Shown, TypeOK, Frame
  <2>2. Append(toClient, frame) \in Seq(Frame)
    BY <2>1, Appended DEF TypeOK
  <2>3. toClient' \in Seq(Frame) /\ history' \in Seq([seq : Nat, view : Shown])
    BY <1>6, <2>1, <2>2 DEF Rebuild, TypeOK
  <2> QED
    BY <1>6, <2>1, <2>3 DEF TypeOK, RowsFollow, AnswersKept, Rebuild
<1>7. CASE HostReads
  <2> DEFINE q == Head(toHost)
  <2>1. toHost' \in Seq(Request) /\ q \in Request
    BY <1>7, Rest DEF TypeOK, HostReads
  <2> HIDE DEF q
  <2>2. toClient' \in Seq(Frame)
    <3>1. [kind |-> "welcome", seq |-> sequence, host |-> host] \in Frame
      BY DEF Frame, TypeOK
    <3>2. Append(toClient, [kind |-> "welcome", seq |-> sequence, host |-> host]) \in Seq(Frame)
      BY <3>1, Appended DEF TypeOK
    <3> QED
      BY <1>7, <3>2 DEF TypeOK, HostReads
  <2>3. runLane' \in Seq([run : Run, live : BOOLEAN])
    <3>1. q.op = "submit" => [run |-> q.run, live |-> TRUE] \in [run : Run, live : BOOLEAN]
      BY <2>1 DEF Request, SubmitRequest, Query
    <3>2. q.op = "submit" => Append(runLane, [run |-> q.run, live |-> TRUE])
                               \in Seq([run : Run, live : BOOLEAN])
      BY <3>1, Appended DEF TypeOK
    <3> QED
      BY <1>7, <3>2 DEF TypeOK, HostReads, q
  <2>4. queryLane' \in Seq(Query)
    <3>1. q.op \in {"subscribe", "inspect"} => q \in Query
      BY <2>1 DEF Request, SubmitRequest, Query
    <3>2. q.op \in {"subscribe", "inspect"} => Append(queryLane, q) \in Seq(Query)
      BY <3>1, Appended DEF TypeOK
    <3> QED
      BY <1>7, <3>2 DEF TypeOK, HostReads, q
  <2> QED
    BY <1>7, <2>1, <2>2, <2>3, <2>4 DEF TypeOK, RowsFollow, AnswersKept, HostReads
<1>8. CASE HandleSubmit
  <2> DEFINE r == Head(runLane).run
  <2>1. runLane' \in Seq([run : Run, live : BOOLEAN]) /\ r \in Run
    <3>1. runLane \in Seq([run : Run, live : BOOLEAN]) /\ runLane # <<>>
      BY <1>8 DEF TypeOK, HandleSubmit
    <3>2. Head(runLane) \in [run : Run, live : BOOLEAN]
          /\ Tail(runLane) \in Seq([run : Run, live : BOOLEAN])
      BY <3>1, Rest
    <3> QED
      BY <1>8, <3>2 DEF HandleSubmit
  <2>2. answers' \in Seq(Answer)
    <3>1. \A ok \in BOOLEAN : [kind |-> "submitted", run |-> r, ok |-> ok] \in Answer
      BY <2>1 DEF Answer
    <3>2. \A ok \in BOOLEAN : Append(answers, [kind |-> "submitted", run |-> r, ok |-> ok]) \in Seq(Answer)
      BY <3>1, Appended DEF TypeOK
    <3> QED
      BY <1>8, <3>2 DEF TypeOK, HandleSubmit
  <2>3. \/ row' = [row EXCEPT ![r] = "open"] /\ phase' = [phase EXCEPT ![r] = "admitted"]
        \/ UNCHANGED <<row, phase>>
    BY <1>8 DEF HandleSubmit
  <2> HIDE DEF r
  <2>4. row' \in [Run -> Rows] /\ RowsFollow'
        /\ phase' \in [Run -> {"none", "admitted", "going", "ended", "announced", "hushed", "settled"}]
    <3>1. CASE UNCHANGED <<row, phase>>
      BY <3>1 DEF TypeOK, RowsFollow
    <3>2. CASE row' = [row EXCEPT ![r] = "open"] /\ phase' = [phase EXCEPT ![r] = "admitted"]
      <4>1. row' \in [Run -> Rows]
        BY <3>2 DEF TypeOK, Rows
      <4>2. phase' \in [Run -> {"none", "admitted", "going", "ended", "announced", "hushed", "settled"}]
        BY <3>2 DEF TypeOK
      <4>3. RowsFollow'
        BY <2>1, <3>2 DEF TypeOK, RowsFollow
      <4> QED
        BY <4>1, <4>2, <4>3
    <3> QED
      BY <2>3, <3>1, <3>2
  <2> QED
    BY <1>8, <2>1, <2>2, <2>4 DEF TypeOK, AnswersKept, HandleSubmit, Silent
<1>9. CASE HandleSubscribe
  <2> DEFINE q == Head(queryLane)
  <2>1. q \in Query /\ queryLane' \in Seq(Query) /\ q.op = "subscribe"
    BY <1>9, Rest DEF TypeOK, HandleSubscribe
  <2>2. q.after \in Nat /\ q.by \in Attempt
    BY <2>1 DEF Query
  <2>3. answers' \in Seq(Answer)
    <3>1. [kind |-> "snapshot", by |-> q.by, seq |-> sequence, view |-> active] \in Answer
      BY <2>2 DEF Answer, TypeOK
    <3> QED
      BY <1>9, <3>1, Appended DEF TypeOK, HandleSubscribe
  <2>4. toClient' \in Seq(Frame)
    <3>1. Gap \in Seq(Frame)
      BY DEF Gap, Frame, TypeOK
    <3>2. Missed(q.after) \in Seq(Frame)
      BY <2>2, MissedTyped
    <3> HIDE DEF q
    <3>3. toClient \o Gap \in Seq(Frame) /\ toClient \o Missed(q.after) \in Seq(Frame)
      BY <3>1, <3>2, ConcatProperties DEF TypeOK
    <3> QED
      BY <1>9, <3>3 DEF HandleSubscribe, q
  <2> QED
    BY <1>9, <2>1, <2>3, <2>4 DEF TypeOK, RowsFollow, AnswersKept, HandleSubscribe
<1>10. CASE HandleInspect
  <2> DEFINE q == Head(queryLane)
  <2>1. q \in Query /\ queryLane' \in Seq(Query) /\ q.op = "inspect"
    BY <1>10, Rest DEF TypeOK, HandleInspect
  <2>2. answers' \in Seq(Answer)
    <3>1. q.run \in Run /\ q.by \in Attempt
      BY <2>1 DEF Query
    <3>2. [kind |-> "row", by |-> q.by, run |-> q.run, row |-> row[q.run]] \in Answer
      BY <3>1 DEF Answer, TypeOK
    <3> QED
      BY <1>10, <3>2, Appended DEF TypeOK, HandleInspect
  <2> QED
    BY <1>10, <2>1, <2>2 DEF TypeOK, RowsFollow, AnswersKept, HandleInspect, Silent
<1>11. CASE SendAnswer
  <2>1. answers' \in Seq(Answer) /\ Head(answers) \in Answer
    BY <1>11, Rest DEF TypeOK, SendAnswer
  <2>2. toClient' \in Seq(Frame)
    <3>1. Head(answers) \in Frame
      BY <2>1 DEF Frame
    <3> QED
      BY <1>11, <3>1, Appended DEF TypeOK, SendAnswer
  <2> QED
    BY <1>11, <2>1, <2>2 DEF TypeOK, RowsFollow, AnswersKept, SendAnswer
<1>12. ASSUME NEW r \in Run, Submit(r) PROVE TypeInv'
  <2>1. [op |-> "submit", run |-> r] \in Request
    BY DEF Request, SubmitRequest
  <2> QED
    BY <1>12, <2>1, AskTyped DEF TypeOK, RowsFollow, AnswersKept, Submit
<1>13. ASSUME NEW a \in Attempt, TimerFires(a) PROVE TypeInv'
  BY <1>13 DEF TypeOK, RowsFollow, AnswersKept, TimerFires, Goes, Stages
<1>14. ASSUME NEW a \in Attempt, Reach(a) PROVE TypeInv'
  BY <1>14, OpenTyped DEF TypeOK, RowsFollow, AnswersKept, Reach, Goes, Stages
<1>15. ASSUME NEW a \in Attempt, Subscribe(a) PROVE TypeInv'
  <2>1. [op |-> "subscribe", by |-> a, after |-> known, host |-> before[a]] \in Request
    BY DEF Request, Query, TypeOK
  <2> QED
    BY <1>15, <2>1, AskTyped DEF TypeOK, RowsFollow, AnswersKept, Subscribe, Goes, Stages
<1>16. ASSUME NEW a \in Attempt, Resume(a) PROVE TypeInv'
  <2>1. got[a].seq \in Nat /\ got[a].view \in Shown
    BY <1>16 DEF AnswersKept, Resume, Goes, Answer
  <2> HIDE DEF NoFrame
  <2> QED
    BY <1>16, <2>1 DEF TypeOK, RowsFollow, AnswersKept, Resume, Goes, Stages
<1>17. ASSUME NEW a \in Attempt, Inspect(a) PROVE TypeInv'
  <2>1. PICK r \in left[a] : /\ left' = [left EXCEPT ![a] = @ \ {r}]
                             /\ Ask([op |-> "inspect", by |-> a, run |-> r])
    BY <1>17 DEF Inspect
  <2>2. [op |-> "inspect", by |-> a, run |-> r] \in Request
    BY <2>1 DEF TypeOK, Request, Query
  <2> QED
    BY <1>17, <2>1, <2>2, AskTyped DEF TypeOK, RowsFollow, AnswersKept, Inspect, Goes, Stages
<1>18. ASSUME NEW a \in Attempt, Judge(a) PROVE TypeInv'
  <2>1. got[a].run \in Run /\ got[a].row \in Rows
    BY <1>18 DEF AnswersKept, Judge, Goes, Answer
  <2>2. Verdict(got[a].run, got[a].row) \in {"waiting", "rejected"} \cup Outcome
    BY <2>1 DEF Verdict, Rows
  <2> HIDE DEF NoFrame
  <2>3. comp' \in [Run -> {"none", "waiting", "rejected"} \cup Outcome]
    BY <1>18, <2>1, <2>2 DEF TypeOK, Judge, Settle
  <2> QED
    BY <1>18, <2>3 DEF TypeOK, RowsFollow, AnswersKept, Judge, Goes, Stages
<1>19. ASSUME NEW a \in Attempt, Finish(a) PROVE TypeInv'
  BY <1>19 DEF TypeOK, RowsFollow, AnswersKept, Finish, Goes, Stages
<1>20. ASSUME Deliver PROVE toClient' \in Seq(Frame) /\ toClient # <<>> /\ Head(toClient) \in Frame
  <2>1. toClient # <<>> /\ toClient' = Tail(toClient)
    BY <1>20 DEF Deliver, OnWelcome, OnEvent, OnCompletion, OnSubmitted, OnAnswer, Takes
  <2> QED
    BY <2>1, Rest DEF TypeOK
<1>21. CASE OnWelcome
  <2>1. Head(toClient).seq \in Nat /\ Head(toClient).host \in Nat
    BY <1>20, <1>21 DEF Deliver, OnWelcome, Takes, Frame, Answer
  <2>2. toHost' \in Seq(Request)
    BY <1>21, ConcatProperties DEF OnWelcome, TypeOK
  <2>3. \A S : <<>> \in Seq(S)
    OBVIOUS
  <2> QED
    BY <1>20, <1>21, <2>1, <2>2, <2>3 DEF Deliver, TypeOK, RowsFollow, AnswersKept, OnWelcome
<1>22. CASE OnEvent
  <2>1. Head(toClient).seq \in Nat /\ Head(toClient).view \in Shown
    BY <1>20, <1>22 DEF Deliver, OnEvent, Takes, Frame, Answer
  <2> QED
    BY <1>20, <1>22, <2>1 DEF Deliver, TypeOK, RowsFollow, AnswersKept, OnEvent
<1>23. CASE OnCompletion
  <2>1. Head(toClient).outcome \in Outcome
    BY <1>20, <1>23 DEF Deliver, OnCompletion, Takes, Frame, Answer
  <2> QED
    BY <1>20, <1>23, <2>1 DEF Deliver, TypeOK, RowsFollow, AnswersKept, OnCompletion, Settle
<1>24. CASE OnSubmitted
  BY <1>20, <1>24 DEF Deliver, TypeOK, RowsFollow, AnswersKept, OnSubmitted, Settle
<1>25. CASE OnAnswer
  <2> DEFINE f == Head(toClient)
  <2>1. f \in Answer /\ f.kind \in {"snapshot", "row"} /\ f.by \in Attempt
    BY <1>20, <1>25 DEF Deliver, OnAnswer, Takes, Frame, Answer
  <2>2. /\ stage' = [stage EXCEPT ![f.by] = IF f.kind = "row" THEN "inspected" ELSE "answered"]
        /\ got' = [got EXCEPT ![f.by] = f]
    BY <1>25 DEF OnAnswer
  <2> HIDE DEF f, NoFrame
  <2>3. stage' \in [Attempt -> Stages] /\ got' \in [Attempt -> Answer \cup {NoFrame}]
    BY <2>1, <2>2 DEF TypeOK, Stages
  <2>4. AnswersKept'
    BY <2>1, <2>2 DEF TypeOK, AnswersKept
  <2> QED
    BY <1>20, <1>25, <2>3, <2>4 DEF Deliver, TypeOK, RowsFollow, OnAnswer
<1>26. CASE Drop
  <2>1. runLane' \in Seq([run : Run, live : BOOLEAN])
    <3>1. \A i \in 1 .. Len(runLane) : [runLane[i] EXCEPT !.live = FALSE] \in [run : Run, live : BOOLEAN]
      <4>1. \A i \in 1 .. Len(runLane) : runLane[i] \in [run : Run, live : BOOLEAN]
        BY ElementOfSeq DEF TypeOK
      <4> QED
        BY <4>1
    <3>2. Len(runLane) \in Nat
      BY DEF TypeOK
    <3> QED
      BY <1>26, <3>1, <3>2, IsASeq DEF Drop
  <2>2. \A S : <<>> \in Seq(S)
    OBVIOUS
  <2>3. /\ toHost' \in Seq(Request) /\ toClient' \in Seq(Frame) /\ outbox' \in Seq(Request)
        /\ socket' \in Nat /\ link' \in {"down", "opening", "ready"} /\ timer' \in BOOLEAN
        /\ known' \in Nat /\ knownHost' \in Nat /\ view' \in Shown /\ heard' \in Nat
        /\ comp' \in [Run -> {"none", "waiting", "rejected"} \cup Outcome]
        /\ stage' \in [Attempt -> Stages] /\ before' \in [Attempt -> Nat]
        /\ left' \in [Attempt -> SUBSET Run] /\ got' \in [Attempt -> Answer \cup {NoFrame}]
        /\ AnswersKept'
    BY <1>26, DisconnectedTyped DEF Drop
  <2> HIDE DEF NoFrame
  <2> QED
    BY <1>26, <2>1, <2>2, <2>3 DEF TypeOK, RowsFollow, Drop
<1>27. CASE Die
  <2>1. sequence' \in Nat /\ history' \in Seq([seq : Nat, view : Shown])
    <3>1. sequence' \in 0 .. sequence /\ history' \in Restored(sequence')
      BY <1>27 DEF Die
    <3>2. history \in Seq(Items) /\ sequence' \in Nat
      BY <3>1 DEF TypeOK, Items
    <3> QED
      BY <3>1, <3>2, RestoredTyped DEF Items
  <2>2. \A S : <<>> \in Seq(S)
    OBVIOUS
  <2>3. PICK found \in [Run -> Rows] :
          /\ \A r \in Run : found[r] = row[r] \/ (row[r] = "open" /\ found[r] \in Outcome)
          /\ row' = found
    BY <1>27 DEF Die
  <2>4. phase' = [r \in Run |-> IF row[r] = "none" THEN "none" ELSE "settled"]
    BY <1>27 DEF Die
  <2>5. RowsFollow' /\ phase' \in [Run -> {"none", "admitted", "going", "ended", "announced", "hushed", "settled"}]
    BY <2>3, <2>4, OutcomeAssumption DEF RowsFollow
  <2>6. NoRun \in Shown /\ host' \in Nat
    BY <1>27 DEF Die, Shown, TypeOK
  <2>7. CASE Disconnected
    <3>1. /\ toHost' \in Seq(Request) /\ toClient' \in Seq(Frame) /\ outbox' \in Seq(Request)
          /\ socket' \in Nat /\ link' \in {"down", "opening", "ready"} /\ timer' \in BOOLEAN
          /\ known' \in Nat /\ knownHost' \in Nat /\ view' \in Shown /\ heard' \in Nat
          /\ comp' \in [Run -> {"none", "waiting", "rejected"} \cup Outcome]
          /\ stage' \in [Attempt -> Stages] /\ before' \in [Attempt -> Nat]
          /\ left' \in [Attempt -> SUBSET Run] /\ got' \in [Attempt -> Answer \cup {NoFrame}]
          /\ AnswersKept'
      BY <2>7, DisconnectedTyped
    <3> HIDE DEF NoFrame
    <3>2. row' \in [Run -> Rows]
      BY <2>3
    <3> QED
      BY <1>27, <2>1, <2>2, <2>5, <2>6, <3>1, <3>2 DEF TypeOK, Die
  <2>8. CASE UNCHANGED <<wireVars, clientVars>>
    BY <1>27, <2>1, <2>2, <2>3, <2>5, <2>6, <2>8 DEF TypeOK, Die, AnswersKept
  <2> QED
    BY <1>27, <2>7, <2>8 DEF Die
<1>28. CASE UNCHANGED vars
  BY <1>28 DEF vars, TypeOK, RowsFollow, AnswersKept
<1> QED
  BY <1>1, <1>2, <1>3, <1>4, <1>5, <1>h, <1>6, <1>7, <1>8, <1>9, <1>10, <1>11, <1>12, <1>13, <1>14,
     <1>15, <1>16, <1>17, <1>18, <1>19, <1>21, <1>22, <1>23, <1>24, <1>25, <1>26, <1>27, <1>28
     DEF Next, HostSteps, Attempts, Deliver

\* Every variable keeps its type, whatever is lost and in which order.
THEOREM TypeCorrect == Spec => []TypeOK
<1>1. TypeInv /\ [Next]_vars => TypeInv'
  BY TypeStep
<1>2. TypeInv => TypeOK
  BY DEF TypeInv
<1> QED
  BY TypeInit, <1>1, <1>2, PTL DEF Spec

-----------------------------------------------------------------------------
(* Completions are resolved with the truth. *)

LEMMA ElementsAppend ==
  ASSUME NEW S, NEW q \in Seq(S), NEW x \in S
  PROVE  Elements(Append(q, x)) = Elements(q) \cup {x}
<1> DEFINE longer == Append(q, x)
<1>1. /\ Len(longer) = Len(q) + 1 /\ Len(q) \in Nat
      /\ \A i \in 1 .. Len(q) : longer[i] = q[i]
      /\ longer[Len(q) + 1] = x
  BY Appended
<1> HIDE DEF longer
<1>2. Elements(longer) \subseteq Elements(q) \cup {x}
  BY <1>1 DEF Elements
<1>3. Elements(q) \cup {x} \subseteq Elements(longer)
  BY <1>1 DEF Elements
<1> QED
  BY <1>2, <1>3 DEF longer

LEMMA ElementsRest ==
  ASSUME NEW S, NEW q \in Seq(S), q # <<>>
  PROVE  Elements(Tail(q)) \subseteq Elements(q) /\ Head(q) \in Elements(q)
BY Rest DEF Elements

LEMMA ElementsConcat ==
  ASSUME NEW S, NEW q \in Seq(S), NEW t \in Seq(S)
  PROVE  Elements(q \o t) = Elements(q) \cup Elements(t)
<1> DEFINE both == q \o t
<1>1. /\ Len(both) = Len(q) + Len(t) /\ Len(q) \in Nat /\ Len(t) \in Nat
      /\ \A i \in 1 .. Len(q) + Len(t) : both[i] = IF i <= Len(q) THEN q[i] ELSE t[i - Len(q)]
  BY ConcatProperties
<1> HIDE DEF both
<1>2. Elements(both) \subseteq Elements(q) \cup Elements(t)
  BY <1>1 DEF Elements
<1>3. ASSUME NEW i \in 1 .. Len(t) PROVE t[i] \in Elements(both)
  <2>1. Len(q) + i \in 1 .. Len(q) + Len(t) /\ ~ (Len(q) + i <= Len(q)) /\ Len(q) + i - Len(q) = i
    BY <1>1
  <2>2. both[Len(q) + i] = t[i]
    BY <1>1, <2>1
  <2> QED
    BY <1>1, <2>1, <2>2 DEF Elements
<1>4. ASSUME NEW i \in 1 .. Len(q) PROVE q[i] \in Elements(both)
  <2>1. i \in 1 .. Len(q) + Len(t) /\ i <= Len(q)
    BY <1>1
  <2> QED
    BY <1>1, <2>1 DEF Elements
<1> QED
  BY <1>2, <1>3, <1>4 DEF both, Elements

LEMMA NoElements == Elements(<<>>) = {}
BY DEF Elements

\* A row that names an end is never written again.
LEMMA RowStands ==
  ASSUME TypeInv, [Next]_vars
  PROVE  \A r \in Run : row[r] \in Outcome => row'[r] = row[r]
<1> USE DEF TypeInv
<1>1. ASSUME NEW q \in Run, EndRun(q) PROVE \A r \in Run : row[r] \in Outcome => row'[r] = row[r]
  BY <1>1, OutcomeAssumption DEF EndRun, Moves, RowsFollow, TypeOK
<1>2. CASE HandleSubmit
  <2>1. \A r \in Run : row'[r] = row[r] \/ row[r] = "none"
    BY <1>2 DEF HandleSubmit, TypeOK
  <2> QED
    BY <2>1, OutcomeAssumption
<1>3. CASE Die
  BY <1>3, OutcomeAssumption DEF Die
<1>4. CASE UNCHANGED row
  BY <1>4
<1> QED
  BY <1>1, <1>2, <1>3, <1>4
     DEF Next, vars, HostSteps, StartRun, AnnounceEnd, Broadcast, Hush, Progress, Submit, Rebuild,
         HostReads, HandleSubscribe, HandleInspect, SendAnswer, TimerFires, Attempts, Reach,
         Subscribe, Resume, Inspect, Judge, Finish, Deliver, OnWelcome, OnEvent, OnCompletion,
         OnSubmitted, OnAnswer, Drop

\* Whoever was told the truth still is.
LEMMA TruthStands ==
  ASSUME TypeInv, [Next]_vars, NEW f \in Frame, TellsTruth(f, row)
  PROVE  TellsTruth(f, row')
<1>1. f.kind = "completion" => f.run \in Run /\ f.outcome \in Outcome
  BY DEF Frame, Answer
<1>2. f.kind = "row" => f.run \in Run
  BY DEF Frame, Answer
<1> QED
  BY <1>1, <1>2, RowStands DEF TellsTruth

\* What a step must show for the invariant to hold after it: nothing false
\* is put on the way, and no completion is made up.
NothingFalse ==
  /\ \A f \in Elements(toClient') \cup Elements(answers') :
        f \in Elements(toClient) \cup Elements(answers) \/ TellsTruth(f, row')
  /\ \A a \in Attempt : got'[a] \in {NoFrame, got[a]} \cup Elements(toClient)
  /\ \A r \in Run : comp'[r] \in Outcome => comp'[r] = comp[r] \/ row[r] = comp'[r]

LEMMA TruthKept ==
  ASSUME TruthInv, [Next]_vars, NothingFalse
  PROVE  TruthInv'
<1>1. TypeInv /\ TypeInv'
  BY TypeStep DEF TruthInv
<1>2. Elements(toClient) \cup Elements(answers) \subseteq Frame
  <2>1. \A i \in 1 .. Len(toClient) : toClient[i] \in Frame
    BY <1>1, ElementOfSeq DEF TypeInv, TypeOK
  <2>2. \A i \in 1 .. Len(answers) : answers[i] \in Frame
    <3>1. \A i \in 1 .. Len(answers) : answers[i] \in Answer
      BY <1>1, ElementOfSeq DEF TypeInv, TypeOK
    <3> QED
      BY <3>1 DEF Frame
  <2> QED
    BY <2>1, <2>2 DEF Elements
<1>3. \A f \in Elements(toClient) \cup Elements(answers) : TellsTruth(f, row')
  BY <1>1, <1>2, TruthStands DEF TruthInv, FramesTrue
<1>4. \A a \in Attempt : got'[a] # NoFrame => TellsTruth(got'[a], row')
  <2> SUFFICES ASSUME NEW a \in Attempt, got'[a] # NoFrame PROVE TellsTruth(got'[a], row')
    OBVIOUS
  <2>1. CASE got'[a] \in Elements(toClient)
    BY <2>1, <1>3
  <2>2. CASE got'[a] = got[a]
    <3>1. got[a] \in Frame /\ TellsTruth(got[a], row)
      BY <1>1, <2>2 DEF TypeInv, TypeOK, Frame, TruthInv, FramesTrue
    <3> QED
      BY <1>1, <2>2, <3>1, TruthStands
  <2> QED
    BY <2>1, <2>2 DEF NothingFalse
<1>5. FramesTrue'
  BY <1>3, <1>4 DEF FramesTrue, NothingFalse
<1>6. OutcomeTrue'
  <2> SUFFICES ASSUME NEW r \in Run, comp'[r] \in Outcome PROVE row'[r] = comp'[r]
    BY DEF OutcomeTrue
  <2>1. row[r] = comp'[r]
    BY DEF NothingFalse, TruthInv, OutcomeTrue
  <2> QED
    BY <1>1, <2>1, RowStands
<1> QED
  BY <1>1, <1>5, <1>6 DEF TruthInv

LEMMA PublishedElements ==
  ASSUME TypeInv, NEW n \in Nat, NEW shown \in Shown, NEW f,
         f = [kind |-> "event", seq |-> n, view |-> shown],
         toClient' = IF subscribed THEN Append(toClient, f) ELSE toClient
  PROVE  \A g \in Elements(toClient') : g \in Elements(toClient) \/ TellsTruth(g, row')
<1>1. f \in Frame /\ TellsTruth(f, row')
  BY DEF Frame, TellsTruth
<1>2. Elements(Append(toClient, f)) = Elements(toClient) \cup {f}
  BY <1>1, ElementsAppend DEF TypeInv, TypeOK
<1> QED
  BY <1>1, <1>2

LEMMA TruthStep ==
  ASSUME TruthInv, [Next]_vars
  PROVE  NothingFalse
<1>0. TypeInv
  BY DEF TruthInv
<1>t. TypeOK
  BY <1>0 DEF TypeInv
<1>s. sequence + 1 \in Nat /\ NoRun \in Shown /\ \A r \in Run : r \in Shown
  BY <1>t DEF TypeOK, Shown
<1>1. ASSUME NEW r \in Run, StartRun(r) PROVE NothingFalse
  BY <1>1, <1>0, <1>s, PublishedElements DEF StartRun, Publish, NothingFalse
<1>2. ASSUME NEW r \in Run, Progress(r) PROVE NothingFalse
  BY <1>2, <1>0, <1>s, PublishedElements DEF Progress, Publish, NothingFalse
<1>3. ASSUME NEW r \in Run, EndRun(r) PROVE NothingFalse
  BY <1>3 DEF EndRun, Silent, NothingFalse
<1>4. ASSUME NEW r \in Run, AnnounceEnd(r) PROVE NothingFalse
  BY <1>4, <1>0, <1>s, PublishedElements DEF AnnounceEnd, Publish, NothingFalse
<1>5. ASSUME NEW r \in Run, Broadcast(r) PROVE NothingFalse
  <2> DEFINE f == [kind |-> "completion", run |-> r, outcome |-> row[r]]
  <2>1. f \in Frame /\ TellsTruth(f, row')
    BY <1>5, <1>0 DEF Broadcast, Moves, TypeInv, RowsFollow, Frame, TellsTruth
  <2>2. Elements(Append(toClient, f)) = Elements(toClient) \cup {f}
    BY <2>1, <1>t, ElementsAppend DEF TypeOK
  <2> QED
    BY <1>5, <2>1, <2>2 DEF Broadcast, NothingFalse
<1>h. ASSUME NEW r \in Run, Hush(r) PROVE NothingFalse
  BY <1>h DEF Hush, Silent, NothingFalse
<1>6. CASE Rebuild
  BY <1>6, <1>0, <1>s, PublishedElements DEF Rebuild, NothingFalse
<1>7. CASE HostReads
  <2> DEFINE f == [kind |-> "welcome", seq |-> sequence, host |-> host]
  <2>1. f \in Frame /\ TellsTruth(f, row')
    BY <1>t DEF Frame, TellsTruth, TypeOK
  <2>2. Elements(Append(toClient, f)) = Elements(toClient) \cup {f}
    BY <2>1, <1>t, ElementsAppend DEF TypeOK
  <2> QED
    BY <1>7, <2>1, <2>2 DEF HostReads, NothingFalse
<1>8. CASE HandleSubmit
  <2> DEFINE f(ok) == [kind |-> "submitted", run |-> Head(runLane).run, ok |-> ok]
  <2>1. Head(runLane).run \in Run
    <3>1. runLane \in Seq([run : Run, live : BOOLEAN]) /\ runLane # <<>>
      BY <1>8, <1>t DEF HandleSubmit, TypeOK
    <3>2. Head(runLane) \in [run : Run, live : BOOLEAN]
      BY <3>1, Rest
    <3> QED
      BY <3>2
  <2>2. \A ok \in BOOLEAN : f(ok) \in Answer /\ TellsTruth(f(ok), row')
    BY <2>1 DEF Answer, TellsTruth
  <2>3. \A ok \in BOOLEAN : Elements(Append(answers, f(ok))) = Elements(answers) \cup {f(ok)}
    BY <2>2, <1>t, ElementsAppend DEF TypeOK
  <2>4. answers' = answers \/ \E ok \in BOOLEAN : answers' = Append(answers, f(ok))
    BY <1>8 DEF HandleSubmit
  <2>5. \A g \in Elements(answers') : g \in Elements(answers) \/ TellsTruth(g, row')
    BY <2>2, <2>3, <2>4
  <2> QED
    BY <1>8, <2>5 DEF HandleSubmit, Silent, NothingFalse
<1>9. CASE HandleSubscribe
  <2> DEFINE q == Head(queryLane)
             f == [kind |-> "snapshot", by |-> q.by, seq |-> sequence, view |-> active]
  <2>1. q \in Query /\ q.op = "subscribe"
    BY <1>9, <1>t, Rest DEF HandleSubscribe, TypeOK
  <2>2. q.after \in Nat /\ q.by \in Attempt
    BY <2>1 DEF Query
  <2>3. f \in Answer /\ TellsTruth(f, row')
    BY <2>2, <1>t DEF Answer, TellsTruth, TypeOK
  <2>4. Elements(Append(answers, f)) = Elements(answers) \cup {f}
    BY <2>3, <1>t, ElementsAppend DEF TypeOK
  <2>5. Missed(q.after) \in Seq(Frame) /\ \A g \in Elements(Missed(q.after)) : TellsTruth(g, row')
    <3>1. Missed(q.after) \in Seq(Frame)
      BY <2>2, <1>t, MissedTyped
    <3>2. \A i \in DOMAIN Missed(q.after) : Missed(q.after)[i].kind = "event"
      BY DEF Missed
    <3>3. \A g \in Elements(Missed(q.after)) : g.kind = "event"
      BY <3>1, <3>2 DEF Elements
    <3> QED
      BY <3>1, <3>3 DEF TellsTruth
  <2>6. Gap \in Seq(Frame) /\ \A g \in Elements(Gap) : TellsTruth(g, row')
    BY <1>t DEF Gap, Frame, TypeOK, Elements, TellsTruth
  <2>7. /\ Elements(toClient \o Gap) = Elements(toClient) \cup Elements(Gap)
        /\ Elements(toClient \o Missed(q.after)) = Elements(toClient) \cup Elements(Missed(q.after))
    BY <2>5, <2>6, <1>t, ElementsConcat DEF TypeOK
  <2>8. /\ toClient' \in {toClient \o Gap, toClient \o Missed(q.after)}
        /\ answers' = Append(answers, f) /\ UNCHANGED <<got, comp>>
    BY <1>9 DEF HandleSubscribe
  <2> HIDE DEF q, f
  <2> QED
    BY <2>3, <2>4, <2>5, <2>6, <2>7, <2>8 DEF NothingFalse
<1>10. CASE HandleInspect
  <2> DEFINE q == Head(queryLane)
             f == [kind |-> "row", by |-> q.by, run |-> q.run, row |-> row[q.run]]
  <2>1. q \in Query /\ q.op = "inspect"
    BY <1>10, <1>t, Rest DEF HandleInspect, TypeOK
  <2>2. q.run \in Run /\ q.by \in Attempt
    BY <2>1 DEF Query
  <2>3. f \in Answer /\ TellsTruth(f, row')
    BY <2>2, <1>10, <1>t DEF HandleInspect, Answer, TellsTruth, TypeOK
  <2>4. Elements(Append(answers, f)) = Elements(answers) \cup {f}
    BY <2>3, <1>t, ElementsAppend DEF TypeOK
  <2> QED
    BY <1>10, <2>3, <2>4 DEF HandleInspect, Silent, NothingFalse
<1>11. CASE SendAnswer
  <2>1. answers \in Seq(Answer) /\ toClient \in Seq(Frame) /\ answers # <<>>
    BY <1>11, <1>t DEF SendAnswer, TypeOK
  <2>2. Elements(Tail(answers)) \subseteq Elements(answers) /\ Head(answers) \in Elements(answers)
    BY <2>1, ElementsRest
  <2>3. Head(answers) \in Frame
    BY <2>1, Rest DEF Frame
  <2>4. Elements(Append(toClient, Head(answers))) = Elements(toClient) \cup {Head(answers)}
    BY <2>1, <2>3, ElementsAppend
  <2> QED
    BY <1>11, <2>2, <2>4 DEF SendAnswer, NothingFalse
<1>12. ASSUME \/ UNCHANGED toClient
              \/ toClient' = <<>>
              \/ toClient # <<>> /\ toClient' = Tail(toClient)
       PROVE  Elements(toClient') \subseteq Elements(toClient)
  BY <1>12, <1>t, ElementsRest, NoElements DEF TypeOK
<1>13. ASSUME NEW q, Ask(q) PROVE Elements(toClient') \subseteq Elements(toClient)
  BY <1>12, <1>13 DEF Ask, OpenSocket
<1>14. ASSUME NEW r \in Run, Submit(r) PROVE NothingFalse
  <2>1. \A p \in Run : comp'[p] \in Outcome => comp'[p] = comp[p]
    BY <1>14, <1>t, OutcomeAssumption DEF Submit, TypeOK
  <2> QED
    BY <1>13, <1>14, <2>1 DEF Submit, NothingFalse
<1>15. ASSUME NEW a \in Attempt, TimerFires(a) \/ Finish(a) PROVE NothingFalse
  BY <1>15 DEF TimerFires, Finish, NothingFalse
<1>16. ASSUME NEW a \in Attempt, Reach(a) PROVE NothingFalse
  BY <1>12, <1>16 DEF Reach, OpenSocket, NothingFalse
<1>17. ASSUME NEW a \in Attempt, Subscribe(a) PROVE NothingFalse
  BY <1>13, <1>17 DEF Subscribe, NothingFalse
<1>18. ASSUME NEW a \in Attempt, Resume(a) PROVE NothingFalse
  <2> HIDE DEF NoFrame
  <2> QED
    BY <1>18, <1>t DEF Resume, TypeOK, NothingFalse
<1>19. ASSUME NEW a \in Attempt, Inspect(a) PROVE NothingFalse
  BY <1>13, <1>19 DEF Inspect, NothingFalse
<1>20. ASSUME NEW a \in Attempt, Judge(a) PROVE NothingFalse
  <2> DEFINE r == got[a].run
  <2>1. got[a] \in Answer /\ got[a].kind = "row"
    BY <1>20, <1>0 DEF TypeInv, AnswersKept, Judge, Goes
  <2>2. r \in Run /\ got[a].row \in Rows /\ got[a] # NoFrame
    BY <2>1 DEF Answer, NoFrame
  <2>3. got[a].row \in Outcome => row[r] = got[a].row
    BY <2>1, <2>2 DEF TruthInv, FramesTrue, TellsTruth
  <2>4. Verdict(r, got[a].row) \in Outcome => row[r] = Verdict(r, got[a].row)
    BY <2>2, <2>3, OutcomeAssumption DEF Verdict, Rows
  <2>5. comp' = [comp EXCEPT ![r] = IF @ = "waiting" THEN Verdict(r, got[a].row) ELSE @]
    BY <1>20 DEF Judge, Settle
  <2> HIDE DEF r, NoFrame
  <2>6. \A p \in Run : comp'[p] \in Outcome => comp'[p] = comp[p] \/ row[p] = comp'[p]
    BY <2>2, <2>4, <2>5, <1>t DEF TypeOK
  <2> QED
    BY <1>20, <2>6, <1>t DEF Judge, NothingFalse, TypeOK
<1>21. CASE Deliver
  <2>1. toClient # <<>> /\ toClient' = Tail(toClient)
    BY <1>21 DEF Deliver, OnWelcome, OnEvent, OnCompletion, OnSubmitted, OnAnswer, Takes
  <2>2. Elements(toClient') \subseteq Elements(toClient) /\ Head(toClient) \in Elements(toClient)
    BY <2>1, <1>t, ElementsRest DEF TypeOK
  <2>3. Head(toClient) \in Frame
    BY <2>1, <1>t, Rest DEF TypeOK
  <2>4. CASE OnWelcome \/ OnEvent
    BY <2>2, <2>4 DEF OnWelcome, OnEvent, NothingFalse
  <2>5. CASE OnCompletion
    <3>1. TellsTruth(Head(toClient), row) /\ Head(toClient).kind = "completion"
      BY <2>2, <2>5 DEF OnCompletion, Takes, TruthInv, FramesTrue
    <3>2. row[Head(toClient).run] = Head(toClient).outcome
      BY <3>1 DEF TellsTruth
    <3>3. \A p \in Run : comp'[p] \in Outcome => comp'[p] = comp[p] \/ row[p] = comp'[p]
      BY <2>5, <3>2, <1>t DEF OnCompletion, Settle, TypeOK
    <3> QED
      BY <2>2, <2>5, <3>3 DEF OnCompletion, NothingFalse
  <2>6. CASE OnSubmitted
    <3>1. \A p \in Run : comp'[p] \in Outcome => comp'[p] = comp[p]
      BY <2>6, <1>t, OutcomeAssumption DEF OnSubmitted, Settle, TypeOK
    <3> QED
      BY <2>2, <2>6, <3>1 DEF OnSubmitted, NothingFalse
  <2>7. CASE OnAnswer
    <3>1. \A a \in Attempt : got'[a] = got[a] \/ got'[a] = Head(toClient)
      BY <2>7, <1>t DEF OnAnswer, TypeOK
    <3> QED
      BY <2>2, <2>7, <3>1 DEF OnAnswer, NothingFalse
  <2> QED
    BY <1>21, <2>4, <2>5, <2>6, <2>7 DEF Deliver
<1>22. ASSUME Disconnected
       PROVE  /\ toClient' = <<>> /\ got' = got
              /\ \A r \in Run : comp'[r] \in Outcome => comp'[r] = comp[r]
  BY <1>22, OutcomeAssumption DEF Disconnected
<1>23. CASE Drop
  BY <1>12, <1>22, <1>23, NoElements DEF Drop, NothingFalse
<1>24. CASE Die
  <2>1. CASE Disconnected
    BY <1>22, <1>24, <2>1, NoElements DEF Die, NothingFalse
  <2>2. CASE UNCHANGED <<wireVars, clientVars>>
    BY <1>24, <2>2, NoElements DEF Die, NothingFalse
  <2> QED
    BY <1>24, <2>1, <2>2 DEF Die
<1>25. CASE UNCHANGED vars
  BY <1>25 DEF vars, NothingFalse
<1> QED
  BY <1>1, <1>2, <1>3, <1>4, <1>5, <1>h, <1>6, <1>7, <1>8, <1>9, <1>10, <1>11, <1>14, <1>15, <1>16,
     <1>17, <1>18, <1>19, <1>20, <1>21, <1>23, <1>24, <1>25 DEF Next, HostSteps, Attempts

LEMMA TruthInit == Init => TruthInv
<1> SUFFICES ASSUME Init PROVE TruthInv
  OBVIOUS
<1>1. FramesTrue
  BY NoElements DEF Init, FramesTrue
<1>2. OutcomeTrue
  BY OutcomeAssumption DEF Init, OutcomeTrue
<1> QED
  BY <1>1, <1>2, TypeInit DEF TruthInv

\* What a client is told of the end of a run is what the authority holds,
\* across any number of lost connections and dead Hosts.
THEOREM OutcomesTrue == Spec => []OutcomeTrue
<1>1. TruthInv /\ [Next]_vars => TruthInv'
  BY TruthStep, TruthKept
<1>2. TruthInv => OutcomeTrue
  BY DEF TruthInv
<1> QED
  BY <1>1, <1>2, TruthInit, PTL DEF Spec

-----------------------------------------------------------------------------
(* Rows and completions implement CompletionPromise: each moves forward    *)
(* only, and a completion that is resolved takes what the row says.        *)

\* A run is admitted, then ends; a process that dies may end several.
LEMMA RowMoves ==
  ASSUME TypeInv, [Next]_vars, NEW r \in Run
  PROVE  Promise!Begin(r) \/ Promise!End(r) \/ row'[r] = row[r]
<1> USE DEF TypeInv, Promise!Begin, Promise!End
<1>1. ASSUME NEW q \in Run, EndRun(q)
      PROVE  Promise!End(r) \/ row'[r] = row[r]
  BY <1>1 DEF EndRun, Moves, RowsFollow, TypeOK
<1>2. ASSUME HandleSubmit
      PROVE  Promise!Begin(r) \/ row'[r] = row[r]
  BY <1>2 DEF HandleSubmit, TypeOK
<1>3. ASSUME Die
      PROVE  Promise!End(r) \/ row'[r] = row[r]
  BY <1>3 DEF Die
<1>4. CASE UNCHANGED row
  BY <1>4
<1> QED
  BY <1>1, <1>2, <1>3, <1>4
     DEF Next, vars, HostSteps, StartRun, AnnounceEnd, Broadcast, Hush, Progress, Submit, Rebuild,
         HostReads, HandleSubscribe, HandleInspect, SendAnswer, TimerFires, Attempts, Reach,
         Subscribe, Resume, Inspect, Judge, Finish, Deliver, OnWelcome, OnEvent, OnCompletion,
         OnSubmitted, OnAnswer, Drop

\* A completion is given away once and settled once.
Forward(r) ==
  \/ comp'[r] = comp[r]
  \/ comp[r] = "none" /\ comp'[r] = "waiting"
  \/ comp[r] = "waiting" /\ comp'[r] \in {"rejected"} \cup Outcome

LEMMA SettlesForward ==
  ASSUME TypeOK, NEW q \in Run, NEW as \in {"waiting", "rejected"} \cup Outcome, Settle(q, as),
         NEW r \in Run
  PROVE  Forward(r)
BY DEF TypeOK, Settle, Forward

LEMMA CompletionMoves ==
  ASSUME TypeInv, [Next]_vars, NEW r \in Run
  PROVE  Forward(r)
<1>t. TypeOK
  BY DEF TypeInv
<1>1. ASSUME NEW q \in Run, Submit(q) PROVE Forward(r)
  BY <1>1, <1>t DEF Submit, TypeOK, Forward
<1>2. ASSUME NEW a \in Attempt, Judge(a) PROVE Forward(r)
  <2>1. got[a] \in Answer /\ got[a].kind = "row"
    BY <1>2 DEF TypeInv, AnswersKept, Judge, Goes
  <2>2. got[a].run \in Run /\ got[a].row \in Rows
    BY <2>1 DEF Answer
  <2>3. Verdict(got[a].run, got[a].row) \in {"waiting", "rejected"} \cup Outcome
    BY <2>2 DEF Verdict, Rows
  <2>4. Settle(got[a].run, Verdict(got[a].run, got[a].row))
    BY <1>2 DEF Judge
  <2> QED
    BY <2>2, <2>3, <2>4, <1>t, SettlesForward
<1>3. ASSUME OnCompletion \/ OnSubmitted PROVE Forward(r)
  <2>1. Head(toClient) \in Frame
    BY <1>3, <1>t, Rest DEF OnCompletion, OnSubmitted, Takes, TypeOK
  <2>2. CASE OnCompletion
    <3>1. Head(toClient).run \in Run /\ Head(toClient).outcome \in Outcome
      BY <2>1, <2>2 DEF OnCompletion, Takes, Frame, Answer
    <3> QED
      BY <2>2, <3>1, <1>t, SettlesForward DEF OnCompletion
  <2>3. CASE OnSubmitted
    <3>1. Head(toClient).run \in Run
      BY <2>1, <2>3 DEF OnSubmitted, Takes, Frame, Answer
    <3> QED
      BY <2>3, <3>1, <1>t, SettlesForward DEF OnSubmitted
  <2> QED
    BY <1>3, <2>2, <2>3
<1>4. ASSUME Disconnected PROVE Forward(r)
  BY <1>4 DEF Disconnected, Forward
<1>5. ASSUME UNCHANGED comp PROVE Forward(r)
  BY <1>5 DEF Forward
<1>6. ASSUME Die PROVE Forward(r)
  BY <1>4, <1>5, <1>6 DEF Die
<1> QED
  BY <1>1, <1>2, <1>3, <1>4, <1>5, <1>6
     DEF Next, vars, HostSteps, StartRun, AnnounceEnd, EndRun, Broadcast, Hush, Progress, Rebuild,
         HostReads, HandleSubmit, HandleSubscribe, HandleInspect, SendAnswer, TimerFires, Attempts,
         Reach, Subscribe, Resume, Inspect, Finish, Deliver, OnWelcome, OnEvent, OnAnswer, Drop

LEMMA PromiseStep ==
  ASSUME TruthInv, [Next]_vars
  PROVE  [Promise!PromiseNext]_(Promise!promiseVars)
<1> SUFFICES ASSUME NEW r \in Run
             PROVE  /\ Promise!Begin(r) \/ Promise!End(r) \/ row'[r] = row[r]
                    /\ \/ Promise!Ask(r) \/ Promise!Reject(r) \/ Promise!Resolve(r)
                       \/ comp'[r] = comp[r]
  BY DEF Promise!PromiseNext
<1>1. TypeInv
  BY DEF TruthInv
<1>2. Forward(r)
  BY <1>1, CompletionMoves
<1>3. comp'[r] \in Outcome => comp'[r] = comp[r] \/ row[r] = comp'[r]
  BY TruthStep DEF NothingFalse
<1>4. Promise!Ask(r) \/ Promise!Reject(r) \/ Promise!Resolve(r) \/ comp'[r] = comp[r]
  BY <1>2, <1>3 DEF Forward, Promise!Ask, Promise!Reject, Promise!Resolve
<1> QED
  BY <1>1, <1>4, RowMoves

(* Whatever happens to frames, connections and Hosts, a completion is      *)
(* given away once, settled at most once and resolved only with the end    *)
(* that the authority's row has, which stands.                             *)
THEOREM PromisesKept == Spec => KeepsPromises
<1>1. Init => TruthInv /\ Promise!PromiseInit
  BY TruthInit DEF Init, Promise!PromiseInit
<1>2. TruthInv /\ [Next]_vars => TruthInv'
  BY TruthStep, TruthKept
<1>3. TruthInv /\ [Next]_vars => [Promise!PromiseNext]_(Promise!promiseVars)
  BY PromiseStep
<1> QED
  BY <1>1, <1>2, <1>3, PTL DEF Spec, KeepsPromises, Promise!PromiseSpec

-----------------------------------------------------------------------------
(* Frames that leave no hole. *)

LEMMA CoversAppend ==
  ASSUME NEW q \in Seq(Frame), NEW f \in Frame, NEW h \in Nat
  PROVE  /\ \A n \in Nat : Covers(q, h, n) => Covers(Append(q, f), h, n)
         /\ \A n \in Nat : Numbers(f) /\ f.seq >= n => Covers(Append(q, f), h, n)
<1> DEFINE longer == Append(q, f)
<1>1. /\ Len(longer) = Len(q) + 1 /\ Len(q) \in Nat
      /\ \A i \in 1 .. Len(q) : longer[i] = q[i]
      /\ longer[Len(q) + 1] = f
  BY Appended
<1> HIDE DEF longer
<1>2. Len(q) + 1 \in 1 .. Len(longer) /\ \A i \in 1 .. Len(q) : i \in 1 .. Len(longer)
  BY <1>1
<1> QED
  BY <1>1, <1>2 DEF Covers, longer

LEMMA DenseAppend ==
  ASSUME NEW q \in Seq(Frame), NEW f \in Frame, NEW h \in Nat, NEW top \in Nat, NEW new \in Nat,
         Dense(q, h, top), h <= top, top <= new,
         Numbers(f) => f.seq <= new,
         f.kind = "event" => Covers(q, h, f.seq - 1),
         f.kind = "gap" => f.seq >= top
  PROVE  Dense(Append(q, f), h, new)
<1> DEFINE longer == Append(q, f)
<1>1. /\ Len(longer) = Len(q) + 1 /\ Len(q) \in Nat
      /\ \A i \in 1 .. Len(q) : longer[i] = q[i]
      /\ longer[Len(q) + 1] = f
  BY Appended
<1>2. \A i \in 1 .. Len(q) : Numbers(q[i]) => q[i].seq \in Nat
  BY ElementOfSeq DEF Frame, Answer, Numbers
<1>3. Numbers(f) => f.seq \in Nat
  BY DEF Frame, Answer, Numbers
<1> HIDE DEF longer
<1> SUFFICES ASSUME NEW i \in 1 .. Len(longer)
             PROVE  /\ longer[i].kind = "event" => CoversBefore(longer, h, longer[i].seq - 1, i)
                    /\ Numbers(longer[i]) => longer[i].seq <= new
                    /\ longer[i].kind = "gap" =>
                         /\ longer[i].seq >= h
                         /\ \A j \in 1 .. i - 1 : Numbers(longer[j]) => longer[j].seq <= longer[i].seq
  BY DEF Dense, longer
<1>4. CASE i \in 1 .. Len(q)
  <2>1. longer[i] = q[i]
    BY <1>1, <1>4
  <2>2. q[i].kind = "event" => CoversBefore(longer, h, q[i].seq - 1, i)
    <3>1. q[i].kind = "event" => CoversBefore(q, h, q[i].seq - 1, i)
      BY <1>4 DEF Dense
    <3>2. \A j \in 1 .. Len(q) : j \in 1 .. Len(longer) /\ longer[j] = q[j]
      BY <1>1
    <3> QED
      BY <3>1, <3>2 DEF CoversBefore
  <2>3. Numbers(q[i]) => q[i].seq <= new
    BY <1>2, <1>4 DEF Dense
  <2>4. q[i].kind = "gap" => /\ q[i].seq >= h
                             /\ \A j \in 1 .. i - 1 : Numbers(longer[j]) => longer[j].seq <= q[i].seq
    BY <1>1, <1>4 DEF Dense
  <2> QED
    BY <2>1, <2>2, <2>3, <2>4
<1>5. CASE i = Len(q) + 1
  <2>1. longer[i] = f
    BY <1>1, <1>5
  <2>2. f.kind = "event" => CoversBefore(longer, h, f.seq - 1, i)
    <3>1. \A j \in 1 .. Len(q) : j \in 1 .. Len(longer) /\ longer[j] = q[j] /\ j < i
      BY <1>1, <1>5
    <3> QED
      BY <3>1 DEF Covers, CoversBefore
  <2>3. f.kind = "gap" => /\ f.seq >= h
                          /\ \A j \in 1 .. i - 1 : Numbers(longer[j]) => longer[j].seq <= f.seq
    <3>1. \A j \in 1 .. Len(q) : Numbers(q[j]) => q[j].seq <= top
      BY DEF Dense
    <3>2. \A j \in 1 .. i - 1 : j \in 1 .. Len(q) /\ longer[j] = q[j]
      BY <1>1, <1>5
    <3>3. f.kind = "gap" => Numbers(f)
      BY DEF Numbers
    <3> QED
      BY <1>2, <1>3, <3>1, <3>2, <3>3
  <2> QED
    BY <2>1, <2>2, <2>3
<1> QED
  BY <1>1, <1>4, <1>5

\* The client has handled the head of q, and is then at g.
LEMMA DenseRest ==
  ASSUME NEW q \in Seq(Frame), q # <<>>, NEW h \in Nat, NEW g \in Nat, NEW top \in Nat,
         Dense(q, h, top),
         g >= h, Numbers(q[1]) => g >= q[1].seq,
         g = h \/ (Numbers(q[1]) /\ g = q[1].seq)
  PROVE  /\ Dense(Tail(q), g, top)
         /\ \A n \in Nat : Covers(q, h, n) => Covers(Tail(q), g, n)
<1> DEFINE t == Tail(q)
<1>1. /\ Len(t) = Len(q) - 1 /\ Len(q) \in Nat /\ Len(q) >= 1
      /\ \A i \in 1 .. Len(q) - 1 : t[i] = q[i + 1]
  BY Rest
<1>2. \A i \in 1 .. Len(q) : Numbers(q[i]) => q[i].seq \in Nat
  BY ElementOfSeq DEF Frame, Answer, Numbers
<1> HIDE DEF t
<1>3. ASSUME NEW n \in Int, NEW place \in Nat, place >= 1, CoversBefore(q, h, n, place + 1)
      PROVE  CoversBefore(t, g, n, place)
  <2>1. CASE n <= h
    BY <2>1 DEF CoversBefore
  <2>2. ASSUME NEW j \in 1 .. Len(q), j < place + 1, Numbers(q[j]), q[j].seq >= n
        PROVE  CoversBefore(t, g, n, place)
    <3>1. CASE j = 1
      BY <1>1, <1>2, <2>2, <3>1 DEF CoversBefore
    <3>2. CASE j # 1
      <4>1. j - 1 \in 1 .. Len(t) /\ t[j - 1] = q[j] /\ j - 1 < place
        BY <1>1, <2>2, <3>2
      <4> QED
        BY <2>2, <4>1 DEF CoversBefore
    <3> QED
      BY <3>1, <3>2
  <2> QED
    BY <1>3, <2>1, <2>2 DEF CoversBefore
<1>4. ASSUME NEW i \in 1 .. Len(t)
      PROVE  /\ t[i].kind = "event" => CoversBefore(t, g, t[i].seq - 1, i)
             /\ Numbers(t[i]) => t[i].seq <= top
             /\ t[i].kind = "gap" => /\ t[i].seq >= g
                                     /\ \A j \in 1 .. i - 1 : Numbers(t[j]) => t[j].seq <= t[i].seq
  <2>1. i + 1 \in 1 .. Len(q) /\ t[i] = q[i + 1] /\ i \in Nat /\ i >= 1
    BY <1>1
  <2>2. t[i].kind = "event" => CoversBefore(t, g, t[i].seq - 1, i)
    <3>1. t[i].kind = "event" => CoversBefore(q, h, t[i].seq - 1, i + 1) /\ Numbers(t[i])
      BY <2>1 DEF Dense, Numbers
    <3>2. Numbers(t[i]) => t[i].seq - 1 \in Int
      BY <1>2, <2>1
    <3> QED
      BY <1>3, <2>1, <3>1, <3>2
  <2>3. Numbers(t[i]) => t[i].seq <= top
    BY <2>1 DEF Dense
  <2>4. t[i].kind = "gap" => /\ t[i].seq >= g
                             /\ \A j \in 1 .. i - 1 : Numbers(t[j]) => t[j].seq <= t[i].seq
    <3> SUFFICES ASSUME t[i].kind = "gap"
                 PROVE  /\ t[i].seq >= g
                        /\ \A j \in 1 .. i - 1 : Numbers(t[j]) => t[j].seq <= t[i].seq
      OBVIOUS
    <3>1. /\ t[i].seq >= h
          /\ \A j \in 1 .. i : Numbers(q[j]) => q[j].seq <= t[i].seq
      BY <2>1 DEF Dense
    <3>2. 1 \in 1 .. i /\ \A j \in 1 .. i - 1 : j + 1 \in 1 .. i /\ t[j] = q[j + 1]
      BY <1>1, <2>1
    <3> QED
      BY <3>1, <3>2
  <2> QED
    BY <2>2, <2>3, <2>4
<1>5. ASSUME NEW n \in Nat, Covers(q, h, n) PROVE Covers(t, g, n)
  <2>1. CoversBefore(q, h, n, Len(q) + 1)
    BY <1>1, <1>5 DEF Covers, CoversBefore
  <2>2. CASE n <= h
    BY <2>2 DEF Covers
  <2>3. ASSUME NEW j \in 1 .. Len(q), Numbers(q[j]), q[j].seq >= n PROVE Covers(t, g, n)
    <3>1. CASE j = 1
      BY <1>1, <1>2, <2>3, <3>1 DEF Covers
    <3>2. CASE j # 1
      <4>1. j - 1 \in 1 .. Len(t) /\ t[j - 1] = q[j]
        BY <1>1, <2>3, <3>2
      <4> QED
        BY <2>3, <4>1 DEF Covers
    <3> QED
      BY <3>1, <3>2
  <2> QED
    BY <1>5, <2>2, <2>3 DEF Covers
<1> QED
  BY <1>4, <1>5 DEF Dense, t

\* Events that follow each other, the first of them at most one after n.
Follow(t, n, top) ==
  \A k \in 1 .. Len(t) : /\ t[k].kind = "event" /\ t[k].seq <= top
                         /\ k = 1 => t[k].seq <= n + 1
                         /\ k > 1 => t[k].seq = t[k - 1].seq + 1

LEMMA DenseConcat ==
  ASSUME NEW q \in Seq(Frame), NEW t \in Seq(Frame), NEW h \in Nat, NEW top \in Nat, NEW n \in Nat,
         Dense(q, h, top), Covers(q, h, n), Follow(t, n, top)
  PROVE  /\ Dense(q \o t, h, top)
         /\ \A m \in Nat : Covers(q, h, m) => Covers(q \o t, h, m)
         /\ Len(t) > 0 => \A m \in Nat : m <= t[Len(t)].seq => Covers(q \o t, h, m)
<1> DEFINE both == q \o t
<1>1. /\ Len(both) = Len(q) + Len(t) /\ Len(q) \in Nat /\ Len(t) \in Nat
      /\ \A i \in 1 .. Len(q) + Len(t) : both[i] = IF i <= Len(q) THEN q[i] ELSE t[i - Len(q)]
  BY ConcatProperties
<1> HIDE DEF both
<1>2. \A i \in 1 .. Len(q) : i \in 1 .. Len(both) /\ both[i] = q[i]
  BY <1>1
<1>3. ASSUME NEW k \in 1 .. Len(t) PROVE Len(q) + k \in 1 .. Len(both) /\ both[Len(q) + k] = t[k]
  <2>1. Len(q) + k \in 1 .. Len(q) + Len(t) /\ ~ (Len(q) + k <= Len(q)) /\ Len(q) + k - Len(q) = k
    BY <1>1
  <2> QED
    BY <1>1, <2>1
<1>4. \A k \in 1 .. Len(t) : t[k].kind = "event" /\ t[k].seq \in Nat /\ Numbers(t[k])
  BY ElementOfSeq DEF Follow, Frame, Answer, Numbers
<1>5. ASSUME NEW i \in 1 .. Len(both)
      PROVE  /\ both[i].kind = "event" => CoversBefore(both, h, both[i].seq - 1, i)
             /\ Numbers(both[i]) => both[i].seq <= top
             /\ both[i].kind = "gap" =>
                  /\ both[i].seq >= h
                  /\ \A j \in 1 .. i - 1 : Numbers(both[j]) => both[j].seq <= both[i].seq
  <2>1. CASE i \in 1 .. Len(q)
    <3>1. both[i] = q[i] /\ \A j \in 1 .. i - 1 : both[j] = q[j]
      BY <1>1, <1>2, <2>1
    <3>2. q[i].kind = "event" => CoversBefore(both, h, q[i].seq - 1, i)
      BY <1>2, <2>1 DEF Dense, CoversBefore
    <3> QED
      BY <2>1, <3>1, <3>2 DEF Dense
  <2>2. CASE i > Len(q)
    <3> DEFINE k == i - Len(q)
    <3>1. k \in 1 .. Len(t) /\ i = Len(q) + k
      BY <1>1, <2>2
    <3> HIDE DEF k
    <3>2. both[i] = t[k] /\ both[i].kind = "event" /\ both[i].seq <= top
      BY <1>3, <3>1 DEF Follow
    <3>3. CoversBefore(both, h, t[k].seq - 1, i)
      <4>1. CASE k = 1
        <5>1. t[k].seq - 1 <= n /\ t[k].seq \in Nat
          BY <1>4, <3>1, <4>1 DEF Follow
        <5>2. CASE n <= h
          BY <5>1, <5>2 DEF CoversBefore
        <5>3. ASSUME NEW j \in 1 .. Len(q), Numbers(q[j]), q[j].seq >= n
              PROVE  CoversBefore(both, h, t[k].seq - 1, i)
          <6>1. q[j].seq \in Nat
            BY <5>3, ElementOfSeq DEF Frame, Answer, Numbers
          <6>2. j \in 1 .. Len(both) /\ both[j] = q[j] /\ j < i
            BY <1>1, <1>2, <3>1
          <6>3. q[j].seq >= t[k].seq - 1
            BY <5>1, <5>3, <6>1
          <6> QED
            BY <5>3, <6>2, <6>3 DEF CoversBefore
        <5> QED
          BY <5>2, <5>3 DEF Covers
      <4>2. CASE k # 1
        <5>1. k - 1 \in 1 .. Len(t) /\ k > 1
          BY <3>1, <4>2, <1>1
        <5>2. t[k].seq = t[k - 1].seq + 1 /\ t[k - 1].seq \in Nat /\ Numbers(t[k - 1])
          BY <1>4, <3>1, <5>1 DEF Follow
        <5>3. Len(q) + (k - 1) \in 1 .. Len(both) /\ both[Len(q) + (k - 1)] = t[k - 1]
          BY <1>3, <5>1
        <5>4. Len(q) + (k - 1) < i
          BY <1>1, <3>1
        <5>5. t[k - 1].seq >= t[k].seq - 1
          BY <5>2
        <5> QED
          BY <5>2, <5>3, <5>4, <5>5 DEF CoversBefore
      <4> QED
        BY <4>1, <4>2
    <3> QED
      BY <3>2, <3>3
  <2> QED
    BY <1>1, <2>1, <2>2
<1>6. ASSUME NEW m \in Nat, Covers(q, h, m) PROVE Covers(both, h, m)
  BY <1>2, <1>6 DEF Covers
<1>7. ASSUME Len(t) > 0, NEW m \in Nat, m <= t[Len(t)].seq PROVE Covers(both, h, m)
  <2>1. Len(t) \in 1 .. Len(t)
    BY <1>1, <1>7
  <2>2. Len(q) + Len(t) \in 1 .. Len(both) /\ both[Len(q) + Len(t)] = t[Len(t)]
    BY <1>3, <2>1
  <2>3. t[Len(t)].seq >= m
    BY <1>4, <1>7, <2>1
  <2> QED
    BY <1>4, <2>1, <2>2, <2>3 DEF Covers
<1> QED
  BY <1>5, <1>6, <1>7 DEF Dense, both

\* What subscribeConnection() sends again follows what the client knew.
LEMMA MissedFollow ==
  ASSUME TypeOK, NEW base \in Nat, HistoryDense(base), NEW after \in Nat, after >= base, CanReplay(after)
  PROVE  /\ Follow(Missed(after), after, sequence)
         /\ \A k \in 1 .. Len(Missed(after)) : Missed(after)[k].seq >= base
         /\ Len(Missed(after)) = 0 => after >= sequence
         /\ Len(Missed(after)) > 0 => Missed(after)[Len(Missed(after))].seq = sequence
<1> DEFINE old == {i \in 1 .. Len(history) : history[i].seq <= after}
           skip == Cardinality(old)
<1>1. /\ Len(history) \in Nat /\ sequence \in Nat /\ base <= sequence
      /\ \A i \in 1 .. Len(history) : history[i].seq \in Nat
  <2>1. history \in Seq([seq : Nat, view : Shown])
    BY DEF TypeOK
  <2>2. \A i \in 1 .. Len(history) : history[i] \in [seq : Nat, view : Shown]
    BY <2>1, ElementOfSeq
  <2>3. Len(history) \in Nat
    BY <2>1
  <2> QED
    BY <2>2, <2>3 DEF TypeOK, HistoryDense
<1>q. \A i \in 1 .. Len(history) : IF i <= Len(history) - (sequence - base) THEN history[i].seq <= base
                                  ELSE history[i].seq = sequence - Len(history) + i
  BY DEF HistoryDense
<1>2. Missed(after) = [i \in 1 .. Len(history) - skip |->
                         [kind |-> "event", seq |-> history[skip + i].seq,
                          view |-> history[skip + i].view]]
  BY DEF Missed
<1>3. \A m \in Nat : Cardinality(1 .. m) = m
  <2> SUFFICES ASSUME NEW m \in Nat PROVE Cardinality(1 .. m) = m
    OBVIOUS
  <2>1. Cardinality(1 .. m) = IF 1 > m THEN 0 ELSE m - 1 + 1
    <3>1. 1 \in Int /\ m \in Int
      OBVIOUS
    <3> QED
      BY <3>1, FS_Interval
  <2> QED
    BY <2>1
<1>4. CASE after >= sequence
  <2>1. old = 1 .. Len(history)
    <3>1. ASSUME NEW i \in 1 .. Len(history) PROVE history[i].seq <= after
      BY <1>1, <1>4, <1>q
    <3> QED
      BY <3>1
  <2>2. skip = Len(history)
    BY <1>1, <1>3, <2>1
  <2> HIDE DEF skip
  <2>3. Len(Missed(after)) = 0
    BY <1>1, <1>2, <2>2
  <2> QED
    BY <1>4, <2>3 DEF Follow
<1>5. CASE after < sequence
  <2>1. /\ Len(history) >= 1 /\ after >= sequence - Len(history)
    <3>1. history # <<>> /\ after >= history[1].seq - 1
      BY <1>1, <1>5 DEF CanReplay
    <3>2. Len(history) >= 1
      BY <1>1, <3>1 DEF TypeOK
    <3> QED
      <4>1. 1 \in 1 .. Len(history)
        BY <1>1, <3>2
      <4>2. CASE 1 <= Len(history) - (sequence - base)
        BY <1>1, <3>2, <4>2
      <4>3. CASE ~ (1 <= Len(history) - (sequence - base))
        BY <1>1, <1>q, <3>1, <3>2, <4>1, <4>3
      <4> QED
        BY <4>2, <4>3
  <2> DEFINE m == after - sequence + Len(history)
  <2>2. old = 1 .. m /\ m \in Nat
    <3>1. m \in Nat /\ m <= Len(history) /\ m \in Int
      BY <1>1, <1>5, <2>1
    <3>2. ASSUME NEW i \in 1 .. Len(history) PROVE history[i].seq <= after <=> i <= m
      <4>1. CASE i <= Len(history) - (sequence - base)
        BY <1>1, <1>q, <4>1
      <4>2. CASE ~ (i <= Len(history) - (sequence - base))
        BY <1>1, <1>q, <4>2
      <4> QED
        BY <4>1, <4>2
    <3> HIDE DEF m
    <3> QED
      BY <1>1, <3>1, <3>2
  <2>3. skip = m /\ skip \in Nat
    <3> HIDE DEF m
    <3> QED
      BY <1>3, <2>2
  <2> HIDE DEF skip
  <2>4. Len(history) - skip = sequence - after /\ sequence - after \in Nat /\ sequence - after > 0
    BY <1>1, <1>5, <2>3
  <2>5. Len(Missed(after)) = sequence - after
    BY <1>2, <2>4
  <2>6. ASSUME NEW k \in 1 .. sequence - after
        PROVE  Missed(after)[k].kind = "event" /\ Missed(after)[k].seq = after + k
    <3>1. skip + k \in 1 .. Len(history)
      BY <1>1, <2>3, <2>4
    <3>2. history[skip + k].seq = after + k
      <4>1. ~ (skip + k <= Len(history) - (sequence - base))
        BY <1>1, <2>3, <2>4
      <4> QED
        BY <1>1, <1>q, <2>3, <3>1, <4>1
    <3> QED
      BY <1>2, <2>4, <3>2
  <2>7. Follow(Missed(after), after, sequence)
    <3> DEFINE t == Missed(after)
    <3> HIDE DEF t
    <3>1. ASSUME NEW k \in 1 .. Len(t)
          PROVE  /\ t[k].kind = "event" /\ t[k].seq <= sequence
                 /\ k = 1 => t[k].seq <= after + 1
                 /\ k > 1 => t[k].seq = t[k - 1].seq + 1
      <4>1. k \in 1 .. sequence - after /\ t[k].kind = "event" /\ t[k].seq = after + k
        BY <2>5, <2>6 DEF t
      <4>2. k > 1 => k - 1 \in 1 .. sequence - after
        BY <2>4, <4>1
      <4>3. k > 1 => t[k - 1].seq = after + (k - 1)
        BY <2>6, <4>2 DEF t
      <4> QED
        BY <1>1, <4>1, <4>3
    <3> QED
      BY <3>1 DEF Follow, t
  <2>8. Missed(after)[sequence - after].seq = sequence
    BY <1>1, <2>4, <2>6
  <2>9. \A k \in 1 .. Len(Missed(after)) : Missed(after)[k].seq >= base
    BY <1>1, <2>4, <2>5, <2>6
  <2> QED
    BY <2>4, <2>5, <2>7, <2>8, <2>9
<1> QED
  BY <1>1, <1>4, <1>5

LEMMA NewestDense ==
  ASSUME TypeOK, NEW base \in Nat, HistoryDense(base), NEW shown \in Shown,
         sequence' = sequence + 1,
         history' = Newest(Append(history, [seq |-> sequence + 1, view |-> shown]))
  PROVE  HistoryDense(base)'
<1> DEFINE item == [seq |-> sequence + 1, view |-> shown]
           longer == Append(history, item)
<1>1. Len(history) \in Nat /\ sequence \in Nat /\ base <= sequence
  BY DEF TypeOK, HistoryDense
<1> DEFINE Fits(e, i, n) == IF i <= n - (sequence + 1 - base) THEN e.seq <= base
                            ELSE e.seq = sequence + 1 - n + i
<1>2. /\ Len(longer) = Len(history) + 1
      /\ \A i \in 1 .. Len(history) : longer[i] = history[i]
      /\ longer[Len(history) + 1] = item
  <2>1. item \in [seq : Nat, view : Shown]
    BY <1>1
  <2> QED
    BY <2>1, Appended DEF TypeOK
<1> HIDE DEF longer
<1>3. ASSUME NEW i \in 1 .. Len(longer) PROVE Fits(longer[i], i, Len(longer))
  <2>1. CASE i \in 1 .. Len(history)
    <3>1. longer[i] = history[i] /\ IF i <= Len(history) - (sequence - base) THEN history[i].seq <= base
                                    ELSE history[i].seq = sequence - Len(history) + i
      BY <1>2, <2>1 DEF HistoryDense
    <3> QED
      BY <1>1, <1>2, <2>1, <3>1
  <2>2. CASE i = Len(history) + 1
    BY <1>1, <1>2, <2>2
  <2> QED
    BY <1>1, <1>2, <2>1, <2>2
<1>4. CASE Len(longer) > HistoryLimit
  <2> DEFINE m == Len(longer) - HistoryLimit + 1
  <2>1. m \in Int /\ Len(longer) \in Int /\ m <= Len(longer) /\ m >= 1 /\ HistoryLimit \in Nat
        /\ Len(longer) - m + 1 = HistoryLimit
    BY <1>1, <1>2, <1>4, BoundAssumption
  <2>2. history' = SubSeq(longer, m, Len(longer))
    BY <1>4 DEF Newest, longer
  <2> HIDE DEF m
  <2>3. /\ Len(history') = HistoryLimit
        /\ \A i \in 1 .. HistoryLimit : history'[i] = longer[m + i - 1]
    <3>1. \A i \in m .. Len(longer) : longer[i] \in {longer[j] : j \in m .. Len(longer)}
      OBVIOUS
    <3>2. /\ Len(SubSeq(longer, m, Len(longer))) = IF m <= Len(longer) THEN Len(longer) - m + 1 ELSE 0
          /\ \A i \in 1 .. Len(longer) - m + 1 : SubSeq(longer, m, Len(longer))[i] = longer[m + i - 1]
      BY <2>1, <3>1, SubSeqProperties
    <3> QED
      BY <2>1, <2>2, <3>2
  <2>4. \A i \in 1 .. HistoryLimit : m + i - 1 \in 1 .. Len(longer)
    BY <2>1
  <2>5. ASSUME NEW i \in 1 .. HistoryLimit
        PROVE  Fits(history'[i], i, HistoryLimit)
    <3>1. Fits(longer[m + i - 1], m + i - 1, Len(longer))
      BY <1>3, <2>4
    <3>2. history'[i] = longer[m + i - 1]
      BY <2>3
    <3>3. /\ sequence + 1 - Len(longer) + (m + i - 1) = sequence + 1 - HistoryLimit + i
          /\ (m + i - 1 <= Len(longer) - (sequence + 1 - base)) <=> (i <= HistoryLimit - (sequence + 1 - base))
      <4>1. i \in Int /\ sequence \in Int
        BY <1>1, <2>1
      <4> QED
        BY <2>1, <4>1
    <3> QED
      BY <3>1, <3>2, <3>3
  <2> QED
    <3>1. ASSUME NEW i \in 1 .. Len(history') PROVE Fits(history'[i], i, Len(history'))
      <4>1. i \in 1 .. HistoryLimit /\ Len(history') = HistoryLimit
        BY <2>3
      <4> QED
        BY <2>5, <4>1
    <3> QED
      BY <1>1, <3>1 DEF HistoryDense
<1>5. CASE ~ (Len(longer) > HistoryLimit)
  <2>1. history' = longer
    BY <1>5 DEF Newest, longer
  <2>2. ASSUME NEW i \in 1 .. Len(history') PROVE Fits(history'[i], i, Len(history'))
    BY <1>3, <2>1
  <2> QED
    BY <1>1, <2>2 DEF HistoryDense
<1> QED
  BY <1>4, <1>5

-----------------------------------------------------------------------------
(* No event is passed over in silence. *)

\* What a step does to the frames: no hole, and the client is told of what
\* it was told of before.
FramesKept ==
  /\ Dense(toClient', heard', sequence')
  /\ \A n \in Nat : Covers(toClient, heard, n) => Covers(toClient', heard', n)

\* What a step adds to the numbers that the client may ask from.
AsksNew(base) ==
  /\ subscribed' => (subscribed /\ sequence' = sequence) \/ Covers(toClient', heard', sequence')
  /\ link' = "ready" => \/ (link = "ready" /\ known' = known)
                         \/ (Covers(toClient', heard', known') /\ known' >= base)
  /\ \A q \in Elements(toHost') \cup Elements(queryLane') :
        q.op = "subscribe" => \/ q \in Elements(toHost) \cup Elements(queryLane)
                              \/ (Covers(toClient', heard', q.after) /\ q.after >= base)
  /\ \A q \in Elements(outbox') : q \in Elements(outbox) \/ q.op \in {"submit", "inspect"}
  /\ \A f \in Elements(answers') \cup Elements(toClient') :
        f.kind = "snapshot" => \/ f \in Elements(answers) \cup Elements(toClient)
                               \/ (Covers(toClient', heard', f.seq) /\ f.seq >= base)
  /\ \A f \in Elements(toClient') : Numbers(f) => f \in Elements(toClient) \/ f.seq >= base
  /\ \A a \in Attempt : stage'[a] = "answered" =>
        \/ stage[a] = "answered" /\ got'[a] = got[a]
        \/ got'[a] \in Elements(toClient) /\ got'[a].kind = "snapshot"

LEMMA ElementsTyped ==
  ASSUME NEW S, NEW q \in Seq(S)
  PROVE  Elements(q) \subseteq S
BY ElementOfSeq DEF Elements

LEMMA SequencesTyped ==
  ASSUME TypeInv
  PROVE  /\ Elements(toHost) \subseteq Request /\ Elements(queryLane) \subseteq Query
         /\ Elements(outbox) \subseteq Request
         /\ Elements(answers) \subseteq Answer /\ Elements(toClient) \subseteq Frame
BY ElementsTyped DEF TypeInv, TypeOK

LEMMA HoleKept ==
  ASSUME NEW base \in Nat, HoleInv(base), [Next]_vars, FramesKept, AsksNew(base), HistoryDense(base)', Greets'
  PROVE  HoleInv(base)'
<1>1. TypeInv /\ TypeInv'
  BY TypeStep DEF HoleInv
<1>2. FramesDense'
  BY DEF FramesKept, FramesDense
<1>3. sequence \in Nat /\ known \in Nat
  BY <1>1 DEF TypeInv, TypeOK
<1>4. \A q \in Elements(toHost) \cup Elements(queryLane) : q.op = "subscribe" => q.after \in Nat
  BY <1>1, SequencesTyped DEF Request, Query, SubmitRequest
<1>5. \A f \in Elements(answers) \cup Elements(toClient) : f.kind = "snapshot" => f.seq \in Nat
  BY <1>1, SequencesTyped DEF Frame, Answer
<1>6. subscribed' => Covers(toClient', heard', sequence')
  BY <1>3 DEF HoleInv, AsksFromTold, FramesKept, AsksNew
<1>7. link' = "ready" => Covers(toClient', heard', known')
  BY <1>3 DEF HoleInv, AsksFromTold, FramesKept, AsksNew
<1>8. \A q \in Elements(toHost') \cup Elements(queryLane') :
        q.op = "subscribe" => Covers(toClient', heard', q.after)
  BY <1>4 DEF HoleInv, AsksFromTold, FramesKept, AsksNew
<1>9. \A q \in Elements(outbox') : q.op \in {"submit", "inspect"}
  BY DEF HoleInv, AsksFromTold, AsksNew
<1>10. \A f \in Elements(answers') \cup Elements(toClient') :
        f.kind = "snapshot" => Covers(toClient', heard', f.seq)
  BY <1>5 DEF HoleInv, AsksFromTold, FramesKept, AsksNew
<1>11. ASSUME NEW a \in Attempt, stage'[a] = "answered" PROVE Covers(toClient', heard', got'[a].seq)
  <2>1. CASE stage[a] = "answered" /\ got'[a] = got[a]
    <3>1. got[a].seq \in Nat
      BY <1>1, <2>1 DEF TypeInv, AnswersKept, Answer
    <3> QED
      BY <2>1, <3>1 DEF HoleInv, AsksFromTold, FramesKept
  <2>2. CASE got'[a] \in Elements(toClient) /\ got'[a].kind = "snapshot"
    BY <1>5, <2>2 DEF HoleInv, AsksFromTold, FramesKept
  <2> QED
    BY <1>11, <2>1, <2>2 DEF AsksNew
<1>12. AsksFromTold'
  BY <1>6, <1>7, <1>8, <1>9, <1>10, <1>11 DEF AsksFromTold
<1>13. AsksAbove(base)'
  <2>1. link' = "ready" => known' >= base
    BY DEF HoleInv, AsksAbove, AsksNew
  <2>2. \A q \in Elements(toHost') \cup Elements(queryLane') : q.op = "subscribe" => q.after >= base
    BY DEF HoleInv, AsksAbove, AsksNew
  <2>3. ASSUME NEW f \in Elements(answers') \cup Elements(toClient'), Numbers(f) \/ f.kind = "snapshot"
        PROVE  f.seq >= base
    <3>1. CASE f.kind = "snapshot"
      BY <2>3, <3>1 DEF HoleInv, AsksAbove, AsksNew
    <3>2. CASE f \in Elements(toClient') /\ Numbers(f)
      BY <2>3, <3>2 DEF HoleInv, AsksAbove, AsksNew
    <3>3. CASE f \in Elements(answers') /\ Numbers(f)
      <4>1. f \in Answer
        BY <1>1, <3>3, ElementsTyped DEF TypeInv, TypeOK
      <4> QED
        BY <3>3, <4>1 DEF Answer, Numbers
    <3> QED
      BY <2>3, <3>1, <3>2, <3>3
  <2>4. ASSUME NEW a \in Attempt, stage'[a] = "answered" PROVE got'[a].seq >= base
    BY <2>4 DEF HoleInv, AsksAbove, AsksNew
  <2> QED
    BY <2>1, <2>2, <2>3, <2>4 DEF AsksAbove, Numbers
<1> QED
  BY <1>1, <1>2, <1>12, <1>13 DEF HoleInv

\* A step that leaves events and frames alone.
LEMMA Still ==
  ASSUME NEW base \in Nat, HoleInv(base), UNCHANGED <<sequence, history, toClient, heard>>
  PROVE  FramesKept /\ HistoryDense(base)'
<1>1. FramesKept
  BY DEF HoleInv, FramesDense, FramesKept
<1>2. HistoryDense(base)'
  BY DEF HoleInv, HistoryDense
<1> QED
  BY <1>1, <1>2

\* A frame is added that neither numbers nor is a hello answer.
LEMMA SentKept ==
  ASSUME NEW base \in Nat, HoleInv(base), NEW f \in Frame, ~ Numbers(f), toClient' = Append(toClient, f),
         UNCHANGED <<sequence, history, heard>>
  PROVE  /\ FramesKept /\ HistoryDense(base)'
         /\ Elements(toClient') = Elements(toClient) \cup {f}
<1>1. /\ toClient \in Seq(Frame) /\ heard \in Nat /\ sequence \in Nat /\ heard <= sequence
      /\ Dense(toClient, heard, sequence)
  BY DEF HoleInv, TypeInv, TypeOK, Greets, FramesDense
<1>2. f.kind # "event" /\ f.kind # "gap"
  BY DEF Numbers
<1>3. Dense(Append(toClient, f), heard, sequence)
  BY <1>1, <1>2, DenseAppend
<1>4. \A n \in Nat : Covers(toClient, heard, n) => Covers(Append(toClient, f), heard, n)
  BY <1>1, CoversAppend
<1>5. Elements(Append(toClient, f)) = Elements(toClient) \cup {f}
  BY <1>1, ElementsAppend
<1>6. HistoryDense(base)'
  BY DEF HoleInv, HistoryDense
<1> QED
  BY <1>3, <1>4, <1>5, <1>6 DEF FramesKept

\* An event is published.
LEMMA PublishKept ==
  ASSUME NEW base \in Nat, HoleInv(base), NEW shown \in Shown, sequence' = sequence + 1,
         toClient' = IF subscribed
                     THEN Append(toClient, [kind |-> "event", seq |-> sequence + 1, view |-> shown])
                     ELSE toClient,
         UNCHANGED <<heard, link, subscribed, known, toHost, queryLane, outbox, answers, runLane,
                     stage, got>>
  PROVE  FramesKept /\ AsksNew(base) /\ Greets'
<1> DEFINE f == [kind |-> "event", seq |-> sequence + 1, view |-> shown]
<1>1. /\ toClient \in Seq(Frame) /\ heard \in Nat /\ sequence \in Nat /\ heard <= sequence
      /\ Dense(toClient, heard, sequence) /\ base <= sequence
  BY DEF HoleInv, TypeInv, TypeOK, Greets, FramesDense, HistoryDense
<1>2. /\ f \in Frame /\ f.kind = "event" /\ f.seq = sequence + 1 /\ Numbers(f)
      /\ f.seq >= base
  BY <1>1 DEF Frame, Numbers
<1>3. CASE subscribed
  <2>1. Covers(toClient, heard, sequence)
    BY <1>3 DEF HoleInv, AsksFromTold
  <2>2. toClient' = Append(toClient, f)
    BY <1>3
  <2> HIDE DEF f
  <2>3. Covers(toClient, heard, f.seq - 1)
    BY <1>1, <1>2, <2>1
  <2>4. Dense(Append(toClient, f), heard, sequence + 1)
    <3>1. sequence + 1 \in Nat /\ sequence <= sequence + 1 /\ f.seq <= sequence + 1 /\ f.kind # "gap"
      BY <1>1, <1>2
    <3> QED
      BY <1>1, <1>2, <2>3, <3>1, DenseAppend
  <2>5. /\ \A n \in Nat : Covers(toClient, heard, n) => Covers(Append(toClient, f), heard, n)
        /\ Covers(Append(toClient, f), heard, sequence + 1)
    <3>1. sequence + 1 \in Nat /\ f.seq >= sequence + 1
      BY <1>1, <1>2
    <3> QED
      BY <1>1, <1>2, <3>1, CoversAppend
  <2>6. Elements(toClient') = Elements(toClient) \cup {f}
    BY <1>1, <1>2, <2>2, ElementsAppend
  <2>7. FramesKept
    BY <2>2, <2>4, <2>5 DEF FramesKept
  <2>8. AsksNew(base)
    BY <1>2, <2>2, <2>5, <2>6 DEF AsksNew
  <2>9. Greets'
    <3>1. link = "ready"
      BY <1>3 DEF HoleInv, Greets
    <3>2. heard <= sequence + 1
      BY <1>1
    <3> QED
      BY <1>2, <2>6, <3>1, <3>2 DEF HoleInv, Greets
  <2> QED
    BY <2>7, <2>8, <2>9
<1>4. CASE ~ subscribed
  <2>1. toClient' = toClient
    BY <1>4
  <2>2. Dense(toClient, heard, sequence + 1)
    <3>1. \A i \in 1 .. Len(toClient) : Numbers(toClient[i]) => toClient[i].seq \in Nat
      BY <1>1, ElementOfSeq DEF Frame, Answer, Numbers
    <3> QED
      BY <1>1, <3>1 DEF Dense
  <2>3. FramesKept
    BY <2>1, <2>2 DEF FramesKept
  <2>4. AsksNew(base)
    BY <1>4, <2>1 DEF AsksNew
  <2>5. Greets'
    <3>1. heard <= sequence + 1
      BY <1>1
    <3> QED
      BY <2>1, <3>1 DEF HoleInv, Greets
  <2> QED
    BY <2>3, <2>4, <2>5
<1> QED
  BY <1>3, <1>4

\* The first frame is handled.
LEMMA HandledKept ==
  ASSUME NEW base \in Nat, HoleInv(base), toClient # <<>>, toClient' = Tail(toClient), heard' \in Nat,
         UNCHANGED <<sequence, history>>,
         heard' >= heard, Numbers(toClient[1]) => heard' >= toClient[1].seq,
         heard' = heard \/ (Numbers(toClient[1]) /\ heard' = toClient[1].seq)
  PROVE  /\ FramesKept /\ HistoryDense(base)'
         /\ Elements(toClient') \subseteq Elements(toClient)
         /\ heard' <= sequence
<1>1. /\ toClient \in Seq(Frame) /\ heard \in Nat /\ sequence \in Nat /\ heard <= sequence
      /\ Dense(toClient, heard, sequence)
  BY DEF HoleInv, TypeInv, TypeOK, Greets, FramesDense
<1>2. /\ Dense(Tail(toClient), heard', sequence)
      /\ \A n \in Nat : Covers(toClient, heard, n) => Covers(Tail(toClient), heard', n)
  BY <1>1, DenseRest
<1>3. Elements(Tail(toClient)) \subseteq Elements(toClient)
  BY <1>1, ElementsRest
<1>4. heard' <= sequence
  <2>1. 1 \in 1 .. Len(toClient)
    BY <1>1
  <2> QED
    BY <1>1, <2>1 DEF Dense
<1>5. HistoryDense(base)'
  BY DEF HoleInv, HistoryDense
<1> QED
  BY <1>2, <1>3, <1>4, <1>5 DEF FramesKept

LEMMA OpenKept ==
  ASSUME NEW base \in Nat, HoleInv(base), OpenSocket,
         UNCHANGED <<sequence, heard, subscribed, queryLane, answers, runLane>>,
         link = "down" \/ outbox' = outbox
  PROVE  /\ toClient' = toClient
         /\ link' = "ready" => link = "ready"
         /\ \A q \in Elements(toHost') : q.op = "subscribe" => q \in Elements(toHost)
         /\ Greets'
<1>1. CASE link = "down"
  <2>1. toClient = <<>> /\ toClient' = <<>> /\ link' = "opening" /\ toHost' = <<[op |-> "hello"]>>
    BY <1>1 DEF HoleInv, Greets, OpenSocket
  <2>2. \A q \in Elements(toHost') : q.op = "hello"
    BY <2>1 DEF Elements
  <2>3. Greets'
    BY <1>1, <2>1 DEF HoleInv, Greets
  <2> QED
    BY <2>1, <2>2, <2>3
<1>2. CASE link # "down"
  <2>1. UNCHANGED <<link, toHost, toClient>>
    BY <1>2 DEF OpenSocket
  <2>2. Greets'
    BY <1>2, <2>1 DEF HoleInv, Greets
  <2> QED
    BY <2>1, <2>2
<1> QED
  BY <1>1, <1>2

LEMMA AskKept ==
  ASSUME NEW base \in Nat, HoleInv(base), NEW q \in Request, Ask(q),
         UNCHANGED <<sequence, heard, subscribed, queryLane, answers, runLane>>,
         \/ q.op \in {"submit", "inspect"}
         \/ q.op = "subscribe" /\ link = "ready" /\ Covers(toClient, heard, q.after) /\ q.after >= base
  PROVE  /\ toClient' = toClient
         /\ link' = "ready" => link = "ready"
         /\ \A p \in Elements(toHost') :
               p.op = "subscribe" => \/ p \in Elements(toHost)
                                     \/ (Covers(toClient, heard, p.after) /\ p.after >= base)
         /\ \A p \in Elements(outbox') : p \in Elements(outbox) \/ p.op \in {"submit", "inspect"}
         /\ Greets'
<1>1. toHost \in Seq(Request) /\ outbox \in Seq(Request)
  BY DEF HoleInv, TypeInv, TypeOK
<1>2. CASE link = "ready"
  <2>1. /\ toHost' = Append(toHost, q) /\ UNCHANGED <<toClient, link, outbox>>
    BY <1>2 DEF Ask
  <2>2. Elements(toHost') = Elements(toHost) \cup {q}
    BY <1>1, <2>1, ElementsAppend
  <2>3. Greets'
    BY <1>2, <2>1, <2>2 DEF HoleInv, Greets
  <2> QED
    BY <1>2, <2>1, <2>2, <2>3
<1>3. CASE link # "ready"
  <2>1. OpenSocket /\ outbox' = Append(outbox, q)
    BY <1>3 DEF Ask
  <2>2. Elements(outbox') = Elements(outbox) \cup {q}
    BY <1>1, <2>1, ElementsAppend
  <2>3. CASE link = "down"
    BY <1>3, <2>1, <2>2, <2>3, OpenKept
  <2>4. CASE link = "opening"
    <3>1. UNCHANGED <<link, toHost, toClient>>
      BY <2>1, <2>4 DEF OpenSocket
    <3>2. Greets'
      BY <2>4, <3>1 DEF HoleInv, Greets
    <3> QED
      BY <1>3, <2>2, <3>1, <3>2
  <2>5. link \in {"down", "opening"}
    BY <1>3 DEF HoleInv, TypeInv, TypeOK
  <2> QED
    BY <2>3, <2>4, <2>5
<1> QED
  BY <1>2, <1>3

\* All that was under way is lost.
LEMMA LostKept ==
  ASSUME NEW base \in Nat, HoleInv(base), Calm, Disconnected, sequence' \in Nat,
         queryLane' = <<>>, answers' = <<>>, subscribed' = FALSE,
         \A x \in Elements(runLane') : ~ x.live
  PROVE  /\ Dense(toClient', heard', sequence') /\ AsksFromTold' /\ Greets'
         /\ \A b : AsksAbove(b)'
<1>1. /\ toHost' = <<>> /\ toClient' = <<>> /\ outbox' = <<>> /\ link' = "down" /\ heard' = 0
      /\ \A a \in Attempt : stage'[a] # "answered"
  BY DEF Disconnected, Calm, Due
<1>2. Dense(toClient', heard', sequence')
  BY <1>1 DEF Dense
<1>3. AsksFromTold'
  BY <1>1, NoElements DEF AsksFromTold
<1>4. Greets'
  BY <1>1 DEF Greets
<1>5. ASSUME NEW b PROVE AsksAbove(b)'
  BY <1>1, NoElements DEF AsksAbove
<1> QED
  BY <1>2, <1>3, <1>4, <1>5

LEMMA HoleStep ==
  ASSUME NEW base \in Nat, HoleInv(base), [Next]_vars
  PROVE  \E b \in Nat : HoleInv(b)'
<1>0. /\ TypeInv /\ TypeInv' /\ HistoryDense(base) /\ Greets
      /\ sequence \in Nat /\ base <= sequence
  BY TypeStep DEF HoleInv, TypeInv, TypeOK, HistoryDense
<1>t. TypeOK
  BY <1>0 DEF TypeInv
<1>s. NoRun \in Shown /\ \A r \in Run : r \in Shown
  BY DEF Shown
<1>1. ASSUME NEW shown \in Shown, Publish(shown),
             UNCHANGED <<heard, link, subscribed, known, toHost, queryLane, outbox, answers, runLane,
                         stage, got>>
      PROVE  HoleInv(base)'
  <2>1. FramesKept /\ AsksNew(base) /\ Greets'
    BY <1>1, PublishKept DEF Publish
  <2>2. HistoryDense(base)'
    BY <1>0, <1>t, <1>1, NewestDense DEF Publish
  <2> QED
    BY <2>1, <2>2, HoleKept
<1>2. ASSUME NEW r \in Run, StartRun(r) \/ Progress(r) \/ AnnounceEnd(r) PROVE HoleInv(base)'
  BY <1>1, <1>2, <1>s DEF StartRun, Progress, AnnounceEnd
<1>3. ASSUME NEW r \in Run, EndRun(r) PROVE HoleInv(base)'
  <2>1. FramesKept /\ HistoryDense(base)'
    BY <1>3, Still DEF EndRun, Silent
  <2>2. AsksNew(base) /\ Greets'
    BY <1>3, <1>0 DEF EndRun, Silent, AsksNew, Greets
  <2> QED
    BY <2>1, <2>2, HoleKept
<1>h. ASSUME NEW r \in Run, Hush(r) PROVE HoleInv(base)'
  <2>1. FramesKept /\ HistoryDense(base)'
    BY <1>h, Still DEF Hush, Silent
  <2>2. AsksNew(base) /\ Greets'
    BY <1>h, <1>0 DEF Hush, Silent, AsksNew, Greets
  <2> QED
    BY <2>1, <2>2, HoleKept
<1>4. ASSUME NEW r \in Run, Broadcast(r) PROVE HoleInv(base)'
  <2> DEFINE f == [kind |-> "completion", run |-> r, outcome |-> row[r]]
  <2>1. f \in Frame /\ ~ Numbers(f) /\ f.kind # "snapshot" /\ f.kind # "welcome"
    BY <1>4, <1>0 DEF Broadcast, Moves, TypeInv, RowsFollow, Frame, Numbers
  <2>2. CASE subscribed
    <3>1. toClient' = Append(toClient, f) /\ UNCHANGED <<sequence, history, heard>>
      BY <1>4, <2>2 DEF Broadcast
    <3> HIDE DEF f
    <3>2. FramesKept /\ HistoryDense(base)' /\ Elements(toClient') = Elements(toClient) \cup {f}
      BY <2>1, <3>1, SentKept
    <3>3. AsksNew(base)
      BY <1>4, <2>1, <3>2 DEF Broadcast, AsksNew
    <3>4. link = "ready"
      BY <1>0, <2>2 DEF Greets
    <3>5. Greets'
      BY <1>4, <1>0, <2>1, <3>2, <3>4 DEF Broadcast, Greets
    <3> QED
      BY <3>2, <3>3, <3>5, HoleKept
  <2>3. CASE ~ subscribed
    <3>1. UNCHANGED <<sequence, history, toClient, heard>>
      BY <1>4, <2>3 DEF Broadcast
    <3>2. AsksNew(base) /\ Greets'
      BY <1>4, <1>0, <3>1 DEF Broadcast, AsksNew, Greets
    <3> QED
      BY <3>1, <3>2, Still, HoleKept
  <2> QED
    BY <2>2, <2>3
<1>5. ASSUME Rebuild PROVE HoleInv(base)'
  <2>1. FramesKept /\ AsksNew(base) /\ Greets'
    BY <1>5, <1>s, PublishKept DEF Rebuild
  <2>2. HistoryDense(base)'
    <3>1. history' = <<[seq |-> sequence + 1, view |-> NoRun]>> /\ sequence' = sequence + 1
      BY <1>5 DEF Rebuild
    <3>2. sequence \in Nat
      BY <1>t DEF TypeOK
    <3>3. history'[1].seq = sequence' - Len(history') + 1 /\ Len(history') = 1
      BY <3>1, <3>2
    <3> QED
      BY <1>0, <3>1, <3>2, <3>3 DEF HistoryDense
  <2> QED
    BY <2>1, <2>2, HoleKept
<1>6. ASSUME HostReads PROVE HoleInv(base)'
  <2> DEFINE q == Head(toHost)
  <2>1. /\ toHost \in Seq(Request) /\ toHost # <<>> /\ toHost' = Tail(toHost)
        /\ q = toHost[1] /\ q \in Elements(toHost) /\ Elements(toHost') \subseteq Elements(toHost)
    <3>1. toHost \in Seq(Request) /\ toHost # <<>> /\ toHost' = Tail(toHost)
      BY <1>6, <1>t DEF HostReads, TypeOK
    <3> QED
      BY <3>1, ElementsRest, Rest
  <2>2. link # "down"
    BY <1>0, <2>1 DEF Greets
  <2>3. CASE q.op = "hello"
    <3>1. link = "opening" /\ toHost = <<[op |-> "hello"]>> /\ toClient = <<>> /\ heard = 0
      BY <1>0, <1>t, <2>1, <2>2, <2>3 DEF Greets, TypeOK
    <3> DEFINE f == [kind |-> "welcome", seq |-> sequence, host |-> host]
    <3>2. /\ toClient' = Append(toClient, f)
          /\ UNCHANGED <<sequence, heard, history, runLane, queryLane, answers, subscribed, link,
                         outbox, known, stage, got>>
      BY <1>6, <2>3 DEF HostReads
    <3>3. f \in Frame /\ f.kind = "welcome" /\ f.seq = sequence /\ sequence \in Nat /\ heard \in Nat
          /\ toClient \in Seq(Frame)
      BY <1>t DEF Frame, TypeOK
    <3> HIDE DEF f
    <3>4. FramesKept
      <4>1. Dense(toClient, heard, sequence) /\ heard <= sequence
        BY DEF HoleInv, FramesDense, Greets
      <4>2. Dense(Append(toClient, f), heard, sequence)
        BY <3>3, <4>1, DenseAppend
      <4>3. \A n \in Nat : Covers(toClient, heard, n) => Covers(Append(toClient, f), heard, n)
        BY <3>3, CoversAppend
      <4> QED
        BY <3>2, <4>2, <4>3 DEF FramesKept
    <3>5. toHost' = <<>> /\ toClient' = <<f>>
      BY <2>1, <3>1, <3>2
    <3>6. Elements(toClient') = {f}
      BY <3>5 DEF Elements
    <3>7. AsksNew(base)
      BY <1>0, <2>1, <3>1, <3>2, <3>3, <3>6 DEF AsksNew
    <3>8. Greets'
      BY <1>0, <3>1, <3>2, <3>3, <3>5 DEF Greets
    <3>9. HistoryDense(base)'
      BY <1>0, <3>2 DEF HistoryDense
    <3> QED
      BY <3>4, <3>7, <3>8, <3>9, HoleKept
  <2>4. CASE q.op # "hello"
    <3>1. link = "ready"
      BY <1>0, <1>t, <2>1, <2>2, <2>4 DEF Greets, TypeOK
    <3>2. UNCHANGED <<sequence, history, toClient, heard, answers, subscribed, link, outbox, known,
                      stage, got>>
      BY <1>6, <2>4 DEF HostReads
    <3>3. \A p \in Elements(queryLane') : p \in Elements(queryLane) \/ p = q
      <4>1. CASE UNCHANGED queryLane
        BY <4>1
      <4>2. CASE q.op \in {"subscribe", "inspect"} /\ queryLane' = Append(queryLane, q)
        <5>1. q \in Query
          BY <2>1, <4>2, SequencesTyped, <1>0 DEF Request, SubmitRequest, Query
        <5>2. Elements(Append(queryLane, q)) = Elements(queryLane) \cup {q}
          BY <5>1, <1>t, ElementsAppend DEF TypeOK
        <5> QED
          BY <4>2, <5>2
      <4> QED
        BY <1>6, <2>4, <4>1, <4>2 DEF HostReads
    <3>4. AsksNew(base)
      BY <2>1, <3>1, <3>2, <3>3 DEF AsksNew
    <3>5. Greets'
      BY <1>0, <2>1, <3>1, <3>2 DEF Greets
    <3> QED
      BY <3>2, <3>4, <3>5, Still, HoleKept
  <2> QED
    BY <2>3, <2>4
<1>7. ASSUME HandleSubmit PROVE HoleInv(base)'
  <2> DEFINE f(ok) == [kind |-> "submitted", run |-> Head(runLane).run, ok |-> ok]
  <2>1. runLane \in Seq([run : Run, live : BOOLEAN]) /\ runLane # <<>> /\ runLane' = Tail(runLane)
    BY <1>7, <1>t DEF HandleSubmit, TypeOK
  <2>2. /\ Head(runLane) \in [run : Run, live : BOOLEAN]
        /\ Elements(runLane') \subseteq Elements(runLane) /\ Head(runLane) \in Elements(runLane)
    BY <2>1, Rest, ElementsRest
  <2>3. UNCHANGED <<sequence, history, toClient, heard, queryLane, subscribed, toHost, link, outbox,
                    known, stage, got>>
    BY <1>7 DEF HandleSubmit, Silent
  <2>4. \/ answers' = answers
        \/ Head(runLane).live /\ \E ok \in BOOLEAN : answers' = Append(answers, f(ok))
    BY <1>7 DEF HandleSubmit
  <2>5. \A ok \in BOOLEAN : Elements(Append(answers, f(ok))) = Elements(answers) \cup {f(ok)}
    <3>1. \A ok \in BOOLEAN : f(ok) \in Answer
      BY <2>2 DEF Answer
    <3> QED
      BY <3>1, <1>t, ElementsAppend DEF TypeOK
  <2>6. \A g \in Elements(answers') : g \in Elements(answers) \/ g.kind = "submitted"
    <3>1. \A ok \in BOOLEAN : f(ok).kind = "submitted"
      OBVIOUS
    <3>2. ASSUME NEW ok \in BOOLEAN, answers' = Append(answers, f(ok))
          PROVE  \A g \in Elements(answers') : g \in Elements(answers) \/ g.kind = "submitted"
      <4> DEFINE h == f(ok)
      <4>1. h.kind = "submitted" /\ Elements(answers') = Elements(answers) \cup {h}
        BY <2>5, <3>1, <3>2
      <4> HIDE DEF h
      <4> QED
        BY <4>1
    <3>3. CASE answers' = answers
      BY <3>3
    <3> QED
      BY <2>4, <3>2, <3>3
  <2>7. AsksNew(base)
    BY <2>3, <2>6 DEF AsksNew
  <2>8. link # "ready" => answers' = <<>>
    BY <1>0, <2>2, <2>4 DEF Greets
  <2>9. Greets'
    BY <1>0, <2>2, <2>3, <2>8 DEF Greets
  <2> QED
    BY <2>3, <2>7, <2>9, Still, HoleKept
<1>8. ASSUME HandleSubscribe PROVE HoleInv(base)'
  <2> DEFINE q == Head(queryLane)
             f == [kind |-> "snapshot", by |-> q.by, seq |-> sequence, view |-> active]
             g == [kind |-> "gap", seq |-> sequence, view |-> active]
  <2>1. /\ queryLane \in Seq(Query) /\ queryLane # <<>> /\ queryLane' = Tail(queryLane)
        /\ q.op = "subscribe"
    BY <1>8, <1>t DEF HandleSubscribe, TypeOK
  <2>2. /\ q \in Query /\ q \in Elements(queryLane)
        /\ Elements(queryLane') \subseteq Elements(queryLane)
    BY <2>1, Rest, ElementsRest
  <2>3. q.after \in Nat /\ q.by \in Attempt
    BY <2>1, <2>2 DEF Query
  <2>4. link = "ready"
    BY <1>0, <2>1 DEF Greets
  <2>5. Covers(toClient, heard, q.after) /\ q.after >= base
    BY <2>1, <2>2 DEF HoleInv, AsksFromTold, AsksAbove
  <2>6. /\ toClient \in Seq(Frame) /\ heard \in Nat /\ sequence \in Nat /\ heard <= sequence
        /\ Dense(toClient, heard, sequence)
    BY <1>0, <1>t DEF TypeOK, Greets, HoleInv, FramesDense
  <2>7. f \in Answer /\ g \in Frame
    BY <2>3, <1>t DEF Answer, Frame, TypeOK
  <2>8. Elements(answers') = Elements(answers) \cup {f}
    <3>1. answers' = Append(answers, f)
      BY <1>8 DEF HandleSubscribe
    <3> QED
      BY <2>7, <3>1, <1>t, ElementsAppend DEF TypeOK
  <2>9. UNCHANGED <<sequence, history, heard, runLane, toHost, link, outbox, known, stage, got>>
    BY <1>8 DEF HandleSubscribe
  <2>10. /\ FramesKept /\ Covers(toClient', heard', sequence')
         /\ \A p \in Elements(toClient') : \/ p \in Elements(toClient)
                                              \/ (p.kind \in {"event", "gap"} /\ p.seq >= base)
    <3>1. CASE q.host = host /\ CanReplay(q.after)
      <4> DEFINE t == Missed(q.after)
      <4>1. toClient' = toClient \o t
        BY <1>8, <3>1 DEF HandleSubscribe
      <4>2. /\ t \in Seq(Frame) /\ Follow(t, q.after, sequence)
            /\ \A k \in 1 .. Len(t) : t[k].seq >= base
            /\ Len(t) = 0 => q.after >= sequence
            /\ Len(t) > 0 => t[Len(t)].seq = sequence
        BY <2>3, <2>5, <3>1, <1>0, <1>t, MissedTyped, MissedFollow
      <4> HIDE DEF t, q
      <4>3. /\ Dense(toClient \o t, heard, sequence)
            /\ \A m \in Nat : Covers(toClient, heard, m) => Covers(toClient \o t, heard, m)
            /\ Len(t) > 0 => \A m \in Nat : m <= t[Len(t)].seq => Covers(toClient \o t, heard, m)
        BY <2>3, <2>5, <2>6, <4>2, DenseConcat
      <4>4. Covers(toClient \o t, heard, sequence)
        <5>1. CASE Len(t) = 0
          <6>1. q.after >= sequence
            BY <4>2, <5>1
          <6>2. Covers(toClient, heard, sequence)
            <7>1. CASE q.after <= heard
              BY <2>3, <2>6, <6>1, <7>1 DEF Covers
            <7>2. ASSUME NEW j \in 1 .. Len(toClient), Numbers(toClient[j]), toClient[j].seq >= q.after
                  PROVE  Covers(toClient, heard, sequence)
              <8>1. toClient[j].seq \in Nat
                BY <2>6, <7>2, ElementOfSeq DEF Frame, Answer, Numbers
              <8>2. toClient[j].seq >= sequence
                BY <2>3, <2>6, <6>1, <7>2, <8>1
              <8> QED
                BY <7>2, <8>2 DEF Covers
            <7> QED
              BY <2>5, <7>1, <7>2 DEF Covers
          <6> QED
            BY <2>6, <4>3, <6>2
        <5>2. CASE Len(t) > 0
          BY <2>6, <4>2, <4>3, <5>2
        <5>3. Len(t) \in Nat
          BY <4>2
        <5> QED
          BY <5>1, <5>2, <5>3
      <4>5. \A p \in Elements(t) : p.kind = "event" /\ p.seq >= base
        BY <4>2 DEF Follow, Elements
      <4>6. Elements(toClient \o t) = Elements(toClient) \cup Elements(t)
        BY <2>6, <4>2, ElementsConcat
      <4> QED
        BY <2>9, <4>1, <4>3, <4>4, <4>5, <4>6 DEF FramesKept
    <3>2. CASE ~ (q.host = host /\ CanReplay(q.after))
      <4>1. toClient' = toClient \o <<g>>
        BY <1>8, <3>2 DEF HandleSubscribe, Gap
      <4>2. g.kind = "gap" /\ g.seq = sequence /\ Numbers(g) /\ g.seq >= base
        BY <1>0 DEF Numbers
      <4> HIDE DEF g, q
      <4>3. toClient' = Append(toClient, g)
        BY <2>6, <2>7, <4>1, AppendIsConcat
      <4>4. Dense(Append(toClient, g), heard, sequence)
        BY <2>6, <2>7, <4>2, DenseAppend
      <4>5. /\ \A m \in Nat : Covers(toClient, heard, m) => Covers(Append(toClient, g), heard, m)
            /\ Covers(Append(toClient, g), heard, sequence)
        BY <2>6, <2>7, <4>2, CoversAppend
      <4>6. Elements(toClient') = Elements(toClient) \cup {g}
        BY <2>6, <2>7, <4>3, ElementsAppend
      <4> QED
        BY <2>9, <4>2, <4>3, <4>4, <4>5, <4>6 DEF FramesKept
    <3> QED
      BY <3>1, <3>2
  <2>11. f.kind = "snapshot" /\ f.seq = sequence /\ f.seq >= base
    BY <1>0
  <2> HIDE DEF f, q, g
  <2>12. AsksNew(base)
    BY <2>2, <2>8, <2>9, <2>10, <2>11 DEF AsksNew
  <2>13. Greets'
    BY <1>0, <2>4, <2>9, <2>10 DEF Greets
  <2>14. HistoryDense(base)'
    BY <1>0, <2>9 DEF HistoryDense
  <2> QED
    BY <2>10, <2>12, <2>13, <2>14, HoleKept
<1>9. ASSUME HandleInspect PROVE HoleInv(base)'
  <2> DEFINE q == Head(queryLane)
             f == [kind |-> "row", by |-> q.by, run |-> q.run, row |-> row[q.run]]
  <2>1. /\ queryLane \in Seq(Query) /\ queryLane # <<>> /\ queryLane' = Tail(queryLane)
        /\ q.op = "inspect"
    BY <1>9, <1>t DEF HandleInspect, TypeOK
  <2>2. q \in Query /\ Elements(queryLane') \subseteq Elements(queryLane)
    BY <2>1, Rest, ElementsRest
  <2>3. f \in Answer /\ f.kind = "row"
    <3>1. q.run \in Run /\ q.by \in Attempt
      BY <2>1, <2>2 DEF Query
    <3> QED
      BY <3>1, <1>t DEF Answer, TypeOK
  <2>4. Elements(answers') = Elements(answers) \cup {f}
    <3>1. answers' = Append(answers, f)
      BY <1>9 DEF HandleInspect
    <3> QED
      BY <2>3, <3>1, <1>t, ElementsAppend DEF TypeOK
  <2>5. link = "ready"
    BY <1>0, <2>1 DEF Greets
  <2>6. UNCHANGED <<sequence, history, toClient, heard, runLane, subscribed, toHost, link, outbox,
                    known, stage, got>>
    BY <1>9 DEF HandleInspect, Silent
  <2> HIDE DEF f, q
  <2>7. AsksNew(base)
    BY <2>2, <2>3, <2>4, <2>6 DEF AsksNew
  <2>8. Greets'
    BY <1>0, <2>5, <2>6 DEF Greets
  <2> QED
    BY <2>6, <2>7, <2>8, Still, HoleKept
<1>10. ASSUME SendAnswer PROVE HoleInv(base)'
  <2> DEFINE f == Head(answers)
  <2>1. answers \in Seq(Answer) /\ answers # <<>> /\ answers' = Tail(answers)
    BY <1>10, <1>t DEF SendAnswer, TypeOK
  <2>2. f \in Answer /\ f \in Elements(answers) /\ Elements(answers') \subseteq Elements(answers)
    BY <2>1, Rest, ElementsRest
  <2>3. f \in Frame /\ ~ Numbers(f) /\ f.kind # "welcome"
    BY <2>2 DEF Frame, Answer, Numbers
  <2>4. /\ toClient' = Append(toClient, f)
        /\ UNCHANGED <<sequence, history, heard, runLane, queryLane, subscribed, toHost, link, outbox,
                       known, stage, got>>
    BY <1>10 DEF SendAnswer
  <2>5. link = "ready"
    BY <1>0, <2>1 DEF Greets
  <2> HIDE DEF f
  <2>6. FramesKept /\ HistoryDense(base)' /\ Elements(toClient') = Elements(toClient) \cup {f}
    BY <2>3, <2>4, SentKept
  <2>7. AsksNew(base)
    BY <2>2, <2>3, <2>4, <2>6 DEF AsksNew
  <2>8. Greets'
    BY <1>0, <2>3, <2>4, <2>5, <2>6 DEF Greets
  <2> QED
    BY <2>6, <2>7, <2>8, HoleKept
<1>11. ASSUME NEW q \in Request, Ask(q), q.op \in {"submit", "inspect"},
              UNCHANGED <<hostVars, knownVars, got>>,
              \A a \in Attempt : stage'[a] = "answered" => stage[a] = "answered"
       PROVE  HoleInv(base)'
  <2>1. /\ toClient' = toClient
        /\ link' = "ready" => link = "ready"
        /\ \A p \in Elements(toHost') :
              p.op = "subscribe" => \/ p \in Elements(toHost)
                                    \/ (Covers(toClient, heard, p.after) /\ p.after >= base)
        /\ \A p \in Elements(outbox') : p \in Elements(outbox) \/ p.op \in {"submit", "inspect"}
        /\ Greets'
    BY <1>11, AskKept
  <2>2. AsksNew(base)
    BY <1>11, <2>1 DEF AsksNew
  <2>3. UNCHANGED <<sequence, history, toClient, heard>>
    BY <1>11, <2>1
  <2> QED
    BY <2>1, <2>2, <2>3, Still, HoleKept
<1>12. ASSUME NEW r \in Run, Submit(r) PROVE HoleInv(base)'
  <2>1. [op |-> "submit", run |-> r] \in Request
    BY DEF Request, SubmitRequest
  <2> QED
    BY <1>11, <1>12, <2>1 DEF Submit
<1>13. ASSUME UNCHANGED <<hostVars, wireVars, linkVars, knownVars>>,
              \A a \in Attempt : stage'[a] = "answered" => stage[a] = "answered" /\ got'[a] = got[a]
       PROVE  HoleInv(base)'
  <2>1. AsksNew(base) /\ Greets'
    BY <1>13, <1>0 DEF AsksNew, Greets
  <2> QED
    BY <1>13, <2>1, Still, HoleKept
<1>14. ASSUME NEW a \in Attempt, TimerFires(a) \/ Finish(a) PROVE HoleInv(base)'
  BY <1>13, <1>14, <1>t DEF TimerFires, Finish, Goes, TypeOK
<1>15. ASSUME NEW a \in Attempt, Judge(a) PROVE HoleInv(base)'
  <2> HIDE DEF NoFrame
  <2> QED
    BY <1>13, <1>15, <1>t DEF Judge, Goes, TypeOK
<1>16. ASSUME NEW a \in Attempt, Reach(a) PROVE HoleInv(base)'
  <2>1. /\ toClient' = toClient
        /\ link' = "ready" => link = "ready"
        /\ \A q \in Elements(toHost') : q.op = "subscribe" => q \in Elements(toHost)
        /\ Greets'
    BY <1>16, OpenKept DEF Reach
  <2>2. \A b \in Attempt : stage'[b] = "answered" => stage[b] = "answered"
    BY <1>16, <1>t DEF Reach, Goes, TypeOK
  <2>3. AsksNew(base)
    BY <1>16, <2>1, <2>2 DEF Reach, AsksNew
  <2>4. UNCHANGED <<sequence, history, toClient, heard>>
    BY <1>16, <2>1 DEF Reach
  <2> QED
    BY <2>1, <2>3, <2>4, Still, HoleKept
<1>17. ASSUME NEW a \in Attempt, Subscribe(a) PROVE HoleInv(base)'
  <2> DEFINE q == [op |-> "subscribe", by |-> a, after |-> known, host |-> before[a]]
  <2>1. q \in Request /\ Ask(q)
    BY <1>17, <1>t DEF Subscribe, Request, Query, TypeOK
  <2>2. /\ q.op = "subscribe" /\ link = "ready" /\ Covers(toClient, heard, q.after)
        /\ q.after >= base
    BY <1>17 DEF Subscribe, HoleInv, AsksFromTold, AsksAbove
  <2> HIDE DEF q
  <2>3. UNCHANGED <<hostVars, knownVars, got>>
    BY <1>17 DEF Subscribe
  <2>4. /\ toClient' = toClient
        /\ link' = "ready" => link = "ready"
        /\ \A p \in Elements(toHost') :
              p.op = "subscribe" => \/ p \in Elements(toHost)
                                    \/ (Covers(toClient, heard, p.after) /\ p.after >= base)
        /\ \A p \in Elements(outbox') : p \in Elements(outbox) \/ p.op \in {"submit", "inspect"}
        /\ Greets'
    BY <2>1, <2>2, <2>3, AskKept
  <2>5. \A b \in Attempt : stage'[b] = "answered" => stage[b] = "answered"
    BY <1>17, <1>t DEF Subscribe, Goes, TypeOK
  <2>6. AsksNew(base)
    BY <2>3, <2>4, <2>5 DEF AsksNew
  <2>7. UNCHANGED <<sequence, history, toClient, heard>>
    BY <2>3, <2>4
  <2> QED
    BY <2>4, <2>6, <2>7, Still, HoleKept
<1>18. ASSUME NEW a \in Attempt, Resume(a) PROVE HoleInv(base)'
  <2>1. UNCHANGED <<hostVars, wireVars, linkVars, heard>> /\ known' = got[a].seq
    BY <1>18 DEF Resume
  <2>2. Covers(toClient, heard, got[a].seq) /\ got[a].seq >= base
    BY <1>18 DEF Resume, Goes, HoleInv, AsksFromTold, AsksAbove
  <2> HIDE DEF NoFrame
  <2>3. \A b \in Attempt : stage'[b] = "answered" => stage[b] = "answered" /\ got'[b] = got[b]
    BY <1>18, <1>t DEF Resume, Goes, TypeOK
  <2>4. AsksNew(base)
    BY <2>1, <2>2, <2>3 DEF AsksNew
  <2>5. Greets'
    BY <1>0, <2>1 DEF Greets
  <2> QED
    BY <2>1, <2>4, <2>5, Still, HoleKept
<1>19. ASSUME NEW a \in Attempt, Inspect(a) PROVE HoleInv(base)'
  <2>1. PICK r \in left[a] : Ask([op |-> "inspect", by |-> a, run |-> r])
    BY <1>19 DEF Inspect
  <2>2. [op |-> "inspect", by |-> a, run |-> r] \in Request
    BY <1>t DEF TypeOK, Request, Query
  <2>3. \A b \in Attempt : stage'[b] = "answered" => stage[b] = "answered"
    BY <1>19, <1>t DEF Inspect, Goes, TypeOK
  <2> QED
    BY <1>11, <1>19, <2>1, <2>2, <2>3 DEF Inspect
<1>20. ASSUME Deliver
       PROVE  /\ toClient \in Seq(Frame) /\ toClient # <<>> /\ toClient' = Tail(toClient)
              /\ Head(toClient) = toClient[1] /\ toClient[1] \in Elements(toClient)
              /\ toClient[1] \in Frame /\ link # "down"
              /\ UNCHANGED <<hostVars, socket>>
  <2>1. toClient # <<>> /\ toClient' = Tail(toClient) /\ UNCHANGED <<hostVars, socket>>
    BY <1>20 DEF Deliver, OnWelcome, OnEvent, OnCompletion, OnSubmitted, OnAnswer, Takes
  <2>2. toClient \in Seq(Frame)
    BY <1>t DEF TypeOK
  <2>3. Head(toClient) = toClient[1] /\ toClient[1] \in Elements(toClient) /\ toClient[1] \in Frame
    BY <2>1, <2>2, Rest, ElementsRest
  <2> QED
    BY <1>0, <2>1, <2>2, <2>3 DEF Greets
<1>21. ASSUME OnWelcome PROVE HoleInv(base)'
  <2>1. Deliver /\ toClient[1].kind = "welcome"
    BY <1>20, <1>21 DEF Deliver, OnWelcome, Takes
  <2>2. link = "opening"
    BY <1>0, <1>t, <1>20, <2>1 DEF Greets, TypeOK
  <2>3. toHost = <<>> /\ Len(toClient) = 1 /\ heard = 0 /\ ~ subscribed /\ queryLane = <<>> /\ answers = <<>>
    BY <1>0, <1>20, <2>1, <2>2 DEF Greets
  <2>4. /\ known' = toClient[1].seq /\ heard' = toClient[1].seq /\ link' = "ready"
        /\ toHost' = toHost \o outbox /\ outbox' = <<>> /\ UNCHANGED <<stage, got>>
    BY <1>20, <1>21, <2>1 DEF OnWelcome
  <2>5. toClient[1].seq \in Nat /\ Numbers(toClient[1])
    BY <1>20, <2>1 DEF Frame, Answer, Numbers
  <2>6. /\ FramesKept /\ HistoryDense(base)' /\ heard' <= sequence
        /\ Elements(toClient') \subseteq Elements(toClient)
    BY <1>20, <2>1, <2>3, <2>4, <2>5, HandledKept
  <2>7. toClient' = <<>>
    BY <1>20, <2>1, <2>3
  <2>8. toHost' = outbox
    BY <2>3, <2>4, <1>t, ConcatEmptySeq DEF TypeOK
  <2>9. \A q \in Elements(toHost') : q.op \in {"submit", "inspect"}
    BY <2>8 DEF HoleInv, AsksFromTold
  <2>10. Covers(toClient', heard', known') /\ known' >= base
    BY <1>20, <2>1, <2>4, <2>5 DEF Covers, HoleInv, AsksAbove
  <2>11. UNCHANGED <<sequence, subscribed, queryLane, answers, runLane>>
    BY <1>20, <2>1
  <2>12. AsksNew(base)
    BY <2>3, <2>4, <2>6, <2>9, <2>10, <2>11, NoElements DEF AsksNew
  <2>13. Greets'
    BY <2>4, <2>6, <2>7, <2>9, <2>11, NoElements DEF Greets
  <2> QED
    BY <2>6, <2>12, <2>13, HoleKept
<1>22. ASSUME Deliver, toClient[1].kind # "welcome" PROVE link = "ready"
  BY <1>0, <1>t, <1>20, <1>22 DEF Greets, TypeOK
<1>23. ASSUME OnEvent PROVE HoleInv(base)'
  <2> DEFINE f == toClient[1]
  <2>1. Deliver /\ f.kind \in {"event", "gap"} /\ f = Head(toClient)
    BY <1>20, <1>23 DEF Deliver, OnEvent, Takes
  <2>2. link = "ready" /\ f.seq \in Nat /\ Numbers(f) /\ heard \in Nat
    BY <1>20, <1>22, <1>t, <2>1 DEF Frame, Answer, Numbers, TypeOK
  <2>3. /\ known' = f.seq
        /\ heard' = IF f.kind = "gap" \/ f.seq = heard + 1 THEN f.seq ELSE heard
        /\ UNCHANGED <<toHost, linkVars, stage, got>>
    BY <1>23, <2>1 DEF OnEvent
  <2>4. f.kind = "event" => f.seq - 1 <= heard
    <3>1. 1 \in 1 .. Len(toClient) /\ \A j \in 1 .. Len(toClient) : ~ (j < 1)
      BY <1>20, <2>1
    <3> QED
      BY <3>1 DEF HoleInv, FramesDense, Dense, CoversBefore
  <2>5. f.kind = "gap" => f.seq >= heard
    <3>1. 1 \in 1 .. Len(toClient)
      BY <1>20, <2>1
    <3> QED
      BY <3>1 DEF HoleInv, FramesDense, Dense
  <2> HIDE DEF f
  <2>6. heard' >= heard /\ heard' >= f.seq /\ (heard' = heard \/ heard' = f.seq) /\ heard' \in Nat
    BY <2>1, <2>2, <2>3, <2>4, <2>5
  <2>7. /\ FramesKept /\ HistoryDense(base)' /\ heard' <= sequence
        /\ Elements(toClient') \subseteq Elements(toClient)
    BY <1>20, <2>1, <2>2, <2>6, HandledKept DEF f
  <2>8. Covers(toClient', heard', known') /\ known' >= base
    <3>1. f.seq >= base
      BY <1>20, <2>1, <2>2 DEF HoleInv, AsksAbove, f
    <3> QED
      BY <2>3, <2>6, <3>1 DEF Covers
  <2>9. UNCHANGED <<sequence, subscribed, queryLane, answers, runLane>>
    BY <1>20, <2>1
  <2>10. AsksNew(base)
    BY <2>3, <2>7, <2>8, <2>9 DEF AsksNew
  <2>11. Greets'
    BY <1>0, <2>2, <2>3, <2>7, <2>9 DEF Greets
  <2> QED
    BY <2>7, <2>10, <2>11, HoleKept
<1>24. ASSUME Deliver, toClient[1].kind \notin {"welcome", "event", "gap"},
              UNCHANGED <<toHost, linkVars, knownVars>>,
              \A a \in Attempt : stage'[a] = "answered" =>
                 \/ stage[a] = "answered" /\ got'[a] = got[a]
                 \/ got'[a] = toClient[1] /\ got'[a].kind = "snapshot"
       PROVE  HoleInv(base)'
  <2>1. link = "ready" /\ ~ Numbers(toClient[1]) /\ heard \in Nat /\ heard' = heard
    BY <1>22, <1>24, <1>t DEF Numbers, TypeOK
  <2>2. /\ FramesKept /\ HistoryDense(base)' /\ heard' <= sequence
        /\ Elements(toClient') \subseteq Elements(toClient)
    BY <1>20, <1>24, <2>1, HandledKept
  <2>3. UNCHANGED <<sequence, subscribed, queryLane, answers, runLane>>
    BY <1>20, <1>24
  <2>4. AsksNew(base)
    BY <1>20, <1>24, <2>2, <2>3 DEF AsksNew
  <2>5. Greets'
    BY <1>0, <1>24, <2>1, <2>2, <2>3 DEF Greets
  <2> QED
    BY <2>2, <2>4, <2>5, HoleKept
<1>25. ASSUME OnCompletion \/ OnSubmitted PROVE HoleInv(base)'
  BY <1>20, <1>24, <1>25 DEF Deliver, OnCompletion, OnSubmitted, Takes
<1>26. ASSUME OnAnswer PROVE HoleInv(base)'
  <2> DEFINE f == toClient[1]
  <2>1. Deliver /\ f = Head(toClient) /\ f.kind \in {"snapshot", "row"}
    BY <1>20, <1>26 DEF Deliver, OnAnswer, Takes
  <2>2. /\ stage' = [stage EXCEPT ![f.by] = IF f.kind = "row" THEN "inspected" ELSE "answered"]
        /\ got' = [got EXCEPT ![f.by] = f]
        /\ UNCHANGED <<toHost, linkVars, knownVars>>
    BY <1>26, <2>1 DEF OnAnswer
  <2> HIDE DEF f, NoFrame
  <2>3. \A a \in Attempt : stage'[a] = "answered" =>
           \/ stage[a] = "answered" /\ got'[a] = got[a]
           \/ got'[a] = f /\ got'[a].kind = "snapshot"
    BY <2>1, <2>2, <1>t DEF TypeOK
  <2> QED
    BY <1>24, <2>1, <2>2, <2>3 DEF f
<1>27. ASSUME Drop PROVE HoleInv(base)'
  <2>1. sequence' \in Nat /\ UNCHANGED <<sequence, history>>
    BY <1>27, <1>t DEF Drop, TypeOK
  <2>2. \A x \in Elements(runLane') : ~ x.live
    <3>1. runLane' = [i \in 1 .. Len(runLane) |-> [runLane[i] EXCEPT !.live = FALSE]]
      BY <1>27 DEF Drop
    <3>2. Len(runLane) \in Nat /\ \A i \in 1 .. Len(runLane) : runLane[i] \in [run : Run, live : BOOLEAN]
      <4>1. runLane \in Seq([run : Run, live : BOOLEAN])
        BY <1>t DEF TypeOK
      <4>2. \A i \in 1 .. Len(runLane) : runLane[i] \in [run : Run, live : BOOLEAN]
        BY <4>1, ElementOfSeq
      <4> QED
        BY <4>1, <4>2
    <3> QED
      BY <3>1, <3>2 DEF Elements
  <2>3. Dense(toClient', heard', sequence') /\ AsksFromTold' /\ Greets' /\ AsksAbove(base)'
    BY <1>27, <2>1, <2>2, LostKept DEF Drop
  <2>4. HistoryDense(base)'
    BY <1>0, <2>1 DEF HistoryDense
  <2> QED
    BY <1>0, <2>3, <2>4 DEF HoleInv, FramesDense
<1>28. ASSUME Die PROVE \E b \in Nat : HoleInv(b)'
  <2>1. sequence' \in 0 .. sequence /\ history' \in Restored(sequence')
    BY <1>28 DEF Die
  <2>2. PICK b \in Nat : b = sequence'
    BY <1>0, <2>1
  <2>3. HistoryDense(b)'
    <3>1. history \in Seq(Items)
      BY <1>t DEF TypeOK, Items
    <3>2. history' \in Seq(Items) /\ \A i \in 1 .. Len(history') : history'[i].seq <= b
      BY <2>1, <2>2, <3>1, RestoredTyped
    <3>3. Len(history') - (sequence' - b) = Len(history')
      BY <2>2, <3>2
    <3> QED
      BY <2>2, <3>2, <3>3 DEF HistoryDense
  <2>4. /\ Calm /\ queryLane' = <<>> /\ answers' = <<>> /\ subscribed' = FALSE /\ runLane' = <<>>
    BY <1>28 DEF Die
  <2>5. \A x \in Elements(runLane') : ~ x.live
    BY <2>4, NoElements
  <2>6. CASE Disconnected
    <3>1. Dense(toClient', heard', sequence') /\ AsksFromTold' /\ Greets' /\ AsksAbove(b)'
      BY <2>2, <2>4, <2>5, <2>6, LostKept
    <3> QED
      BY <1>0, <2>3, <3>1 DEF HoleInv, FramesDense
  <2>7. CASE link = "down" /\ UNCHANGED <<wireVars, clientVars>>
    <3>1. toHost = <<>> /\ toClient = <<>> /\ outbox = <<>> /\ heard = 0
      BY <1>0, <2>7 DEF Greets
    <3>2. \A a \in Attempt : stage[a] # "answered"
      BY <2>4 DEF Calm, Due
    <3>3. Dense(toClient', heard', sequence')
      BY <2>7, <3>1 DEF Dense
    <3>4. AsksFromTold'
      BY <2>4, <2>7, <3>1, <3>2, NoElements DEF AsksFromTold
    <3>5. Greets'
      BY <2>2, <2>4, <2>5, <2>7, <3>1 DEF Greets
    <3>6. AsksAbove(b)'
      BY <2>4, <2>7, <3>1, <3>2, NoElements DEF AsksAbove
    <3> QED
      BY <1>0, <2>3, <3>3, <3>4, <3>5, <3>6 DEF HoleInv, FramesDense
  <2> QED
    BY <1>28, <2>6, <2>7 DEF Die
<1>29. ASSUME UNCHANGED vars PROVE HoleInv(base)'
  BY <1>13, <1>29 DEF vars
<1> QED
  BY <1>2, <1>3, <1>h, <1>4, <1>5, <1>6, <1>7, <1>8, <1>9, <1>10, <1>12, <1>14, <1>15, <1>16, <1>17, <1>18,
     <1>19, <1>21, <1>23, <1>25, <1>26, <1>27, <1>28, <1>29 DEF Next, HostSteps, Attempts, Deliver

\* Between the hello answer and the loss of a connection, every event that
\* the client does not get is covered by a gap frame.
THEOREM NoEventPassedOver == Spec => []NoSilentHole
<1>1. Init => HoleInv(0)
  <2> SUFFICES ASSUME Init PROVE HoleInv(0)
    OBVIOUS
  <2>1. HistoryDense(0)
    BY DEF Init, HistoryDense
  <2>2. FramesDense
    BY DEF Init, FramesDense, Dense
  <2>3. AsksFromTold
    BY NoElements DEF Init, AsksFromTold, Covers
  <2>4. Greets
    BY NoElements DEF Init, Greets
  <2>5. AsksAbove(0)
    BY NoElements DEF Init, AsksAbove
  <2> QED
    BY <2>1, <2>2, <2>3, <2>4, <2>5, TypeInit DEF HoleInv
<1> DEFINE Inv == \E base \in Nat : HoleInv(base)
<1>2. Inv /\ [Next]_vars => Inv'
  BY HoleStep
<1>3. Inv => NoSilentHole
  <2> SUFFICES ASSUME NEW base \in Nat, HoleInv(base), toClient # <<>>, Head(toClient).kind = "event"
               PROVE  Head(toClient).seq <= heard + 1
    BY DEF NoSilentHole
  <2>1. toClient \in Seq(Frame) /\ heard \in Nat
    BY DEF HoleInv, TypeInv, TypeOK
  <2>2. Head(toClient) = toClient[1] /\ 1 \in 1 .. Len(toClient) /\ toClient[1] \in Frame
    BY <2>1, Rest
  <2>3. toClient[1].seq - 1 <= heard
    <3>1. \A j \in 1 .. Len(toClient) : ~ (j < 1)
      OBVIOUS
    <3> QED
      BY <2>2, <3>1 DEF HoleInv, FramesDense, Dense, CoversBefore
  <2>4. toClient[1].seq \in Nat
    BY <2>2 DEF Frame, Answer
  <2> QED
    BY <2>1, <2>2, <2>3, <2>4
<1>4. Init => Inv
  BY <1>1
<1> HIDE DEF Inv
<1> QED
  BY <1>2, <1>3, <1>4, PTL DEF Spec
=============================================================================
