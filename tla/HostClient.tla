----------------------------- MODULE HostClient -----------------------------
(***************************************************************************)
(* One RuntimeHostClient and the Runtime Host it talks to                  *)
(* (runtime/RuntimeHost.ts): the events that the Host numbers, keeps and   *)
(* replays, the client's reconnection after a lost connection or a dead    *)
(* Host, and what becomes of the completion that submitPrompt() returned.  *)
(*                                                                         *)
(* Both sides are event loops.  What the client does in one macrotask is   *)
(* one or more steps between which only frames of the same chunk are       *)
(* delivered ("Calm"); the answer to a request is computed and written in  *)
(* different steps, with the events of the run in between.  A run is what  *)
(* AgentRun shows of it: admitted, started, ended in the authority,        *)
(* announced, settled; or over with nobody told (Hush).                    *)
(*                                                                         *)
(* Left out: other requests than submit, subscribe and run.inspect,        *)
(* several clients, close(), restartOwner(), capability offers, frame      *)
(* limits.  A connection loses what the Host has not read and what the     *)
(* client has not handled.                                                 *)
(***************************************************************************)
EXTENDS Integers, Sequences, FiniteSets

CONSTANTS
    Run, NoRun,    \* runs that the client submits
    Outcome,       \* terminal statuses
    Attempt,       \* calls of reconnect() that may be under way together
    HistoryLimit,  \* eventHistoryLimit
    MaxEvents,     \* bound: optional events are published up to this number
    MaxSockets,    \* bound: connections of the client
    MaxHosts       \* bound: Host processes

ASSUME RunAssumption == NoRun \notin Run
ASSUME OutcomeAssumption == Outcome \cap {"none", "open", "waiting", "rejected"} = {}
ASSUME BoundAssumption == /\ HistoryLimit \in Nat \ {0} /\ MaxEvents \in Nat
                          /\ MaxSockets \in Nat \ {0} /\ MaxHosts \in Nat \ {0}

VARIABLES
    \* the Host
    host,        \* hostEpoch: the number of the process
    sequence,    \* number of the last event
    history,     \* the last events, with the run that each one's snapshot shows
    row,         \* the authority's row of each run
    phase,       \* where each run is in this process
    active,      \* the run that the runtime's snapshot shows
    runLane,     \* submits that were read: the run, and whether the socket lives
    queryLane,   \* subscribe and run.inspect requests that were read
    answers,     \* answers not yet written
    subscribed,  \* connection.subscribed
    \* the socket
    toHost, toClient,
    \* the client
    socket,      \* number of sockets opened
    link,        \* readyPromise: none, pending or resolved
    outbox,      \* requests that wait for it
    known, knownHost,  \* this.sequence and this.hostEpoch
    view,        \* the run that this.snapshot shows
    heard,       \* all events since the hello up to this one were handled
    comp,        \* the completion of each run
    timer,       \* reconnectTimer
    stage,       \* the await at which each reconnect() is
    before,      \* its previousHostEpoch
    left,        \* completions its recovery has not yet looked at
    got          \* its answer, when its continuation has not run yet

hostVars == <<host, sequence, history, row, phase, active, runLane, queryLane, answers, subscribed>>
wireVars == <<toHost, toClient>>
linkVars == <<socket, link, outbox>>
knownVars == <<known, knownHost, view, heard>>
attemptVars == <<stage, before, left, got>>
clientVars == <<linkVars, knownVars, comp, timer, attemptVars>>
vars == <<hostVars, wireVars, clientVars>>

Query == [op : {"subscribe"}, by : Attempt, after : Nat, host : Nat]
         \cup [op : {"inspect"}, by : Attempt, run : Run]
SubmitRequest == [op : {"submit"}, run : Run]
Request == Query \cup SubmitRequest \cup [op : {"hello"}]
Rows == {"none", "open"} \cup Outcome
Shown == Run \cup {NoRun}
Answer == [kind : {"snapshot"}, by : Attempt, seq : Nat, view : Shown]
          \cup [kind : {"row"}, by : Attempt, run : Run, row : Rows]
          \cup [kind : {"submitted"}, run : Run, ok : BOOLEAN]
Frame == Answer \cup [kind : {"welcome"}, seq : Nat, host : Nat]
         \cup [kind : {"event", "gap"}, seq : Nat, view : Shown]
         \cup [kind : {"completion"}, run : Run, outcome : Outcome]
NoFrame == [kind |-> "none"]
Stages == {"idle", "seeking", "opening", "subscribing", "answered", "recovering",
           "inspecting", "inspected"}

TypeOK ==
    /\ host \in Nat /\ sequence \in Nat
    /\ history \in Seq([seq : Nat, view : Shown])
    /\ row \in [Run -> Rows]
    /\ phase \in [Run -> {"none", "admitted", "going", "ended", "announced", "hushed",
                        "settled"}]
    /\ active \in Shown
    /\ runLane \in Seq([run : Run, live : BOOLEAN])
    /\ queryLane \in Seq(Query)
    /\ answers \in Seq(Answer)
    /\ subscribed \in BOOLEAN
    /\ toHost \in Seq(Request) /\ toClient \in Seq(Frame)
    /\ socket \in Nat /\ link \in {"down", "opening", "ready"}
    /\ outbox \in Seq(Request)
    /\ known \in Nat /\ knownHost \in Nat /\ view \in Shown /\ heard \in Nat
    /\ comp \in [Run -> {"none", "waiting", "rejected"} \cup Outcome]
    /\ timer \in BOOLEAN
    /\ stage \in [Attempt -> Stages]
    /\ before \in [Attempt -> Nat]
    /\ left \in [Attempt -> SUBSET Run]
    /\ got \in [Attempt -> Answer \cup {NoFrame}]

\* After connect(): the client is subscribed and the Host is idle.
Init ==
    /\ host = 1 /\ sequence = 0 /\ history = <<>>
    /\ row = [r \in Run |-> "none"] /\ phase = [r \in Run |-> "none"] /\ active = NoRun
    /\ runLane = <<>> /\ queryLane = <<>> /\ answers = <<>> /\ subscribed = TRUE
    /\ toHost = <<>> /\ toClient = <<>>
    /\ socket = 1 /\ link = "ready" /\ outbox = <<>>
    /\ known = 0 /\ knownHost = 1 /\ view = NoRun /\ heard = 0
    /\ comp = [r \in Run |-> "none"] /\ timer = FALSE
    /\ stage = [a \in Attempt |-> "idle"] /\ before = [a \in Attempt |-> 0]
    /\ left = [a \in Attempt |-> {}] /\ got = [a \in Attempt |-> NoFrame]

-----------------------------------------------------------------------------
(* The Host: events. *)

Newest(items) == IF Len(items) > HistoryLimit
                 THEN SubSeq(items, Len(items) - HistoryLimit + 1, Len(items))
                 ELSE items

\* publish(): the event has the runtime's snapshot with it.
Publish(shown) ==
    /\ sequence' = sequence + 1
    /\ active' = shown
    /\ history' = Newest(Append(history, [seq |-> sequence + 1, view |-> shown]))
    /\ toClient' = IF subscribed
                   THEN Append(toClient, [kind |-> "event", seq |-> sequence + 1, view |-> shown])
                   ELSE toClient

Silent == UNCHANGED <<sequence, active, history, toClient>>

-----------------------------------------------------------------------------
(* The Host: a run that was admitted. *)

Moves(r, from, to) == phase[r] = from /\ phase' = [phase EXCEPT ![r] = to]

StartRun(r) ==
    /\ Moves(r, "admitted", "going") /\ Publish(r)
    /\ UNCHANGED <<host, row, runLane, queryLane, answers, subscribed, toHost, clientVars>>

Progress(r) ==
    /\ phase[r] = "going" /\ sequence < MaxEvents /\ Publish(r)
    /\ UNCHANGED <<host, row, phase, runLane, queryLane, answers, subscribed, toHost, clientVars>>

\* commitTerminal(): the authority has the end before the event says it.  A
\* run may also fail before run.started.
EndRun(r) ==
    /\ Moves(r, "going", "ended") \/ Moves(r, "admitted", "ended")
    /\ \E o \in Outcome : row' = [row EXCEPT ![r] = o]
    /\ Silent
    /\ UNCHANGED <<host, runLane, queryLane, answers, subscribed, toHost, clientVars>>

\* Mutant: the end is announced before the authority has it.
MutAnnounceEnd(r) ==
    /\ Moves(r, "going", "announced") /\ Publish(NoRun)
    /\ UNCHANGED <<host, row, runLane, queryLane, answers, subscribed, toHost, clientVars>>

AnnounceEnd(r) ==
    /\ Moves(r, "ended", "announced") /\ Publish(NoRun)
    /\ UNCHANGED <<host, row, runLane, queryLane, answers, subscribed, toHost, clientVars>>

\* broadcastCompletion(): to whoever is subscribed now.
Broadcast(r) ==
    /\ Moves(r, "announced", "settled")
    /\ toClient' = IF subscribed
                   THEN Append(toClient, [kind |-> "completion", run |-> r, outcome |-> row[r]])
                   ELSE toClient
    /\ UNCHANGED <<host, sequence, history, row, active, runLane, queryLane, answers, subscribed,
                   toHost, clientVars>>

\* commitTerminal() throws, for failUncaughtRun() too: the completion is
\* rejected and trackCompletion() sends nothing.  The row stays open and the
\* snapshot, which only an event of the run changes, as it is.
Hush(r) ==
    /\ Moves(r, "going", "hushed") \/ Moves(r, "admitted", "hushed")
    /\ Silent
    /\ UNCHANGED <<host, row, runLane, queryLane, answers, subscribed, toHost, clientVars>>

\* startRun(): the state is that of the snapshot.
Busy == \/ active # NoRun
        \/ \E r \in Run : phase[r] \in {"admitted", "going", "ended", "announced"}

\* performRuntimeRestart() forgets the history and publishes the new snapshot.
Rebuild ==
    /\ ~ Busy /\ sequence < MaxEvents
    /\ sequence' = sequence + 1 /\ active' = NoRun
    /\ history' = <<[seq |-> sequence + 1, view |-> NoRun]>>
    /\ toClient' = IF subscribed
                   THEN Append(toClient, [kind |-> "event", seq |-> sequence + 1, view |-> NoRun])
                   ELSE toClient
    /\ UNCHANGED <<host, row, phase, runLane, queryLane, answers, subscribed, toHost, clientVars>>

-----------------------------------------------------------------------------
(* The Host: requests. *)

\* read(): the hello is answered at once, a request enters its lane.
HostReads ==
    /\ toHost # <<>> /\ toHost' = Tail(toHost)
    /\ LET q == Head(toHost) IN
       \/ /\ q.op = "hello"
          /\ toClient' = Append(toClient, [kind |-> "welcome", seq |-> sequence, host |-> host])
          /\ UNCHANGED <<runLane, queryLane>>
       \/ /\ q.op = "submit" /\ runLane' = Append(runLane, [run |-> q.run, live |-> TRUE])
          /\ UNCHANGED <<queryLane, toClient>>
       \/ /\ q.op \in {"subscribe", "inspect"} /\ queryLane' = Append(queryLane, q)
          /\ UNCHANGED <<runLane, toClient>>
    /\ UNCHANGED <<host, sequence, history, row, phase, active, answers, subscribed, clientVars>>

\* submit: startRun() admits the run, or it is refused: the runtime is busy or
\* the revision has changed.
HandleSubmit ==
    /\ runLane # <<>> /\ runLane' = Tail(runLane)
    /\ LET r == Head(runLane).run
           Reply(ok) == answers' = IF Head(runLane).live
                                   THEN Append(answers, [kind |-> "submitted", run |-> r, ok |-> ok])
                                   ELSE answers
       IN \/ /\ ~ Busy /\ row[r] = "none"
             /\ phase' = [phase EXCEPT ![r] = "admitted"]
             /\ row' = [row EXCEPT ![r] = "open"]
             /\ Reply(TRUE)
          \/ Reply(FALSE) /\ UNCHANGED <<phase, row>>
    /\ Silent
    /\ UNCHANGED <<host, queryLane, subscribed, toHost, clientVars>>

\* Mutant: one event too many may be missing.
MutCanReplay(after) == \/ after >= sequence
                       \/ history # <<>> /\ after >= history[1].seq - 2

CanReplay(after) == \/ after >= sequence
                    \/ history # <<>> /\ after >= history[1].seq - 1

\* The events of the history after the given number.
Missed(after) ==
    LET skip == Cardinality({i \in 1 .. Len(history) : history[i].seq <= after})
    IN [i \in 1 .. Len(history) - skip |-> [kind |-> "event", seq |-> history[skip + i].seq,
                                            view |-> history[skip + i].view]]

Gap == <<[kind |-> "gap", seq |-> sequence, view |-> active]>>

\* subscribeConnection()
HandleSubscribe ==
    /\ queryLane # <<>> /\ Head(queryLane).op = "subscribe" /\ queryLane' = Tail(queryLane)
    /\ subscribed' = TRUE
    /\ LET q == Head(queryLane) IN
       /\ toClient' = toClient \o (IF q.host = host /\ CanReplay(q.after)
                                   THEN Missed(q.after) ELSE Gap)
       /\ answers' = Append(answers, [kind |-> "snapshot", by |-> q.by, seq |-> sequence,
                                      view |-> active])
    /\ UNCHANGED <<host, sequence, history, row, phase, active, runLane, toHost, clientVars>>

HandleInspect ==
    /\ queryLane # <<>> /\ Head(queryLane).op = "inspect" /\ queryLane' = Tail(queryLane)
    /\ LET q == Head(queryLane) IN
       answers' = Append(answers, [kind |-> "row", by |-> q.by, run |-> q.run, row |-> row[q.run]])
    /\ Silent
    /\ UNCHANGED <<host, row, phase, runLane, subscribed, toHost, clientVars>>

SendAnswer ==
    /\ answers # <<>> /\ answers' = Tail(answers)
    /\ toClient' = Append(toClient, Head(answers))
    /\ UNCHANGED <<host, sequence, history, row, phase, active, runLane, queryLane, subscribed,
                   toHost, clientVars>>

-----------------------------------------------------------------------------
(* The client: requests and the runs that it submits. *)

\* A reconnect() whose continuation is due in this macrotask.
Due(a) == \/ stage[a] \in {"answered", "recovering", "inspected"}
          \/ stage[a] = "opening" /\ link = "ready"

Calm == \A a \in Attempt : ~ Due(a)

\* openSocket(): a socket that exists, open or opening, is used.
OpenSocket == IF link = "down"
              THEN /\ socket' = socket + 1 /\ link' = "opening"
                   /\ toHost' = <<[op |-> "hello"]>> /\ toClient' = <<>>
              ELSE UNCHANGED <<socket, link, toHost, toClient>>

\* request(): sent now, or after the hello.
Ask(q) == IF link = "ready"
          THEN toHost' = Append(toHost, q) /\ UNCHANGED <<toClient, linkVars>>
          ELSE OpenSocket /\ outbox' = Append(outbox, q)

\* submitPrompt()
Submit(r) ==
    /\ Calm /\ comp[r] = "none" /\ comp' = [comp EXCEPT ![r] = "waiting"]
    /\ Ask([op |-> "submit", run |-> r])
    /\ UNCHANGED <<hostVars, knownVars, timer, attemptVars>>

-----------------------------------------------------------------------------
(* The client: reconnect() and recoverCompletions(). *)

Goes(a, from, to) == stage[a] = from /\ stage' = [stage EXCEPT ![a] = to]

TimerFires(a) ==
    /\ Calm /\ timer /\ timer' = FALSE /\ Goes(a, "idle", "seeking")
    /\ UNCHANGED <<hostVars, wireVars, linkVars, knownVars, comp, before, left, got>>

\* The registration is there: the epoch is read, then the socket is opened.
Reach(a) ==
    /\ Calm /\ Goes(a, "seeking", "opening")
    /\ before' = [before EXCEPT ![a] = knownHost]
    /\ OpenSocket
    /\ UNCHANGED <<hostVars, outbox, knownVars, comp, timer, left, got>>

\* The hello was answered, and has overwritten the sequence sent here.
Subscribe(a) ==
    /\ link = "ready" /\ Goes(a, "opening", "subscribing")
    /\ Ask([op |-> "subscribe", by |-> a, after |-> known, host |-> before[a]])
    /\ before' = [before EXCEPT ![a] = 0]
    /\ UNCHANGED <<hostVars, knownVars, comp, timer, left, got>>

Resume(a) ==
    /\ Goes(a, "answered", "recovering")
    /\ known' = got[a].seq /\ view' = got[a].view
    /\ left' = [left EXCEPT ![a] = {r \in Run : comp[r] = "waiting"}]
    /\ got' = [got EXCEPT ![a] = NoFrame]
    /\ UNCHANGED <<hostVars, wireVars, linkVars, knownHost, heard, comp, timer, before>>

\* inspectRun(), on a new socket that nobody has subscribed if it must be.
Inspect(a) ==
    /\ Goes(a, "recovering", "inspecting")
    /\ \E r \in left[a] : /\ left' = [left EXCEPT ![a] = @ \ {r}]
                          /\ Ask([op |-> "inspect", by |-> a, run |-> r])
    /\ UNCHANGED <<hostVars, knownVars, comp, timer, before, got>>

Settle(r, as) == comp' = [comp EXCEPT ![r] = IF @ = "waiting" THEN as ELSE @]

\* Mutant: a run that is not shown any more counts as ended.
MutVerdict(r, found) == CASE found = "none" -> "rejected"
                          [] found = "open" -> IF view = r THEN "waiting"
                                               ELSE CHOOSE o \in Outcome : TRUE
                          [] OTHER -> found

\* What the row says of a run: never admitted, over, or still open.
Verdict(r, found) == CASE found = "none" -> "rejected"
                       [] found = "open" -> IF view = r THEN "waiting" ELSE "rejected"
                       [] OTHER -> found

Judge(a) ==
    /\ Goes(a, "inspected", "recovering")
    /\ Settle(got[a].run, Verdict(got[a].run, got[a].row))
    /\ got' = [got EXCEPT ![a] = NoFrame]
    /\ UNCHANGED <<hostVars, wireVars, linkVars, knownVars, timer, before, left>>

Finish(a) ==
    /\ left[a] = {} /\ Goes(a, "recovering", "idle")
    /\ UNCHANGED <<hostVars, wireVars, linkVars, knownVars, comp, timer, before, left, got>>

-----------------------------------------------------------------------------
(* The client: handleClientFrame(). *)

Takes(kinds) == toClient # <<>> /\ Head(toClient).kind \in kinds /\ toClient' = Tail(toClient)

\* The hello answer: the client believes to be where the Host is.
OnWelcome ==
    /\ Takes({"welcome"})
    /\ known' = Head(toClient).seq /\ knownHost' = Head(toClient).host
    /\ heard' = Head(toClient).seq
    /\ link' = "ready" /\ toHost' = toHost \o outbox /\ outbox' = <<>>
    /\ UNCHANGED <<hostVars, socket, view, comp, timer, attemptVars>>

OnEvent ==
    /\ Takes({"event", "gap"})
    /\ LET f == Head(toClient) IN
       /\ known' = f.seq /\ view' = f.view
       /\ heard' = IF f.kind = "gap" \/ f.seq = heard + 1 THEN f.seq ELSE heard
    /\ UNCHANGED <<hostVars, toHost, linkVars, knownHost, comp, timer, attemptVars>>

OnCompletion ==
    /\ Takes({"completion"}) /\ Settle(Head(toClient).run, Head(toClient).outcome)
    /\ UNCHANGED <<hostVars, toHost, linkVars, knownVars, timer, attemptVars>>

OnSubmitted ==
    /\ Takes({"submitted"})
    /\ Settle(Head(toClient).run, IF Head(toClient).ok THEN "waiting" ELSE "rejected")
    /\ UNCHANGED <<hostVars, toHost, linkVars, knownVars, timer, attemptVars>>

OnAnswer ==
    /\ Takes({"snapshot", "row"})
    /\ LET f == Head(toClient) IN
       /\ stage' = [stage EXCEPT ![f.by] = IF f.kind = "row" THEN "inspected" ELSE "answered"]
       /\ got' = [got EXCEPT ![f.by] = f]
    /\ UNCHANGED <<hostVars, toHost, linkVars, knownVars, comp, timer, before, left>>

Deliver == OnWelcome \/ OnEvent \/ OnCompletion \/ OnSubmitted \/ OnAnswer

-----------------------------------------------------------------------------
(* Lost connections and dead Hosts. *)

\* Mutant: a reconnect() that is under way is taken to be enough.
MutDisconnected ==
    /\ link # "down" /\ link' = "down"
    /\ timer' = (timer \/ \A a \in Attempt : stage[a] = "idle")
    /\ toHost' = <<>> /\ toClient' = <<>> /\ outbox' = <<>>
    /\ stage' = [a \in Attempt |-> CASE stage[a] \in {"opening", "subscribing"} -> "idle"
                                     [] stage[a] = "inspecting" -> "recovering"
                                     [] OTHER -> stage[a]]
    /\ LET unsent == {r \in Run : \E i \in 1 .. Len(outbox) : outbox[i] = [op |-> "submit", run |-> r]}
       IN \E refused \in BOOLEAN :
            comp' = [r \in Run |-> IF refused /\ r \in unsent /\ comp[r] = "waiting"
                                   THEN "rejected" ELSE comp[r]]
    /\ before' = [a \in Attempt |-> 0] /\ heard' = 0
    /\ UNCHANGED <<socket, known, knownHost, view, left, got>>

\* The close handler: requests that were sent fail with "connection closed",
\* and a reconnect is scheduled.  A socket that could not be opened fails
\* with the error of the system: then a waiting submit is given up.
Disconnected ==
    /\ link # "down" /\ link' = "down" /\ timer' = TRUE
    /\ toHost' = <<>> /\ toClient' = <<>> /\ outbox' = <<>>
    /\ stage' = [a \in Attempt |-> CASE stage[a] \in {"opening", "subscribing"} -> "idle"
                                     [] stage[a] = "inspecting" -> "recovering"
                                     [] OTHER -> stage[a]]
    /\ LET unsent == {r \in Run : \E i \in 1 .. Len(outbox) : outbox[i] = [op |-> "submit", run |-> r]}
       IN \E refused \in BOOLEAN :
            comp' = [r \in Run |-> IF refused /\ r \in unsent /\ comp[r] = "waiting"
                                   THEN "rejected" ELSE comp[r]]
    /\ before' = [a \in Attempt |-> 0] /\ heard' = 0
    /\ UNCHANGED <<socket, known, knownHost, view, left, got>>

\* The Host goes on with the submits it has read.
Drop ==
    /\ Calm /\ socket < MaxSockets /\ Disconnected
    /\ runLane' = [i \in 1 .. Len(runLane) |-> [runLane[i] EXCEPT !.live = FALSE]]
    /\ queryLane' = <<>> /\ answers' = <<>> /\ subscribed' = FALSE
    /\ UNCHANGED <<host, sequence, history, row, phase, active>>

\* initialize(): what a new Host may find in the journal of the events up to
\* the given one, in their order.  Lines of another session are skipped, and
\* those that could not be written are not there.
Restored(last) ==
    UNION {{[i \in 1 .. n |-> history[place[i]]] :
               place \in {p \in [1 .. n -> {k \in 1 .. Len(history) : history[k].seq <= last}] :
                            \A i, j \in 1 .. n : i < j => p[i] < p[j]}} :
           n \in 0 .. Len(history)}

\* The process ends and another one takes over: it goes on from the events
\* in the journal, whose tail may be missing (of older ones it has no more
\* than the history had), and the authority closes the runs whose turn the
\* session file shows as ended.
Die ==
    /\ Calm /\ socket < MaxSockets /\ host < MaxHosts /\ host' = host + 1
    /\ sequence' \in 0 .. sequence /\ history' \in Restored(sequence')
    /\ \E found \in [Run -> Rows] :
         /\ \A r \in Run : found[r] = row[r] \/ (row[r] = "open" /\ found[r] \in Outcome)
         /\ row' = found
    /\ phase' = [r \in Run |-> IF row[r] = "none" THEN "none" ELSE "settled"]
    /\ active' = NoRun
    /\ runLane' = <<>> /\ queryLane' = <<>> /\ answers' = <<>> /\ subscribed' = FALSE
    /\ \/ Disconnected
       \/ link = "down" /\ UNCHANGED <<wireVars, clientVars>>

-----------------------------------------------------------------------------

HostSteps(r) == StartRun(r) \/ EndRun(r) \/ AnnounceEnd(r) \/ Broadcast(r) \/ Hush(r)
Attempts(a) == Reach(a) \/ Subscribe(a) \/ Resume(a) \/ Inspect(a) \/ Judge(a) \/ Finish(a)

Next ==
    \/ \E r \in Run : HostSteps(r) \/ Progress(r) \/ Submit(r)
    \/ Rebuild \/ HostReads \/ HandleSubmit \/ HandleSubscribe \/ HandleInspect \/ SendAnswer
    \/ \E a \in Attempt : TimerFires(a) \/ Attempts(a)
    \/ Deliver \/ Drop \/ Die

Spec == Init /\ [][Next]_vars

\* Event loops run what is due; a run ends at some time, or cannot be ended.
Fairness ==
    /\ \A r \in Run : WF_vars(HostSteps(r))
    /\ WF_vars(HostReads) /\ WF_vars(HandleSubmit) /\ WF_vars(HandleSubscribe \/ HandleInspect)
    /\ WF_vars(SendAnswer) /\ WF_vars(Deliver)
    /\ WF_vars(\E a \in Attempt : TimerFires(a))
    /\ \A a \in Attempt : WF_vars(Attempts(a))

FairSpec == Spec /\ Fairness

-----------------------------------------------------------------------------

\* Within a connection no event is passed over in silence: the next event a
\* client handles follows the last one, repeats an older one, or a gap frame
\* has told it (publish() and subscribeConnection()).
NoSilentHole ==
    toClient # <<>> => (Head(toClient).kind = "event" => Head(toClient).seq <= heard + 1)

\* A completion is never resolved with anything but what the authority holds,
\* however often the connection is lost or the Host replaced
\* (broadcastCompletion() and recoverCompletions()).
OutcomeTrue == \A r \in Run : comp[r] \in Outcome => row[r] = comp[r]

\* Of every run, the authority's row and the client's completion together keep
\* what submitPrompt() promises, over lost frames, connections and Hosts and
\* however many reconnects judge it (settleCompletion(), recoverCompletions()).
Promise == INSTANCE CompletionPromise WITH record <- row, answer <- comp

KeepsPromises == Promise!PromiseSpec

\* A completion that submitPrompt() returned settles, when frames, the
\* connection or the Host are lost too (the class comment of
\* RuntimeHostClient: a client that can reconnect) - unless the run's own
\* completion was rejected in the Host that lives, which tells nobody
\* (trackCompletion()); when that Host dies it settles after all.
CompletionSettles ==
    \A r \in Run : comp[r] = "waiting" ~> (comp[r] # "waiting" \/ phase[r] = "hushed")
=============================================================================
