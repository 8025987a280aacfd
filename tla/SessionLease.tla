---------------------------- MODULE SessionLease ----------------------------
(***************************************************************************)
(* src/runtime/SessionLease.ts: the lock file that lets one runtime        *)
(* process write a session.  The file calls of a process are synchronous   *)
(* for that process and interleave freely with those of the others, so     *)
(* each call on the lock path is a step here.                              *)
(*                                                                         *)
(* A file is known by its device and inode; a process has at most one lock *)
(* file at the path, so the process that made it stands for its identity.  *)
(* A process that was started again is another element of Process.         *)
(*                                                                         *)
(* Nothing keeps two survivors of a crash from reclaiming the dead lease   *)
(* at the same time, so one may take away the lock file the other has just *)
(* made.  `robbed' records such thefts; the code does not keep it.         *)
(***************************************************************************)
EXTENDS Naturals

CONSTANTS
    Process,
    NoProcess,
    MaxAttempts     \* turns of the loop of acquire()

ASSUME LeaseAssumption ==
    /\ NoProcess \notin Process
    /\ MaxAttempts \in Nat \ {0}

VARIABLES
    owner,     \* the process that made the file at the lock path, or NoProcess
    written,   \* the file at the path has its content
    pc,        \* [Process -> the call the process makes next]
    attempt,   \* [Process -> turn of its acquire loop]
    existing,  \* [Process -> the process named by the lease it has read]
    noted,     \* [Process -> identity retireStaleLease took before its rename]
    robbed     \* history: processes that lost a live lease, each with where it was

vars == <<owner, written, pc, attempt, existing, noted, robbed>>

Place == {"idle", "create", "write", "verify", "read", "judge", "retire", "rename", "held",
          "unlink", "dead"}

\* a process here relies on the lock file being its own
Leased == {"held", "unlink"}

Alive(p) == pc[p] # "dead"

At(p, place) == pc[p] = place

Goto(p, place) == pc' = [pc EXCEPT ![p] = place]

Init ==
    /\ owner = NoProcess
    /\ written = FALSE
    /\ pc = [p \in Process |-> "idle"]
    /\ attempt = [p \in Process |-> 0]
    /\ existing = [p \in Process |-> NoProcess]
    /\ noted = [p \in Process |-> NoProcess]
    /\ robbed = {}

\* what comes of taking away the file at the path for the one of `known'
Lost(known) ==
    IF owner \in {NoProcess, known} \/ pc[owner] \notin Leased
    THEN {} ELSE {<<owner, pc[owner]>>}

-----------------------------------------------------------------------------
\* acquire() of a session this runtime has no lease of
Acquire(p) ==
    /\ At(p, "idle")
    /\ attempt' = [attempt EXCEPT ![p] = 1]
    /\ Goto(p, "create")
    /\ UNCHANGED <<owner, written, existing, noted, robbed>>

\* open(O_CREAT | O_EXCL): an empty file of one's own, or EEXIST
Create(p) ==
    /\ At(p, "create")
    /\ \/ /\ owner = NoProcess
          /\ owner' = p
          /\ written' = FALSE
          /\ Goto(p, "write")
       \/ /\ owner # NoProcess
          /\ Goto(p, "read")
          /\ UNCHANGED <<owner, written>>
    /\ UNCHANGED <<attempt, existing, noted, robbed>>

\* writeAll and fsync go to the descriptor, wherever the file is by now
Write(p) ==
    /\ At(p, "write")
    /\ written' = (written \/ owner = p)
    /\ Goto(p, "verify")
    /\ UNCHANGED <<owner, attempt, existing, noted, robbed>>

\* the file at the path is still the one just made, or acquire() throws
Verify(p) ==
    /\ At(p, "verify")
    /\ Goto(p, IF owner = p THEN "held" ELSE "idle")
    /\ UNCHANGED <<owner, written, attempt, existing, noted, robbed>>

\* the file at the path has its content
Readable == owner # NoProcess /\ written

\* mutant: a lock file that cannot be read is taken for a stale one
MutReadLease(p) ==
    /\ At(p, "read")
    /\ existing' = [existing EXCEPT ![p] = owner]
    /\ Goto(p, IF owner = NoProcess THEN "idle" ELSE IF written THEN "judge" ELSE "retire")
    /\ UNCHANGED <<owner, written, attempt, noted, robbed>>

\* readLease throws for a file that is gone or has no content
ReadLease(p) ==
    /\ At(p, "read")
    /\ \/ /\ Readable
          /\ existing' = [existing EXCEPT ![p] = owner]
          /\ Goto(p, "judge")
       \/ /\ ~Readable
          /\ Goto(p, "idle")
          /\ UNCHANGED existing
    /\ UNCHANGED <<owner, written, attempt, noted, robbed>>

\* a live process named by the lease is a SessionLeaseError, a dead one's file
\* is to be retired
Judge(p) ==
    /\ At(p, "judge")
    /\ \/ /\ Alive(existing[p])
          /\ existing' = [existing EXCEPT ![p] = NoProcess]
          /\ Goto(p, "idle")
       \/ /\ ~Alive(existing[p])
          /\ Goto(p, "retire")
          /\ UNCHANGED existing
    /\ UNCHANGED <<owner, written, attempt, noted, robbed>>

\* lstat of the path; acquire() throws when nothing is there
Retire(p) ==
    /\ At(p, "retire")
    /\ noted' = [noted EXCEPT ![p] = owner]
    /\ \/ /\ owner # NoProcess
          /\ Goto(p, "rename")
          /\ UNCHANGED existing
       \/ /\ owner = NoProcess
          /\ existing' = [existing EXCEPT ![p] = NoProcess]
          /\ Goto(p, "idle")
    /\ UNCHANGED <<owner, written, attempt, robbed>>

\* mutant: one turn of the loop too many
MutRename(p) ==
    /\ At(p, "rename")
    /\ owner' = NoProcess
    /\ written' = FALSE
    /\ existing' = [existing EXCEPT ![p] = NoProcess]
    /\ noted' = [noted EXCEPT ![p] = NoProcess]
    /\ robbed' = robbed \cup Lost(existing[p])
    /\ IF owner # NoProcess /\ owner = noted[p] /\ attempt[p] <= MaxAttempts
       THEN attempt' = [attempt EXCEPT ![p] = @ + 1] /\ Goto(p, "create")
       ELSE attempt' = attempt /\ Goto(p, "idle")

\* rename moves away whatever is at the path now, and only then is looked at;
\* the loop goes on after the right file, acquire() throws after another
Rename(p) ==
    /\ At(p, "rename")
    /\ owner' = NoProcess
    /\ written' = FALSE
    /\ existing' = [existing EXCEPT ![p] = NoProcess]
    /\ noted' = [noted EXCEPT ![p] = NoProcess]
    /\ robbed' = robbed \cup Lost(existing[p])
    /\ \/ /\ owner # NoProcess /\ owner = noted[p] /\ attempt[p] < MaxAttempts
          /\ attempt' = [attempt EXCEPT ![p] = @ + 1]
          /\ Goto(p, "create")
       \/ /\ owner = NoProcess \/ owner # noted[p] \/ attempt[p] >= MaxAttempts
          /\ attempt' = attempt
          /\ Goto(p, "idle")

\* mutant: the file is not looked at
MutRelease(p) ==
    /\ At(p, "held")
    /\ Goto(p, "unlink")
    /\ UNCHANGED <<owner, written, attempt, existing, noted, robbed>>

\* release(): the lease is given up; the file is looked at first
Release(p) ==
    /\ At(p, "held")
    /\ Goto(p, IF owner = p THEN "unlink" ELSE "idle")
    /\ UNCHANGED <<owner, written, attempt, existing, noted, robbed>>

\* unlink of whatever is at the path now
Unlink(p) ==
    /\ At(p, "unlink")
    /\ owner' = NoProcess
    /\ written' = FALSE
    /\ robbed' = robbed \cup Lost(p)
    /\ Goto(p, "idle")
    /\ UNCHANGED <<attempt, existing, noted>>

Crash(p) ==
    /\ Alive(p)
    /\ Goto(p, "dead")
    /\ attempt' = [attempt EXCEPT ![p] = 0]
    /\ existing' = [existing EXCEPT ![p] = NoProcess]
    /\ noted' = [noted EXCEPT ![p] = NoProcess]
    /\ UNCHANGED <<owner, written, robbed>>

\* every process has crashed
AllDead ==
    /\ \A p \in Process : ~Alive(p)
    /\ UNCHANGED vars

Next ==
    \/ AllDead
    \/ \E p \in Process :
          \/ Acquire(p) \/ Create(p) \/ Write(p) \/ Verify(p)
          \/ ReadLease(p) \/ Judge(p) \/ Retire(p) \/ Rename(p)
          \/ Release(p) \/ Unlink(p) \/ Crash(p)

Spec == Init /\ [][Next]_vars

-----------------------------------------------------------------------------
(* Every variable keeps its type; acquire() makes a bounded number of      *)
(* attempts, and an empty path has no content.                             *)
TypeOK ==
    /\ owner \in Process \cup {NoProcess}
    /\ written \in BOOLEAN
    /\ pc \in [Process -> Place]
    /\ attempt \in [Process -> 0 .. MaxAttempts]
    /\ existing \in [Process -> Process \cup {NoProcess}]
    /\ noted \in [Process -> Process \cup {NoProcess}]
    /\ robbed \subseteq Process \X Leased
    /\ written => owner # NoProcess

(* A session is written by one runtime at a time (SessionLease.ts 4).      *)
OneHolder == \A p, q \in Process : At(p, "held") /\ At(q, "held") => p = q

(* A runtime that holds the lease may be writing at any moment.            *)
Holders == {p \in Process : At(p, "held")}

\* until one survivor has taken another one's new lease
Unrobbed == IF robbed = {} THEN Holders ELSE {}

Session == INSTANCE SingleWriter
    WITH Runtime <- Process, holders <- Unrobbed, writers <- Unrobbed

(* The lease passes from one process to another only after the first has   *)
(* released it or died, and never to two, until a survivor that judged     *)
(* another file takes the lease of a live holder (SessionLease.ts 4, 113). *)
ImplementsSingleWriter == Session!WriterSpec

(* A lock file disappears from the path only when its own process gives it *)
(* up or is dead, never for being unknown (SessionLease.ts 142).  All else *)
(* comes of one race: a reclaimer takes the file that has replaced the one *)
(* it judged, or a process robbed between the look and the unlink of its   *)
(* release unlinks its successor's.                                        *)
OnlyOwnOrDeadRemoved ==
    [][owner # NoProcess /\ owner' # owner =>
          \/ At(owner, "unlink")
          \/ ~Alive(owner)
          \/ \E p \in Process : At(p, "rename") /\ pc'[p] # "rename" /\ owner # existing[p]
          \/ \E p \in Process : At(p, "unlink") /\ <<p, "unlink">> \in robbed]_vars
=============================================================================
