---------------------------- MODULE FireContract ----------------------------
(***************************************************************************)
(* What the automation scheduler promises of each fire, whichever processes *)
(* have it in their queues, stop, crash or recover it: its work is          *)
(* submitted at most once and never after the fire was reported over, it is *)
(* reported completed only if its work is, and what was reported is taken   *)
(* back by nobody but an operation that had looked at the fire before.      *)
(* Fires are independent of each other: one step may move several.          *)
(***************************************************************************)
CONSTANT Fire

VARIABLES
    work,    \* work[f]: the run of the fire: none, active, or its end
    mark,    \* mark[f]: waiting, the fire's end, or gone with its automation
    looked   \* fires that were seen waiting by an operation which is not over

contractVars == <<work, mark, looked>>

ContractInit ==
    /\ work = [f \in Fire |-> "none"]
    /\ mark = [f \in Fire |-> "waiting"]
    /\ looked = {}

SameLook(f) == f \in looked' <=> f \in looked

\* An executor may submit what is gone, or what another one has given up for
\* lost, but nothing that was reported over.
Submit(f) ==
    /\ work[f] = "none" /\ mark[f] \notin {"completed", "failed"}
    /\ work'[f] = "active" /\ mark'[f] = mark[f] /\ SameLook(f)

WorkEnds(f) ==
    /\ work[f] = "active" /\ work'[f] \in {"completed", "failed"}
    /\ mark'[f] = mark[f] /\ SameLook(f)

Look(f) == mark[f] = "waiting" /\ mark'[f] = mark[f] /\ work'[f] = work[f]

\* An operation that looked writes the end, in place of any other one.
Conclude(f) ==
    /\ f \in looked /\ mark[f] # "gone"
    /\ mark'[f] = "failed" \/ (mark'[f] = "completed" /\ work[f] = "completed")
    /\ work'[f] = work[f]

\* One that looked puts off what has not begun, even if a person is asked.
PutOff(f) ==
    /\ f \in looked /\ work[f] = "none"
    /\ mark[f] \in {"waiting", "needs_approval"} /\ mark'[f] = "waiting"
    /\ work'[f] = work[f]

\* Nobody knows how the work ended.
AskPerson(f) ==
    /\ mark[f] = "waiting" /\ mark'[f] = "needs_approval"
    /\ work'[f] = work[f] /\ SameLook(f)

Remove(f) == mark'[f] = "gone" /\ work'[f] = work[f] /\ SameLook(f)

\* Nothing happens to the fire, or an operation is over without a word.
Stays(f) == mark'[f] = mark[f] /\ work'[f] = work[f] /\ (f \in looked' => f \in looked)

ContractNext ==
    \A f \in Fire : \/ Submit(f) \/ WorkEnds(f) \/ Look(f) \/ Conclude(f)
                    \/ PutOff(f) \/ AskPerson(f) \/ Remove(f) \/ Stays(f)

ContractSpec == ContractInit /\ [][ContractNext]_contractVars
=============================================================================
