--------------------------- MODULE MCSubagentTasks ---------------------------
(***************************************************************************)
(* Five tasks, two of them children of a run and three started by the      *)
(* user; two slots and two places in the queue.                            *)
(***************************************************************************)
EXTENDS SubagentTasks

CONSTANTS t1, t2, t3, t4, t5, r1

MCTask == {t1, t2, t3, t4, t5}
MCRun == {r1}
MCParentOf == [t \in MCTask |-> IF t \in {t1, t2} THEN r1 ELSE NoRun]
=============================================================================
