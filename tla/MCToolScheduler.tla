-------------------------- MODULE MCToolScheduler --------------------------
(* A turn of five calls: two readers of one file, a writer of the tree     *)
(* above it, a writer that the source takes for unrelated because of its   *)
(* name, and a call with unknown effects.  Two calls carry one signal, the *)
(* others another.                                                         *)
EXTENDS ToolScheduler

CONSTANTS read1, read2, tree, other, all, turn, side

MCTask == {read1, read2, tree, other, all}

MCAccessesOf == [t \in MCTask |->
    CASE t = tree -> {FileAccess("write", <<"repo">>, TRUE)}
      [] t \in {read1, read2} -> {FileAccess("read", <<"repo", "doc">>, FALSE)}
      [] t = other -> {FileAccess("readwrite", <<"repo", "..draft">>, FALSE)}
      [] t = all -> {AllAccess}]

MCSignalOf == [t \in MCTask |-> IF t \in {tree, read2} THEN side ELSE turn]
=============================================================================
