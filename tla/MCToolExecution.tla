-------------------------- MODULE MCToolExecution --------------------------
(* Two calls of a session, in the same turn or one after the other: writes *)
(* of a file that the user is shown, a critical shell command, an external *)
(* tool that asks and a lookup that does not.                              *)
EXTENDS ToolExecution

CONSTANTS f1, f2

KindOf(source, tool, action, level, file, reach, repeatable) ==
    [source |-> source, tool |-> tool, action |-> action, level |-> level,
     file |-> file, reach |-> reach, repeatable |-> repeatable]

Write(f) == KindOf("builtin", "write", "write", "medium", f, {f}, FALSE)
Critical == KindOf("builtin", "shell", "shell", "critical", NoFile, File, FALSE)
Outside  == KindOf("external", "mcp", "shell", "medium", NoFile, File, FALSE)
Lookup   == KindOf("builtin", "search", "read", "low", NoFile, {}, TRUE)

Pair(k, l) == [c \in Call |-> IF c = "first" THEN k ELSE l]

SeveralBatches == {Pair(Write(f1), Write(f1)), Pair(Critical, Critical),
                   Pair(Outside, Write(f1)), Pair(Outside, Lookup),
                   Pair(Critical, Write(f1))}
Fresh == {Unspent, [calls |-> 1, repeats |-> 1]}
TwoFiles == {Pair(Write(f1), Write(f2))}
=============================================================================
