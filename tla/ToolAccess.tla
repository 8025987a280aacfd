----------------------------- MODULE ToolAccess -----------------------------
(***************************************************************************)
(* The resource declarations of src/tools/access.ts: a tool call declares  *)
(* a set of accesses, and two calls may run side by side only when no pair *)
(* of their accesses conflicts.  A path is the sequence of its names; an   *)
(* access is a record, as in the source.                                   *)
(***************************************************************************)
EXTENDS Naturals, Sequences

CONSTANT
    \* the names whose text starts with "..", for which the
    \* source's test  !relative.startsWith("..")  fails even inside the tree.
    DotDotNames

AllAccess == [kind |-> "all"]

FileAccess(operation, path, recursive) ==
    [kind |-> "file", operation |-> operation, path |-> path, recursive |-> recursive]

IsWriteOperation(operation) == operation \in {"write", "readwrite"}

StrictPrefix(parent, child) ==
    /\ Len(parent) < Len(child)
    /\ SubSeq(child, 1, Len(parent)) = parent

\* path.relative(parent, child) is non-empty, does not start with "..", is not absolute.
IsWithin(parent, child) ==
    /\ StrictPrefix(parent, child)
    /\ child[Len(parent) + 1] \notin DotDotNames

\* mutant: only the tree of the left operand is looked at
MutPathOverlaps(left, right) ==
    \/ left.path = right.path
    \/ left.recursive /\ IsWithin(left.path, right.path)

PathOverlaps(left, right) ==
    \/ left.path = right.path
    \/ left.recursive /\ IsWithin(left.path, right.path)
    \/ right.recursive /\ IsWithin(right.path, left.path)

Conflicts(left, right) ==
    \/ left.kind = "all"
    \/ right.kind = "all"
    \/ /\ PathOverlaps(left, right)
       /\ IsWriteOperation(left.operation) \/ IsWriteOperation(right.operation)

\* ToolAccesses.conflict
Conflict(leftAccesses, rightAccesses) ==
    \E left \in leftAccesses, right \in rightAccesses : Conflicts(left, right)

=============================================================================
