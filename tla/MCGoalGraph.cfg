CONSTANTS
  a = a
  b = b
  c = c
  Node <- MCNode
  Dep <- MCDep
  NoNode = NoNode
  MaxRestarts = 2
SPECIFICATION FairSpec
\* A graph that has ended leaves nothing to do.
CHECK_DEADLOCK FALSE
INVARIANTS
  TypeOK
  DispatchedOnce
PROPERTIES
  ImplementsPlan
  RunningGraphSettles
