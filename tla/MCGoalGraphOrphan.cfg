CONSTANTS
  a = a
  b = b
  c = c
  Node <- MCNode
  Dep <- MCDep
  NoNode = NoNode
  MaxRestarts = 2
SPECIFICATION Spec
CHECK_DEADLOCK FALSE
INVARIANT
  NoOrphanNode
