CONSTANTS
  t1 = t1
  t2 = t2
  t3 = t3
  t4 = t4
  t5 = t5
  r1 = r1
  NoRun = NoRun
  Task <- MCTask
  Run <- MCRun
  ParentOf <- MCParentOf
  MaxConcurrent = 2
  MaxPending = 2
SPECIFICATION FairSpec
\* When all tasks have settled nothing is left to do.
CHECK_DEADLOCK FALSE
INVARIANTS
  TypeOK
  SlotsCounted
  NoIdleSlot
PROPERTIES
  ImplementsContract
  EveryTaskSettles
