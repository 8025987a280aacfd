CONSTANTS
  a1 = a1
  f1 = f1
  f2 = f2
  h1 = h1
  h2 = h2
  NoFire = NoFire
  Automation <- MCAutomation
  Fire <- MCFire
  AutomationOf <- MCAutomationOf
  Input <- MCInput
  Host <- MCHost
  PauseAfter = 2
  MaxWaiting = 1
SPECIFICATION Spec
INVARIANTS
  TypeOK
  FireRunsOnce
  CountsCompletions
  StopsAfterFailures
PROPERTIES
  ImplementsContract
SYMMETRY Symmetry
\* When both processes have exited nothing is left to do.
CHECK_DEADLOCK FALSE
