CONSTANTS
  Run = {r1}
  NoRun = NoRun
  Outcome = {completed}
  Attempt = {a1, a2}
  HistoryLimit = 1
  MaxEvents = 2
  MaxSockets = 3
  MaxHosts = 2
SPECIFICATION FairSpec
\* A connected client with no run to submit has nothing to do.
CHECK_DEADLOCK FALSE
INVARIANTS
  TypeOK
  NoSilentHole
PROPERTIES
  KeepsPromises
  CompletionSettles
