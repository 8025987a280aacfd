SPECIFICATION FairSpec
CONSTANTS
    first = first
    second = second
    NoRun = NoRun
    Run = {first, second}
    Faults = {"ledger", "skills", "checkpoint", "sink", "authority", "context"}
    Decisions <- GateOutcomes
INVARIANTS
    TypeOK
    ExecutedOnce
    CompletedLeavesNoCheckpoint
    LedgerFollowsFact
    StartNeverRefused
PROPERTIES
    ImplementsSingleWriter
    ImplementsLifecycle
    CancelledRunSettles
