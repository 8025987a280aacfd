SPECIFICATION FairSpec
CONSTANTS
    read1 = read1
    read2 = read2
    tree = tree
    other = other
    all = all
    turn = turn
    side = side
    DotDotNames = {"..draft"}
    Task <- MCTask
    Signal = {turn, side}
    AccessesOf <- MCAccessesOf
    SignalOf <- MCSignalOf
    MaxConcurrency = 2
    MaxQueued = 2
INVARIANTS
    TypeOK
    ConflictsKeepOrder
    WorkConserving
PROPERTIES
    ImplementsContract
    EveryCallAnswered
