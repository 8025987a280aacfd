SPECIFICATION Spec
CONSTANTS
    first = first
    second = second
    NoRun = NoRun
    Run = {first}
    Faults = {}
    Decisions <- MayGoOn
INVARIANT VerdictStands
