SPECIFICATION Spec
CONSTANTS
    f1 = f1
    f2 = f2
    NoFile = NoFile
    Call = {"first", "second"}
    Batches <- TwoFiles
    File = {f1, f2}
    Tool = {"write", "shell", "mcp", "search"}
    DeniedFiles = {}
    AllowedTools = {}
    FirstMode = "auto"
    AnswerScopes = {"once"}
    AnswerModes = {}
    Slots = 2
    MaxToolCalls = 2
    MaxRepeatedActions = 2
    RestoredBudgets <- Fresh
    MaxVersion = 1
    MaxTurns = 1
INVARIANTS
    SnapshotFirst
CHECK_DEADLOCK FALSE
