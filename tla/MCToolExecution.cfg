SPECIFICATION FairSpec
CONSTANTS
    f1 = f1
    f2 = f2
    NoFile = NoFile
    Call = {"first", "second"}
    Batches <- SeveralBatches
    File = {f1}
    Tool = {"write", "shell", "mcp", "search"}
    DeniedFiles = {}
    AllowedTools = {}
    FirstMode = "ask"
    AnswerScopes = {"tool"}
    AnswerModes = {"read-only"}
    Slots = 2
    MaxToolCalls = 2
    MaxRepeatedActions = 2
    RestoredBudgets <- Fresh
    MaxVersion = 1
    MaxTurns = 2
INVARIANTS
    TypeOK
    VerdictsTrue
    NoOverlap
    CriticalAsked
    GrantsBacked
PROPERTIES
    CallsGetResults
CHECK_DEADLOCK FALSE
