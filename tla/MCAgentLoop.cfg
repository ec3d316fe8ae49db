CONSTANTS
    MaxRecoveries = 1
    NoName = NoName
    Evaluate <- MCEvaluate
    Configs <- MCConfigs
    Completions <- MCCompletions
    ToolValues <- MCToolValues
    IsObject <- MCIsObject
SPECIFICATION FairSpec
INVARIANTS
    TypeOK
    SettledIsPurged
    CallIsCleared
    ExecutionIsCleared
    TranscriptIsClassified
    BudgetHolds
PROPERTIES
    CallsOnlyAdd
    FollowsLifecycle
    SettlesUnlessHeld
