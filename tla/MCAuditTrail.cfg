CONSTANTS
    MaxRecoveries = 2
    MaxRecords = 12
    NoName = NoName
    Evaluate <- MCEvaluate
    Configs <- MCTrailConfigs
    Completions <- MCTrailCompletions
    ToolValues <- MCToolValues
    IsObject <- MCIsObject
SPECIFICATION TrailSpec
INVARIANTS
    LoopLogVerifies
    DenialIsTheLastWord
    TokensAreAccountedFor
    ApprovalsAreAccountedFor
PROPERTY
    OutsideCallsAreRecorded
