CONSTANTS
    MaxRecoveries = 1
    NoName = NoName
    Evaluate <- MCEvaluate
    Configs <- MCAskingLoop
    Completions <- MCCompletions
    ToolValues <- MCToolValues
    IsObject <- MCIsObject
SPECIFICATION Spec
INVARIANT LoopHookFailsClosed
