CONSTANTS
    MaxRecoveries = 1
    NoName = NoName
    Evaluate <- MCEvaluate
    Configs <- MCOneTool
    Completions <- MCCompletions
    ToolValues <- MCToolValues
    IsObject <- MCIsObject
SPECIFICATION Spec
INVARIANT OnlyListedToolsAreExecuted
