CONSTANTS
    MaxRecoveries = 1
    NoName = NoName
    Evaluate <- MCEvaluate
    Configs <- MCTwoQuestions
    Completions <- MCCompletions
    ToolValues <- MCToolValues
    IsObject <- MCIsObject
SPECIFICATION YesSpec
PROPERTY AnsweredRunsSettle
