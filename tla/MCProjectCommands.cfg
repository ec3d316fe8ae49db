CONSTANTS
    Environ <- MCEnviron
    Readings <- MCReadings
    Servers <- MCServers
    MaxAsked = 3
    MaxStray = 1
    Commands = {1, 2, 3}
    ConfigFiles <- MCConfigFiles
    OtherFiles <- MCOtherFiles
    InitContent <- MCInitContent
    PromptContent <- MCPromptContent
    Prompt = "prompt"
    Edits <- MCEdits
    MaxEdits = 2
SPECIFICATION MCSpec
CHECK_DEADLOCK FALSE
INVARIANTS
    ConfigIsDeclared
    DriftIsNoticed
    ChildrenAreAccountedFor
    AnswersFollowNoise
