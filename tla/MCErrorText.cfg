CONSTANTS
    Runs <- MCRuns
    UserData = {u}
    ToolData = {s}
    Absent = Absent
    Redacted = Redacted
    Configs <- MCConfigs
    MaxMishaps = 2
SPECIFICATION Spec
INVARIANT TokenizedIsNeverSent
