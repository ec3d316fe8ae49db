CONSTANTS
    Nodes <- MCNodes
    Graphs <- MCGraphs
    Kind <- MCKind
    Projects <- MCProjects
    NoProject = NoProject
    Names <- MCNames
    Root = Root
    Foreign = Foreign
    Documents <- MCDocuments
    TypeLevels <- MCTypeLevels
    Strung <- MCStrung
    Catalog <- MCCatalog
    MaxNodes = 11
    NoSchema = NoSchema
    NoTool = NoTool
    NoRule = NoRule
SPECIFICATION MCSpec
CHECK_DEADLOCK FALSE
INVARIANTS
    CycleIsReal
    OrderIsTopological
    ReachableIsExact
    ProjectsAreOrdered
    UnusedIsUnreachable
    SchemasAreDecided
    DispatchesWereCompiled
    AcceptedRulesEvaluate
    ToolsAreDecided
    AcceptedProjectsAreSound
PROPERTY WalksEnd
