CONSTANTS
    Nodes <- MCNodes
    Graphs <- NoGraphs
    Kind <- MCKind
    Projects <- FewProjects
    NoProject = NoProject
    Names <- MCNames
    Root = Root
    Foreign = Foreign
    Documents <- FewDocuments
    TypeLevels <- MCTypeLevels
    Strung <- MCStrung
    Catalog <- MCCatalog
    MaxNodes = 11
    NoSchema = NoSchema
    NoTool = NoTool
    NoRule = NoRule
SPECIFICATION MCSpec
CHECK_DEADLOCK FALSE
INVARIANT CompiledRulesEvaluate
