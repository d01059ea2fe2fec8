SPECIFICATION Spec
CONSTANTS
    Objects <- MCObjects
    Text = "text"
    Kind <- MCKind
    Supers <- MCSupers
    Inputs <- MCInputs
    Definitions <- MCDefinitions
    Decorated <- MCDecorated
    Does <- MCDoes
    Configs <- MCConfigs
    NewKeys = {"c"}
    MaxCallbacks = 2
    MaxSize = 3
    MaxDepth = 7
    None = None
INVARIANTS
    Complete
    TypeChangesProcessed
    OverflowExplained
PROPERTY
    Terminates
\* A traversal ends.
CHECK_DEADLOCK FALSE
