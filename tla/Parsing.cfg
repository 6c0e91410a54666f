SPECIFICATION Spec
CONSTANTS
    Tokens <- AllTokens
    Options <- AllOptions
    MaxDepth = 4
    MaxNodes = 2
    MaxValues = 1
    MaxComments = 2
ACTION_CONSTRAINT InConcern
INVARIANTS
    TypeOK
    NoInternalError
    PropertyHasName
    OpenNodesFormPath
    IgnoredBlockMarks
PROPERTIES
    OpeningUsesPending
    OnlyInnermostGrows
    ReentersInScope
    CommentsKept
