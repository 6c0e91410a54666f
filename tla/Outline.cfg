SPECIFICATION OutlineSpec
CONSTANTS
    Tokens <- OutlineTokens
    Options <- OutlineOptions
    MaxDepth = 5
    MaxNodes = 3
    MaxValues = 2
    MaxComments = 0
INVARIANTS
    StackDiscipline
    NodeSlashdashInScope
    IgnoredBlocksDetached
PROPERTIES
    ImplementsOutline
    TokenSettled
ACTION_CONSTRAINT FewItems
