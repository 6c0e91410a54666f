SPECIFICATION Spec
CONSTANTS
    Tokens <- EntryTokens
    Options <- StrictOptions
    MaxDepth = 4
    MaxNodes = 2
    MaxValues = 1
    MaxComments = 0
PROPERTY TypeStaysInNode
