SPECIFICATION Spec
CONSTANTS
    Tokens <- BlockTokens
    Options <- StrictOptions
    MaxDepth = 4
    MaxNodes = 2
    MaxValues = 1
    MaxComments = 0
INVARIANT AcceptedIsClosed
