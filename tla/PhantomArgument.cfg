SPECIFICATION Spec
CONSTANTS
    Tokens <- StringTokens
    Options <- V1Options
    MaxDepth = 4
    MaxNodes = 2
    MaxValues = 2
    MaxComments = 0
ACTION_CONSTRAINT ValueTouches
INVARIANT ArgumentsComeFromTokens
