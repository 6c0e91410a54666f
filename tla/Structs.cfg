SPECIFICATION Spec
CONSTANTS
    Names <- MCNames
    Lower <- MCLower
    Types <- MCTypes
    Values <- MCValues
    Options <- MCOptions
    Nodes <- MCNodes
INVARIANTS
    NothingDropped
    RoundTrip
    PanicsAreNamed
