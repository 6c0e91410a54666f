SPECIFICATION Spec
CONSTANT Inputs <- MCInputs
INVARIANTS
    RescansAlone
    MarkerDecides
    VersionIsExplained
    AdjacencyIsWidth
    RawStringsAreShortest
    CommentsNest
    LosesOneTokenAtMost
