SPECIFICATION Spec
CONSTANTS
    g1 = g1
    g2 = g2
    g3 = g3
    Outer = Outer
    Inner = Inner
    Alias = Alias
    Goroutines <- MCGoroutines
    Types <- MCTypes
    Names <- MCNames
    Name <- MCName
    Elements <- MCElements
    Kinds <- MCKinds
    Programs <- MCPrograms
INVARIANTS
    TypeOK
    IndexesAgree
    AloneIsSafe
    FunctionsAreThere
    AutoAcceptsEither
    FirstReadReported
