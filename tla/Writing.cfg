SPECIFICATION Spec
CONSTANTS
    Cases <- MCCases
    AllNodes <- MCNodes
    IntLimit = 16
    Sizes = {8, 32}
INVARIANTS ReadsBack LostIsConfined IntegersArrive
