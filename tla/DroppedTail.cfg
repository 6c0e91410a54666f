SPECIFICATION Spec
CONSTANT Inputs <- LastInputs
INVARIANT EndIsTheEnd
