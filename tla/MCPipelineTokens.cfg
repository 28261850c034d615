SPECIFICATION Spec
CONSTANTS
  Chains <- TokenChains
  Inputs <- MCInputs
  Capacity = 1
INVARIANTS TypesMatch
