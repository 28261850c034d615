SPECIFICATION FairSpec
CONSTANTS
  Chains <- PlainChains
  Inputs <- MCInputs
  Capacity = 2
INVARIANTS TypesMatch OwnedOnce EndOfStream AnalyzersOutlive InOrder
PROPERTIES AllPrinted
