SPECIFICATION Spec
CONSTANTS
  Word <- MCWord
  MarkerPairs <- MCMarkerPairs
  enders <- MCenders
  starters <- MCstarters
  Capitalized <- MCCapitalized
  Options <- MCOptions
  MaxInput = 4
INVARIANTS MarkerStateOfBuffer FlushForgets NoMissedEnd Conserved
PROPERTIES NoEndInsideMarkers ImplementsSegmenter
