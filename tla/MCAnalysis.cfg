SPECIFICATION Spec
CONSTANTS
  Files <- GrammarFiles
  filemap <- Known
  Sentences <- Texts
  Options <- OptionSets
  get_short_tag <- Short
  ZERO = ZERO
  Pi <- PiOf
  Transition <- TransOf
  Log <- LogOf
  PWord <- WordOf
  PTag <- TagOf
  Forbidden <- NoRules
  Length <- Letters
  chgram <- CompletionRules
  labrules <- LabellingRules
  unique <- Uniques
  Meets <- MeetsIt
INVARIANTS KBest SelectedOnPath SpansKept ChartExact LeavesAreWords OneHead GovernorInRule EveryWordHasEdges WordsInDeps ChunksApart
