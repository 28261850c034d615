SPECIFICATION Spec
CONSTANTS
  Vocabularies <- TimeWords
  MaxLength = 5
  Cascade <- MacoOrder
  Locked <- LockedWord
  initialState <- InitialStateOf
  stopState <- StopStateOf
  Final <- FinalOf
  trans <- TransOf
  Fresh <- FreshOf
  ComputeToken <- TokenOf
  StateActions <- StatusAfter
  ValidMultiWord <- Valid
  Multiword <- NewWord
  Spanish <- SpanishEntry
  Locut <- Entries
  func <- Func
  punct = {"Fp"}
  names <- Named
  prefixes <- Prefixed
  suffixes <- Suffixed
  ignore_words <- NonStrict
  ignore_tags <- NoTags
  RE_NounAdj = {"NN", "JJ"}
  RE_Closed = {"DT", "IN"}
  RE_DateNumPunct = {"Fp", "W", "Z", "Zd"}
  NE_tag = "NP"
  Title_length = 3
INVARIANT MinutesBefore
CHECK_DEADLOCK FALSE
