SPECIFICATION Spec
CONSTANTS
  Letters <- Alphabet
  Items <- Items1
  Keys <- Forms
  Data <- ItemLists
  DictionaryFiles <- DictFiles
  Analyses <- More
  MaxUpdates = 2
  lowercase <- Small
  Before <- InOrder
  affix <- AffixRules
  fix_accentuation <- SameAccents
  capitalization <- Caps
  capitalize <- WithCaps
  Sentences <- Texts
  Options <- OptionSets
INVARIANTS InverseAgrees PartsInPlace
PROPERTIES MapImplemented
