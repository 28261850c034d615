SPECIFICATION Spec
CONSTANTS
  Cases <- LongTokens
  Batch = 2
INVARIANTS AnswersAreNew
