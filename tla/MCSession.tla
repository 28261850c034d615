----------------------------- MODULE MCSession -----------------------------
(* Sessions for each input format.  The texts whose answers the client can   *)
(* follow are kept apart from those that make the two disagree.              *)
EXTENDS Session

Option(in, out, flush, coref) ==
  [InputFormat |-> in, OutputFormat |-> out, AlwaysFlush |-> flush, Coref |-> coref]
Case(opts, texts) == [options : {opts}, text : texts]

PlainTexts    == UNION {[1..n -> 0..2] : n \in 0..3}
OneParagraph  == UNION {[1..n -> 1..2] : n \in 0..3}
ShortTokens   == {<<1>>, <<1, 1>>, <<0, 1, 1>>}              \* no more than Batch + 1
SplittedTexts == {<<1, 1, 0, 1, 0>>, <<1, 0, 1, 1>>, <<1>>, <<>>}  \* one blank line after each

FollowedCases ==
  Case(Option(PLAIN, TAGGED, FALSE, FALSE), PlainTexts) \cup
  Case(Option(PLAIN, SPLITTED, TRUE, FALSE), PlainTexts) \cup
  Case(Option(PLAIN, DEP, FALSE, TRUE), OneParagraph) \cup
  Case(Option(TOKEN, MORFO, FALSE, FALSE), ShortTokens) \cup
  Case(Option(SPLITTED, TAGGED, FALSE, FALSE), SplittedTexts) \cup
  Case(Option(PLAIN, TOKEN, FALSE, FALSE), {<<>>, <<1>>, <<1, 1>>})  \* one token per line

\* What the theorems about sessions assume of them.
ASSUME FollowedAssumption == \A c \in FollowedCases : Followed(c)

LongTokens  == Case(Option(TOKEN, MORFO, FALSE, FALSE), {<<1, 1, 1, 1, 1, 1>>})
=============================================================================
