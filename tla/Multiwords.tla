----------------------------- MODULE Multiwords -----------------------------
(***************************************************************************)
(* The automata of maco::analyze, each on the sentence that the one before *)
(* leaves: numbers and dates, here those of Spanish, then the multiwords   *)
(* of a list and proper nouns.  A word has a lower-case form, its          *)
(* analyses, the words it was built from, the number or date that its      *)
(* lemma says, and a shape: "lower", "Capital", "CAPS", "I" (one capital   *)
(* letter), "A_B" (capitals and other signs) or "none" (no letters).       *)
(* Quantities, built on automat<T> too, are not called; the dictionary,    *)
(* that is called after dates, has analyzed the words from the start.      *)
(***************************************************************************)
EXTENDS Automat, SequencesExt

CONSTANTS Spanish(_),                                    \* of NumbersEs and DatesEs
          Locut,                                         \* of Locutions
          func, punct, names, prefixes, suffixes, ignore_words, ignore_tags,
          RE_NounAdj, RE_Closed, RE_DateNumPunct, NE_tag, Title_length  \* of ProperNouns

Q == INSTANCE NumbersEs
D == INSTANCE DatesEs
L == INSTANCE Locutions
N == INSTANCE ProperNouns

\* The constants of Automat, in its order.  The modules, as maco::analyze calls them.
MacoOrder == <<"numbers", "dates", "locutions", "np">>

LockedWord(w)     == w.locked
InitialStateOf(c) == CASE c = "numbers"   -> Q!NumInitialState
                       [] c = "dates"     -> D!DateInitialState
                       [] c = "locutions" -> L!LocInitialState
                       [] c = "np"        -> N!NpInitialState
StopStateOf(c)    == CASE c = "numbers"   -> Q!NumStopState
                       [] c = "dates"     -> D!DateStopState
                       [] c = "locutions" -> L!LocStopState
                       [] c = "np"        -> N!NpStopState
FinalOf(c)        == CASE c = "numbers"   -> Q!NumFinal
                       [] c = "dates"     -> D!DateFinal
                       [] c = "locutions" -> L!LocFinal
                       [] c = "np"        -> N!NpFinal
FreshOf(c)        == CASE c = "numbers"   -> Q!NumFresh
                       [] c = "dates"     -> D!DateFresh
                       [] c = "locutions" -> L!LocFresh
                       [] c = "np"        -> N!NpFresh

TransOf(c, s, token) == CASE c = "numbers"   -> Q!NumTrans(s, token)
                          [] c = "dates"     -> D!DateTrans(s, token)
                          [] c = "locutions" -> L!LocTrans(s, token)
                          [] c = "np"        -> N!NpTrans(s, token)

TokenOf(c, s, k, sentence, status) ==
  CASE c = "numbers"   -> Q!NumComputeToken(sentence[k].word)
    [] c = "dates"     -> D!DateComputeToken(s, sentence[k].word)
    [] c = "locutions" -> L!LocComputeToken(sentence[k].word, status)
    [] c = "np"        -> N!NpComputeToken(s, k, sentence)

\* For locutions, what ComputeToken itself does to the status.
StatusAfter(c, origin, newstate, token, k, sentence, status) ==
  LET w == sentence[k].word IN
  CASE c = "numbers"   -> Q!NumStateActions(newstate, token, w, status)
    [] c = "dates"     -> D!DateStateActions(origin, newstate, token, w, status)
    [] c = "locutions" -> L!Accumulate(w, status)
    [] c = "np"        -> N!NpStateActions(newstate, token, status)

\* Numbers and dates accept whatever they match.
Valid(c, words, status) == /\ c = "locutions" => L!LocValidMultiWord(words, status)
                           /\ c = "np" => N!NpValidMultiWord(words)

AnalysesOf(c, words, s, status) == CASE c = "numbers"   -> Q!NumAnalyses(s, status)
                                     [] c = "dates"     -> D!DateAnalyses
                                     [] c = "locutions" -> L!Analyses(words, status)
                                     [] c = "np"        -> N!Analyses(words, status)

\* Shape of forms joined with "_".
JoinedShape(words) ==
  LET low == \E k \in DOMAIN words : N!HasLowercase(words[k]) IN
  IF Len(words) = 1 THEN words[1].shape
  ELSE IF N!Capitalized(words[1]) THEN IF low THEN "Capital" ELSE "A_B"
  ELSE IF low THEN "lower" ELSE "none"

NoValue == [says |-> "nothing"]

\* The new word is not locked, whatever its parts are.
NewWord(c, words, s, status) ==
  [form     |-> FlattenSeq([k \in DOMAIN words |-> words[k].form]),
   shape    |-> JoinedShape(words),
   analyses |-> AnalysesOf(c, words, s, status),
   value    |-> CASE c = "numbers" -> Q!NumValue(status)
                  [] c = "dates"   -> D!DateValue(status)
                  [] OTHER         -> NoValue,
   locked   |-> FALSE, mw |-> TRUE, parts |-> words]

IsName(w)   == \E a \in Range(w.analyses) : a.lemma = "<name>"
IsDate(w)   == \E a \in Range(w.analyses) : a.lemma = "<date>"
IsNumber(w) == \E a \in Range(w.analyses) : a.lemma = "<number>"
IsSeq(s)  == s \in Seq(Range(s))

\* The words received are not yet names, dates or numbers.
ASSUME WordsAssumption ==
  \A V \in Vocabularies : \A w \in V : /\ IsSeq(w.form) /\ IsSeq(w.analyses)
                                      /\ ~IsName(w) /\ ~IsDate(w) /\ ~IsNumber(w)

\* The list is read from a file.
ASSUME LocutAssumption ==
  IsSeq(Locut) /\ \A e \in Range(Locut) : /\ IsSeq(e.key) /\ IsSeq(e.data)
                                         /\ \A m \in Range(e.data) : IsFiniteSet(m.tags)

\* May w be one of the capitalized words of a name?  A word that is ignored
\* strictly may not, nor a date, a number or a punctuation sign.
NameWord(w) ==
  \/ N!Ignore(w) = 1
  \/ /\ N!Ignore(w) = 0 /\ N!Capitalized(w)
     /\ w.shape = "CAPS" \/ N!Tags(w) \cap RE_DateNumPunct = {}

\* Tags of punctuation are those of signs, which are no words of names; what is
\* merged gets none.
ASSUME PunctAssumption ==
  /\ punct \cap {NE_tag, "Z", "Zd", "W"} = {}
  /\ \A e \in Range(Locut) : \A m \in Range(e.data) : m.tags \cap punct = {}
  /\ \A V \in Vocabularies : \A w \in V : NameWord(w) => N!Tags(w) \cap punct = {}

-----------------------------------------------------------------------------
\* What the words from p to each q spell, whichever reading is taken of each.
Spellings(p) ==
  LET spelled[q \in (p - 1)..Len(se)] ==
        IF q = p - 1 THEN {<<>>}
        ELSE {s \o r : s \in spelled[q - 1], r \in L!Readings(se[q].word)}
  IN spelled

Listed(p) == {q \in p..Len(se) : Spellings(p)[q] \cap L!Keys # {}}

\* The search of locutions, which only follows prefixes, ends with the longest
\* multiword of the list that begins at its first word, and misses none.
LongestListed ==
  at = "scan" /\ Self = "locutions" /\ Stopped
    => eMatch = IF Listed(i) = {} THEN 0 ELSE Max(Listed(i))


\* Prefixes, then a name word, function words and name words up to a last name
\* word, and suffixes.
NameShaped(p) ==
  \E b, c \in DOMAIN p :
    /\ b <= c /\ NameWord(p[b]) /\ NameWord(p[c])
    /\ \A k \in DOMAIN p : /\ k < b => p[k].form \in prefixes
                           /\ b < k /\ k < c => NameWord(p[k]) \/ p[k].form \in func
                           /\ c < k => p[k].form \in suffixes

\* A name is a series of name words, with function words only between two of
\* them, after any number of prefixes and before any number of suffixes: so
\* what is left of a search that ended in a function word is given back.
NameShape == \A n \in DOMAIN se : IsName(se[n].word) => NameShaped(se[n].word.parts)

\* Two names follow each other only when a suffix ends the first or a prefix
\* begins the second: a run of capitalized words is one name.
NamesApart ==
  \A n \in 1..(Len(se) - 1) : IsName(se[n].word) /\ IsName(se[n + 1].word) =>
    \/ Last(se[n].word.parts).form \in suffixes
    \/ Head(se[n + 1].word.parts).form \in prefixes

\* A noun at the beginning of a sentence that is a name on its own keeps the
\* analyses the dictionary gave it, for the tagger to choose.
BeginningNounKept ==
  \A n \in DOMAIN se : LET w == se[n].word IN
    IsName(w) /\ Len(w.parts) = 1 /\ N!SentenceBegin(n, se)
      => Range(w.parts[1].analyses) \subseteq Range(w.analyses)

\* The user manual on TitleLimit: a sentence of so many words, all of them in
\* capitals, is not a named entity, and its words are analyzed independently.
TitleLeftAlone ==
  at = "done" /\ Title_length > 0 /\ Len(text) >= Title_length
  /\ (\A k \in DOMAIN text : text[k].shape = "CAPS")
    => \A n \in DOMAIN se : ~IsName(se[n].word)

-----------------------------------------------------------------------------
\* What a number says, read from its parts: the words before "billones", between
\* it and "millones", and the rest, which at most one power multiplies.  A
\* thousand alone counts once, and "y medio" or "y cuarto" adds to the power
\* said before it.
Said(p, k)  == Q!Entry(p[k]).num
Worth(p, k) == Q!Entry(p[k]).value

\* The position of a word, or of the one before when it is not there.
Where(p, token, before) == LET found == {k \in DOMAIN p : Said(p, k) = token} IN
                           IF found = {} THEN before ELSE Min(found)

\* The part added at the end, to the power at position n.
Added(p, n) == IF n > 0 /\ Len(p) = n + 2 /\ Said(p, n + 1) = "TK_wy" /\ Said(p, n + 2) \in Q!Half
               THEN Worth(p, n + 2) ELSE 0

\* What the n-th word says by itself: "medio" and "cuarto" do when they come first.
Counted     == {"TK_c", "TK_d", "TK_u", "TK_num"}
Alone(p, n) == IF Said(p, n) \in Counted \/ (n = 1 /\ Said(p, n) \in Q!Half) THEN Worth(p, n) ELSE 0

\* What the words from first to last say, no word among them multiplying.
Together(p, first, last) ==
  LET sum[n \in 0..last] == IF n < first THEN 0 ELSE sum[n - 1] + Alone(p, n)
  IN sum[last]

Powers(p, first, last) == {n \in first..last : Said(p, n) \in DOMAIN Q!power}

\* What is said before a power, by itself four quarters, counts so many times.
Amount(p, first, last) ==
  LET powers == Powers(p, first, last)
      n      == Min(powers)
      times  == IF n = first /\ Said(p, n) = "TK_mil" THEN 4 ELSE Together(p, first, n - 1)
  IN IF powers = {} THEN Together(p, first, last)
     ELSE times * Q!power[Said(p, n)] + Together(p, n + 1, last)

AmountBetween(p, first, last) ==
  Amount(p, first, last)
  + IF first <= last - 2 /\ Said(p, last - 2) \in DOMAIN Q!power
    THEN Added(p, last - 2) * Q!power[Said(p, last - 2)] ELSE 0

NumberSaid(p) ==
  LET b == Where(p, "TK_bill", 0)
      m == Where(p, "TK_mill", b)
  IN [bilion |-> AmountBetween(p, 1, b) + Added(p, b),
      milion |-> AmountBetween(p, b + 1, m) + IF m > b THEN Added(p, m) ELSE 0,
      units  |-> AmountBetween(p, m + 1, Len(p))]

\* The value given to a number is the one its words say, although it was summed
\* up in three registers by a search that may have read more words than these:
\* of any number but one with a zero or less among its words, for "0 mil" is
\* 1000 in the code.
Positive(p) == \A n \in DOMAIN p : Said(p, n) \in Counted => Worth(p, n) > 0

NumberValue ==
  \A n \in DOMAIN se : LET w == se[n].word IN
    IsNumber(w) /\ "units" \in DOMAIN w.value /\ Positive(w.parts) => w.value = NumberSaid(w.parts)

\* The day of the week and the month that are named in a date are those of its
\* lemma, in whatever order they come and whatever a number before was taken for.
NamesInDate ==
  \A n \in DOMAIN se : LET w == se[n].word IN
    IsDate(w) /\ "month" \in DOMAIN w.value =>
      \A k \in DOMAIN w.parts : LET name == D!Entry(w.parts[k]) IN
        /\ name.date = "TK_weekday" => w.value.weekday = <<name.says>>
        /\ name.date \in {"TK_month", "TK_shmonth"} => w.value.month = <<name.says>>

\* The only numbers of a date are an hour and, after "menos", minutes.
MinutesShort(p, k) == /\ D!Entry(p[k]).date = "TK_wmenos"
                      /\ {m \in DOMAIN p : D!IsNumber(p[m])} = {k - 1, k + 1}
                      /\ D!Number(p[k - 1]) \in 2..12

\* The comments of dates_es.cc on "menos": of a time that is some minutes short
\* of an hour the hour is the one before ("una menos veinte = 12:40").
MinutesBefore ==
  \A n \in DOMAIN se : LET w == se[n].word IN
    IsDate(w) => \A k \in 2..(Len(w.parts) - 1) :
      MinutesShort(w.parts, k) => w.value.hour = <<D!Number(w.parts[k - 1]) - 1>>
=============================================================================
