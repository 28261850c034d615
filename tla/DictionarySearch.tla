--------------------------- MODULE DictionarySearch ---------------------------
(***************************************************************************)
(* dictionary::analyze: the words of a sentence are looked up, one by one; *)
(* a contraction gives way to its words at once, or keeps them with its    *)
(* analyses for the tagger to choose.                                      *)
(***************************************************************************)
EXTENDS Affixes

CONSTANTS Sentences,   \* words as the modules before left them
          Options      \* records: AffixAnalysis, RetokenizeContractions

VARIABLES opts, input, words, pos

search == <<opts, input, words, pos>>
vars == <<dictionary, search>>

Split(s) == FoldLeft(LAMBDA parts, x : IF x = "+" THEN Append(parts, <<>>)
                                       ELSE [parts EXCEPT ![Len(parts)] = Append(@, x)],
                     << <<>> >>, s)

\* The words of a contraction, as many as both lemma and tag have parts; none when
\* either has just one.  An analysis is taken for each alternative that it meets.
check_contracted(form, a) ==
  LET lemmas == Split(a.lemma)
      n == Min({Len(lemmas), Len(a.tag)})
      Fits(b, m) == SelectSeq(a.tag[m], LAMBDA t : t = <<"*">> \/ Starts(b.tag, t))
      Taken(m) == LET la == search_form(lemmas[m]) IN
        FlattenSeq([x \in DOMAIN la |-> [y \in DOMAIN Fits(la[x], m) |-> la[x]]])
  IN IF n = 1 THEN <<>>
     ELSE [m \in 1..n |-> [form |-> capitalize(lemmas[m], capitalization(form), m = 1), analyses |-> Taken(m)]]

\* A part without analyses ends the program.
Complete(parts) == \A n \in DOMAIN parts : parts[n].analyses # <<>>

\* A tag with alternatives stands for each choice among them; only one analysis that
\* is so replaced loses its words.
tag_combinations(tag) ==
  LET Part(n) == tag[Len(tag) + 1 - n]
      combined[n \in 0..Len(tag)] ==   \* of the last n parts
        IF n = 0 THEN << <<>> >>
        ELSE FlattenSeq([i \in DOMAIN Part(n) |->
                          [j \in DOMAIN combined[n - 1] |-> << <<Part(n)[i]>> >> \o combined[n - 1][j]]])
  IN combined[Len(tag)]

Combinations(a) ==
  LET tc == tag_combinations(a.tag) IN
  IF Len(tc) = 1 THEN <<a>> ELSE [n \in DOMAIN tc |-> [lemma |-> a.lemma, tag |-> tc[n], retok |-> <<>>]]

\* The words of the text lie one after the other.
ASSUME SentencesAssumption ==
  \A s \in Sentences : \A n \in DOMAIN s :
    /\ s \in Seq(Range(s)) /\ {"from", "to"} \subseteq DOMAIN s[n]
    /\ s[n].from \in Nat /\ s[n].to \in Nat /\ s[n].from <= s[n].to
    /\ n < Len(s) => s[n].to <= s[n + 1].from

\* What the dictionary, and the affixes, say of a word.
Searched(w) ==
  LET la == search_form(w.form)
      v == [w EXCEPT !.found = la # <<>>,
                     !.analyses = @ \o [n \in DOMAIN la |-> [lemma |-> la[n].lemma, tag |-> la[n].tag, retok |-> <<>>]]]
      u == look_for_affixes(v)
  IN IF opts.AffixAnalysis THEN [v EXCEPT !.found = u.found, !.analyses = u.analyses] ELSE v

\* With RetokenizeContractions the first contraction of several analyses is taken.
ToContract(w) ==
  LET ca == SelectInSeq(w.analyses, LAMBDA a : Contains(a.lemma, "+") /\ Len(a.tag) > 1)
  IN w.analyses[IF ca # 0 /\ Len(w.analyses) > 1 THEN ca ELSE 1]

Contraction(w) == IF w.analyses # <<>> THEN check_contracted(w.form, ToContract(w)) ELSE <<>>

\* Without it each analysis keeps the words it may be replaced by.
KeepParts(a, parts) == IF parts = <<>> THEN a ELSE [a EXCEPT !.retok = parts]

WithParts(w) ==
  [w EXCEPT !.analyses = FlattenSeq([n \in DOMAIN @ |-> LET tc == Combinations(@[n]) IN
     [m \in DOMAIN tc |-> KeepParts(tc[m], check_contracted(w.form, tc[m]))]])]

\* Fault: what equal steps leave over of the span is left.
PlacedEvenly(w, lw) ==
  LET step == Max({1, (w.to - w.from + 1) \div Len(lw)})
      len == Max({1, step - 1})
      St(n) == w.from + (n - 1) * step
  IN [n \in DOMAIN lw |-> [form |-> lw[n].form, analyses |-> lw[n].analyses, found |-> FALSE, from |-> St(n),
                           to |-> St(n) + len]]

\* The words of a contraction, in equal steps over its span; the last one ends with it.
Placed(w, lw) ==
  LET step == Max({1, (w.to - w.from + 1) \div Len(lw)})
      len == Max({1, step - 1})
      St(n) == w.from + (n - 1) * step
  IN [n \in DOMAIN lw |-> [form |-> lw[n].form, analyses |-> lw[n].analyses, found |-> FALSE, from |-> St(n),
                           to |-> IF n = Len(lw) THEN w.to ELSE St(n) + len]]

-----------------------------------------------------------------------------
Init == /\ InitDictionary /\ opts \in Options
        /\ input = <<>> /\ words = <<>> /\ pos = 1

UpdateStep == Update /\ UNCHANGED search

Analyze == /\ mode = "update"
           /\ \E s \in Sentences : words' = s /\ input' = s
           /\ mode' = "analyze" /\ pos' = 1
           /\ UNCHANGED <<dict, line, updates, dbmap, inverdb, fresh, tree, opts>>

\* A word that has analyses is passed by, unless it is a number.
Annotated(w) == w.analyses # <<>> /\ ~Starts(w.analyses[1].tag, <<"Z">>)

PassBy == /\ mode = "analyze" /\ pos <= Len(words)
          /\ Annotated(words[pos])
          /\ pos' = pos + 1
          /\ UNCHANGED <<dictionary, opts, input, words>>

Replace(new) == /\ words' = SubSeq(words, 1, pos - 1) \o new \o SubSeq(words, pos + 1, Len(words))
                /\ pos' = pos + Len(new)
                /\ UNCHANGED mode

GiveUp == mode' = "crash" /\ UNCHANGED <<words, pos>>

Contract(w, parts) == IF ~Complete(parts) THEN GiveUp
                      ELSE Replace(IF parts = <<>> THEN <<w>> ELSE Placed(w, parts))

Keep(w) == IF \A a \in Range(w.analyses) : Complete(check_contracted(w.form, a)) THEN Replace(<<w>>)
           ELSE GiveUp

Annotate(w) == IF opts.RetokenizeContractions THEN Contract(w, Contraction(w)) ELSE Keep(WithParts(w))

AnnotateWord == /\ mode = "analyze" /\ pos <= Len(words)
                /\ ~Annotated(words[pos])
                /\ Annotate(Searched(words[pos]))
                /\ UNCHANGED <<dict, line, updates, dbmap, inverdb, fresh, tree, opts, input>>

Stopped == /\ mode \in {"crash", "undefined"} \/ (mode = "analyze" /\ pos > Len(words))
           /\ UNCHANGED vars

Next == UpdateStep \/ Analyze \/ PassBy \/ AnnotateWord \/ Stopped

Spec == Init /\ [][Next]_vars

-----------------------------------------------------------------------------
\* The words of a contraction stay where it was in the text: in order, one after the
\* other, from its beginning to its end.
PartsInPlace ==
  /\ \A n \in DOMAIN words : /\ words[n].from <= words[n].to
                             /\ n < Len(words) => words[n].to <= words[n + 1].from
  /\ \A m \in DOMAIN input : /\ \E n \in DOMAIN words : words[n].from = input[m].from
                             /\ \E n \in DOMAIN words : words[n].to = input[m].to
=============================================================================
