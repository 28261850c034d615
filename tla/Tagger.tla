------------------------------- MODULE Tagger -------------------------------
(***************************************************************************)
(* POS_tagger::analyze with the HMM tagger: the k best sequences of tags   *)
(* are found in a trellis whose states are pairs of tags, and the analyses *)
(* of each word are marked with the sequences that select them; then words *)
(* may be retokenized, and one analysis of each forced.  Probabilities are *)
(* logarithms, scaled to integers, or ZERO: minus infinity.                *)
(***************************************************************************)
EXTENDS Words

CONSTANTS Sentences,            \* sentences with their lexical analyses
          Options,              \* records: kbest, retok, and force: "none", "tagger" or "retok"
          get_short_tag(_),
          ZERO,                 \* the logarithm of 0
          Pi(_),                \* of a first tag
          Transition(_, _, _),  \* of a tag after two others, as the tables smooth it
          Log(_),               \* of a sum of lexical probabilities
          PWord(_), PTag(_),    \* of a form, of a tag
          Forbidden,            \* rules: tags, long tags and lemmas for three words, "" for any
          Length(_)             \* of a form

VARIABLES input,   \* the sentence as the tagger received it (history)
          opt,     \* the options
          phase,   \* the step of analyze that is next; "done"; "crash"
          t,       \* word, or sequence, at work, from 0
          trl      \* trellis: at each word, for each state its best paths, in order

tagger == <<words, input, opt, phase, t, trl>>

Plus(a, b)    == IF a = ZERO \/ b = ZERO THEN ZERO ELSE a + b
NoWorse(p, q) == q = ZERO \/ (p # ZERO /\ p >= q)

N == Len(words)
endState  == <<"ENDSTATE", "ENDSTATE">>
initState == <<"0", "0">>

TagsOf(w) == {get_short_tag(w.analyses[m].tag) : m \in {o \in DOMAIN w.analyses : 0 \in w.analyses[o].sel}}

\* The states that may have emitted word n: only what is selected counts.
FindStates(ws, n) == (IF n = 0 THEN {"0"} ELSE TagsOf(ws[n])) \X TagsOf(ws[n + 1])

\* Of the three words up to w, each rule that has the tags is checked backwards
\* from w.  The first of the three is only stepped to when the rule gives its lemma.
Matches(f, p, word) ==
  \/ f.lemma[p] = "" /\ f.long[p] = ""
  \/ \E a \in Range(word.analyses) :
       /\ f.lemma[p] \in {"", a.lemma}
       /\ IF f.long[p] # "" THEN f.long[p] = a.tag ELSE f.tags[p] = get_short_tag(a.tag)

is_forbidden(tags, ws, w) ==
  \E f \in Forbidden :
    /\ f.tags = tags
    /\ Matches(f, 3, ws[w]) /\ Matches(f, 2, ws[w - 1])
    /\ Matches(f, 1, ws[IF f.lemma[1] # "" THEN w - 2 ELSE w - 1])

ProbA_log(s1, s2, ws, w) ==
  IF is_forbidden(<<"*", s2[1], s2[2]>>, ws, w) \/ is_forbidden(<<s1[1], s1[2], s2[2]>>, ws, w)
  THEN ZERO ELSE Transition(s1[1], s1[2], s2[2])

\* Of a word from a state whose second tag is tag2.
ProbB_log(tag2, w) ==
  LET pa == FoldLeft(LAMBDA sum, a : IF get_short_tag(a.tag) = tag2 THEN sum + a.prob ELSE sum,
                     0, w.analyses)
  IN Plus(Log(pa), PWord(w.form) - PTag(tag2))

-----------------------------------------------------------------------------
\* The path e after those that are no worse, in a list of that size.
Inserted(paths, e, size) ==
  LET n == CHOOSE n \in 0..Len(paths) :
             \A m \in DOMAIN paths : m <= n <=> NoWorse(paths[m].prob, e.prob)
  IN [m \in 1..size |-> IF m <= n THEN paths[m] ELSE IF m = n + 1 THEN e ELSE paths[m - 1]]

\* Fault: what comes when the list is full is not looked at.
InsertIfRoom(paths, e) ==
  IF Len(paths) < opt.kbest THEN Inserted(paths, e, Len(paths) + 1) ELSE paths

\* trellis::insert: the worst goes when there are too many.
Insert(paths, e) ==
  Inserted(paths, e, IF Len(paths) < opt.kbest THEN Len(paths) + 1 ELSE opt.kbest)

Element(s, kb, p) == [state |-> s, kbest |-> kb, prob |-> p]

\* Paths into a state, or into the end, from those of each state before it; step is
\* what the step from each of these adds.
Paths(column, s, step) ==
  [m \in DOMAIN column[s] |-> Element(s, m - 1, Plus(column[s][m].prob, step[s]))]

Arrive(column, step) ==
  LET from == SetToSeq(DOMAIN step)
      all  == FlattenSeq([m \in DOMAIN from |-> Paths(column, from[m], step)])
      best[m \in 0..Len(all)] == IF m = 0 THEN <<>> ELSE Insert(best[m - 1], all[m])
  IN best[Len(all)]

\* The columns of the trellis: the first, that of word n + 1, and the end.
FirstColumn(ws) ==
  [s \in FindStates(ws, 0) |-> <<Element(initState, 0, Plus(Pi(s[2]), ProbB_log(s[2], ws[1])))>>]

NextColumn(ws, n, column) ==
  [s \in FindStates(ws, n) |->
    Arrive(column, [r \in {q \in FindStates(ws, n - 1) : q[2] = s[1]} |->
                      Plus(ProbA_log(r, s, ws, n + 1), ProbB_log(s[2], ws[n + 1]))])]

EndColumn(ws, column) ==
  [s \in {endState} |-> Arrive(column, [r \in FindStates(ws, Len(ws) - 1) |-> 0])]

InitTagger == /\ phase = "idle" /\ t = 0 /\ trl = <<>>
              /\ words = <<>> /\ input = <<>>
              /\ opt \in Options

Receive(ws) == /\ phase = "idle"
               /\ words' = ws /\ input' = ws
               /\ phase' = "start"
               /\ UNCHANGED <<opt, t, trl>>

Annotate ==
  /\ phase = "start"
  /\ trl' = <<FirstColumn(words)>>
  /\ t' = 1
  /\ phase' = IF N = 1 THEN "end" ELSE "column"
  /\ UNCHANGED <<words, input, opt>>

Column ==
  /\ phase = "column"
  /\ trl' = Append(trl, NextColumn(words, t, trl[t]))
  /\ t' = t + 1
  /\ phase' = IF t + 1 = N THEN "end" ELSE "column"
  /\ UNCHANGED <<words, input, opt>>

\* Fault: the selection there was stays.
TerminateSelected ==
  /\ phase = "end"
  /\ trl' = Append(trl, EndColumn(words, trl[N]))
  /\ t' = 0 /\ phase' = "select"
  /\ UNCHANGED <<words, input, opt>>

\* Termination; the selection there was, of sequence 0 only, is erased.
Terminate ==
  /\ phase = "end"
  /\ trl' = Append(trl, EndColumn(words, trl[N]))
  /\ words' = [n \in 1..N |-> unselect_all_analysis(words[n], 0)]
  /\ t' = 0 /\ phase' = "select"
  /\ UNCHANGED <<input, opt>>

Best == trl[N + 1][endState]

\* The state of each word on the path bp, back from the end.
Path(bp) ==
  LET Back[m \in 0..(N - 1)] ==
        IF m = 0 THEN Best[bp + 1]
        ELSE trl[N - m + 1][Back[m - 1].state][Back[m - 1].kbest + 1]
  IN [n \in 1..N |-> Back[N - n].state]

\* Of the analyses with the tag, those of highest probability.
Select(w, tag, bp) ==
  LET fit == {m \in DOMAIN w.analyses : get_short_tag(w.analyses[m].tag) = tag}
      best == {m \in fit : \A o \in fit : w.analyses[m].prob >= w.analyses[o].prob}
  IN [w EXCEPT !.analyses = [m \in DOMAIN @ |->
       IF m \in best THEN mark_selected(@[m], bp) ELSE @[m]]]

SelectPath ==
  /\ phase = "select" /\ t < Len(Best)
  /\ words' = [n \in 1..N |-> Select(words[n], Path(t)[n][2], t)]
  /\ t' = t + 1
  /\ UNCHANGED <<input, opt, phase, trl>>

EndSelect == /\ phase = "select" /\ t >= Len(Best)
             /\ phase' = "tagged"
             /\ UNCHANGED <<words, input, opt, t, trl>>

-----------------------------------------------------------------------------
\* Fault: the one that is kept is unselected with the others.
ForceNone(w) == unselect_all_analysis(select_analysis(w, selected_begin(w, 0), 0), 0)

\* Of the analyses selected in sequence 0 the first is kept.
ForceOne(w) == select_analysis(unselect_all_analysis(w, 0), selected_begin(w, 0), 0)

force_select == words' = [n \in 1..N |-> ForceOne(words[n])]

ForceTagged == /\ phase = "tagged"
               /\ IF opt.force = "tagger" THEN force_select ELSE UNCHANGED words
               /\ phase' = "retok"
               /\ UNCHANGED <<input, opt, t, trl>>

\* Fault: the spans go on beyond the contraction.
PartsUncut(w, lw) ==
  LET f[m \in 0..Len(lw)] == IF m = 0 THEN w.from ELSE f[m - 1] + Length(lw[m].form)
  IN [m \in DOMAIN lw |-> [lw[m] EXCEPT !.from = f[m - 1], !.to = f[m]]]

\* The words of a contraction, with spans cut off at its end.
Parts(w, lw) ==
  LET f[m \in 0..Len(lw)] ==
        IF m = 0 THEN w.from
        ELSE IF f[m - 1] + Length(lw[m].form) > w.to THEN w.to ELSE f[m - 1] + Length(lw[m].form)
  IN [m \in DOMAIN lw |-> [lw[m] EXCEPT !.from = f[m - 1], !.to = f[m]]]

\* Only when sequence 0 selects a single analysis.
Retokenized(w) ==
  LET lw == w.analyses[selected_begin(w, 0)].retok IN
  IF get_n_selected(w, 0) = 1 /\ lw # <<>> THEN Parts(w, lw) ELSE <<w>>

retokenize == /\ phase = "retok"
              /\ words' = IF opt.retok THEN FlattenSeq([n \in 1..N |-> Retokenized(words[n])])
                          ELSE words
              /\ phase' = "forced"
              /\ UNCHANGED <<input, opt, t, trl>>

ForceRetokenized == /\ phase = "forced"
                    /\ IF opt.force = "retok" THEN force_select ELSE UNCHANGED words
                    /\ phase' = "done"
                    /\ UNCHANGED <<input, opt, t, trl>>

\* Of a word of a contraction without an analysis the end of the list is selected, which
\* is undefined: the word is left as it is, as by ForceOne, or the program ends.  The
\* tagger itself leaves no word without a selection.
ForceNothing == /\ phase = "forced" /\ opt.force = "retok"
                /\ \E w \in Range(words) : selected_begin(w, 0) = 0
                /\ phase' = "crash"
                /\ UNCHANGED <<words, input, opt, t, trl>>

Tag == \/ Annotate \/ Column \/ Terminate \/ SelectPath \/ EndSelect
       \/ ForceTagged \/ retokenize \/ ForceRetokenized \/ ForceNothing

SpecTagger == InitTagger /\ [][Tag \/ \E ws \in Sentences : Receive(ws)]_tagger

-----------------------------------------------------------------------------
\* Some analysis of the word is selected, in the first sequence, as add_analysis does.
Analysed(w) == \E a \in Range(w.analyses) : 0 \in a.sel

\* A sentence has a word; its words stand one after the other, have an analysis, which
\* the module of probabilities sees to, and are selected in no sequence but the first.
\* So are the words of a contraction, which have lengths, but maybe no analysis.
SentencesAssumption ==
  \A ws \in Sentences :
    /\ ws # <<>> /\ ws \in Seq(Range(ws))
    /\ \A n \in DOMAIN ws :
         /\ DOMAIN ws[n] = {"form", "from", "to", "analyses"}
         /\ ws[n].from \in Nat /\ ws[n].to \in Nat /\ ws[n].from <= ws[n].to
         /\ n < Len(ws) => ws[n].to <= ws[n + 1].from
         /\ ws[n].analyses \in Seq(Range(ws[n].analyses)) /\ Analysed(ws[n])
         /\ \A a \in Range(ws[n].analyses) :
              /\ {"lemma", "tag", "prob", "retok", "sel"} = DOMAIN a
              /\ a.prob \in Nat /\ a.sel \subseteq {0}
              /\ a.retok \in Seq(Range(a.retok))
              /\ \A v \in Range(a.retok) :
                   /\ {"from", "to", "analyses"} \subseteq DOMAIN v /\ Length(v.form) \in Nat
                   /\ v.analyses \in Seq(Range(v.analyses))
                   /\ \A b \in Range(v.analyses) : "sel" \in DOMAIN b /\ b.sel \subseteq {0}

\* The logarithms that the tables give for a sentence are numbers, or ZERO.
LogsAssumption ==
  /\ ZERO \notin Int
  /\ \A ws \in Sentences : \A n \in DOMAIN ws :
       LET before(k) == IF n > k THEN TagsOf(ws[n - k]) ELSE {"0"} IN
       \A c \in TagsOf(ws[n]) :
         /\ ProbB_log(c, ws[n]) \in Int \cup {ZERO}
         /\ Pi(c) \in Int \cup {ZERO}
         /\ \A a \in before(2), b \in before(1) : Transition(a, b, c) \in Int \cup {ZERO}

ASSUME TaggerAssumption ==
  SentencesAssumption /\ LogsAssumption /\ \A o \in Options : o.kbest \in Nat \ {0}

-----------------------------------------------------------------------------
\* All the sequences of tags the sentence may have.
TagSequences == {s \in [1..N -> UNION {TagsOf(input[n]) : n \in 1..N}] :
                   \A n \in 1..N : s[n] \in TagsOf(input[n])}

\* The probability of the sentence ws with the tags s, and of its first n words.
StateIn(s, n) == <<IF n = 1 THEN "0" ELSE s[n - 1], s[n]>>

StepProb(ws, s, n) ==
  Plus(IF n = 1 THEN Pi(s[1]) ELSE ProbA_log(StateIn(s, n - 1), StateIn(s, n), ws, n),
       ProbB_log(s[n], ws[n]))

Score(ws, s, n) ==
  LET sum[m \in 0..n] == IF m = 0 THEN 0 ELSE Plus(sum[m - 1], StepProb(ws, s, m)) IN sum[n]

TagsOnPath(bp) == [n \in 1..N |-> Path(bp)[n][2]]

\* The trellis gives as many different sequences as were asked for, the best one
\* first, and none that is left out is better than one that is not.
KBest ==
  phase = "tagged" =>
    LET found == [m \in DOMAIN Best |-> TagsOnPath(m - 1)] IN
    /\ Len(found) = opt.kbest \/ Range(found) = TagSequences
    /\ IsInjective(found)
    /\ \A m \in DOMAIN found : /\ Best[m].prob = Score(input, found[m], N)
                              /\ \A s \in TagSequences \ {found[o] : o \in 1..m} :
                                   NoWorse(Best[m].prob, Score(input, s, N))

\* Each sequence selects of each word an analysis with the tag on its path.
SelectedOnPath ==
  phase = "tagged" => \A n \in 1..N, m \in 0..(opt.kbest - 1) :
    LET tags == {get_short_tag(a.tag) : a \in {b \in Range(words[n].analyses) : m \in b.sel}} IN
    tags = IF m < Len(Best) THEN {TagsOnPath(m)[n]} ELSE {}

\* Retokenization keeps the place of the words in the text: spans are in order, do
\* not overlap, and those of a contraction's words lie within its own.
SpansKept ==
  \A n \in 1..N : /\ words[n].from <= words[n].to
                  /\ n < N => words[n].to <= words[n + 1].from
                  /\ \E m \in DOMAIN input : /\ input[m].from <= words[n].from
                                             /\ words[n].to <= input[m].to
=============================================================================
