-------------------------------- MODULE Words --------------------------------
(***************************************************************************)
(* The words of a sentence as language.h has them, to the modules that     *)
(* choose among their analyses: each analysis keeps the set of the tag     *)
(* sequences in which it is selected, counted from 0.                      *)
(***************************************************************************)
EXTENDS Integers, SequencesExt

VARIABLE words   \* the sentence: records of form, span (from, to) and analyses

\* The analyses that are selected in sequence k, and their number.
Selected(w, k)       == FlattenSeq([n \in DOMAIN w.analyses |->
                          IF k \in w.analyses[n].sel THEN <<w.analyses[n]>> ELSE <<>>])
get_n_selected(w, k) == Cardinality({m \in DOMAIN w.analyses : k \in w.analyses[m].sel})

\* selected_begin, as a position.
selected_begin(w, k) == SelectInSeq(w.analyses, LAMBDA a : k \in a.sel)

mark_selected(a, k)   == [a EXCEPT !.sel = @ \cup {k}]
unmark_selected(a, k) == [a EXCEPT !.sel = @ \ {k}]

select_analysis(w, m, k)    == [w EXCEPT !.analyses[m] = mark_selected(@, k)]
unselect_all_analysis(w, k) == [w EXCEPT !.analyses = [m \in DOMAIN @ |-> unmark_selected(@[m], k)]]

\* One more than the last sequence that selects an analysis of the word; 1 when none
\* does.  For a sentence it is that of the first word.
max_kbest(a) == IF a.sel = {} THEN 0 ELSE Max(a.sel)

num_kbest(ws) ==
  IF ws = <<>> THEN 0
  ELSE Max({0} \cup {1 + max_kbest(a) : a \in Range(ws[1].analyses)})
=============================================================================
