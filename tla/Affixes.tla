------------------------------- MODULE Affixes -------------------------------
(***************************************************************************)
(* The analysis of a form as a root of the dictionary with affixes         *)
(* (suffixes.cc).  A word is a record of form, span, analyses and of       *)
(* whether later modules may add tags to it (found).                       *)
(***************************************************************************)
EXTENDS Dictionary

CONSTANTS affix,                  \* rules, in the order of the file
          fix_accentuation(_, _), \* of a set of roots, as the language has it
          capitalization(_), capitalize(_, _, _)

\* Rules for an affix; those to be always checked, for words with analyses.
Rules(kind, key, always) ==
  SelectSeq(affix, LAMBDA r : r.kind = kind /\ r.key = key /\ (always => r.always))

InStringOrder(S) == SetToSortSeq(S, Before)

Starts(tag, part) == IsPrefix(part, tag[1][1])

GenerateRoots(r, root) == {IF r.kind = "suf" THEN root \o t ELSE t \o root : t \in r.terms}
Roots(r, root) == fix_accentuation(GenerateRoots(r, root), r)

BASE == <<"$$">>

\* The words a rule says the form is made of, none if it says nothing.
CheckRetokenizable(r, root, lemma, tag, caps) ==
  [n \in DOMAIN r.retok |->
    LET k == r.retok[n] IN
    IF k.form = BASE
    THEN [form |-> capitalize(root, caps, n = 1), analyses |-> <<[lemma |-> lemma, tag |-> tag]>>]
    ELSE [form |-> capitalize(k.form, caps, n = 1),
          analyses |-> SelectSeq(search_form(k.form), LAMBDA a : Starts(a.tag, k.tag))]]

\* The rule on the analyses la: what it makes is added to those of the word, unless
\* there; one that was there may get its words.
ApplyRule(root, la, aff, r, w) ==
  LET Lemma(a) == FlattenSeq([n \in DOMAIN r.lema |->
                    CASE r.lema[n].kind = "F" -> lowercase(w.form)
                      [] r.lema[n].kind = "R" -> root
                      [] r.lema[n].kind = "L" -> a.lemma
                      [] r.lema[n].kind = "A" -> aff
                      [] OTHER                -> r.lema[n].text])
      Apply(v, a) ==
        LET lemma == Lemma(a)
            tag == IF r.output = <<>> THEN a.tag ELSE r.output
            rtk == CheckRetokenizable(r, root, lemma, tag, capitalization(w.form))
            n == SelectInSeq(v.analyses, LAMBDA b : b.lemma = lemma /\ b.tag = tag)
        IN [v EXCEPT !.found = @ \/ r.nomore,
                     !.analyses = IF n = 0 THEN Append(@, [lemma |-> lemma, tag |-> tag, retok |-> rtk])
                                  ELSE IF @[n].retok = <<>> THEN [@ EXCEPT ![n].retok = rtk] ELSE @]
  IN FoldLeft(Apply, w, SelectSeq(la, LAMBDA a : a.tag \in r.cond))

Known(roots) == {s \in roots : search_form(s) # <<>>}

SearchRootsList(roots, aff, r, w) ==
  FoldLeft(LAMBDA v, s : ApplyRule(s, search_form(s), aff, r, v), w, InStringOrder(Known(roots)))

\* By growing length of the affix, then in the order of the rules.
look_for_affixes_in_list(kind, always, w) ==
  LET form == lowercase(w.form)
      len == Len(form)
      Aff(n)  == IF kind = "suf" THEN SubSeq(form, len - n + 1, len) ELSE SubSeq(form, 1, n)
      Rest(n) == IF kind = "suf" THEN SubSeq(form, 1, len - n) ELSE SubSeq(form, n + 1, len)
      Size(v, n) == FoldLeft(LAMBDA u, r : SearchRootsList(Roots(r, Rest(n)), Aff(n), r, u), v,
                             Rules(kind, Aff(n), always))
  IN FoldLeft(Size, w, [n \in 1..(len - 1) |-> n])

\* One suffix and one prefix.  The suffix rule is applied to what the prefix rule
\* made, and to the analyses the word had; unless both forbid more tags, found goes
\* back to what it was before the affixes of these lengths.
look_for_combined_affixes(always, w) ==
  LET form == lowercase(w.form)
      len == Len(form)
      Pair(v, i, j, s, p, wfid) ==
        LET pref == SubSeq(form, 1, j)
            candidates == UNION {Roots(p, c) : c \in Roots(s, SubSeq(form, j + 1, len - i))}
            waux == SearchRootsList(candidates, pref, p, v)
            u == FoldLeft(LAMBDA x, c : ApplyRule(pref \o c, waux.analyses, SubSeq(form, len - i + 1, len), s, x),
                          v, InStringOrder(Known(candidates)))
        IN IF s.nomore /\ p.nomore THEN u ELSE [u EXCEPT !.found = wfid]
      Sizes(v, n) ==
        LET i == n[1]
            j == n[2]
            S == Rules("suf", SubSeq(form, len - i + 1, len), always)
            P == Rules("pref", SubSeq(form, 1, j), always)
        IN FoldLeft(LAMBDA x, s : FoldLeft(LAMBDA y, p : Pair(y, i, j, s, p, v.found), x, P), v, S)
  IN FoldLeft(Sizes, w, FlattenSeq([i \in 1..(len - 1) |-> [j \in 1..(len - i - 1) |-> <<i, j>>]]))

look_for_affixes(w) ==
  LET always == w.analyses # <<>>
  IN look_for_combined_affixes(always,
       look_for_affixes_in_list("pref", always, look_for_affixes_in_list("suf", always, w)))
=============================================================================
