----------------------------- MODULE MCDictionary -----------------------------
(* A vocabulary in which words begin other words, with a contraction, a suffix *)
(* and a prefix, in both kinds of index.                                       *)
EXTENDS DictionarySearch

Alphabet == {"d", "e", "l", "s", "D", "+"}
de   == <<"d", "e">>
el   == <<"e", "l">>
del  == <<"d", "e", "l">>
els  == <<"e", "l", "s">>
dels == <<"d", "e", "l", "s">>
De   == <<"D", "e">>
Del  == <<"D", "e", "l">>
deel == <<"d", "e", "+", "e", "l">>

\* Tags of one part and one alternative, and that of the contraction.
T(s) == << <<s>> >>
SP == <<"S", "P">>
DA == <<"D", "A">>
NC == <<"N", "C">>
NM == <<"N", "M">>
Both == << <<SP>>, <<DA, NM>> >>
P(lemma, tag) == [lemma |-> lemma, tag |-> tag]
Line(form, pairs) == [form |-> form, pairs |-> pairs, bad |-> FALSE]
Entries1 == <<Line(de, <<P(de, T(SP)), P(el, T(NC)), P(de, T(NC))>>), Line(el, <<P(el, T(DA)), P(el, T(NM))>>),
              Line(del, <<P(deel, Both), P(del, T(NC))>>), Line(de, <<P(de, T(NM))>>)>>
File(index, inverse, lines) ==
  [index |-> index, inverse |-> inverse, lines |-> lines,
   lemma_prefs |-> el :> de, pos_prefs |-> T(SP) :> T(NC) @@ T(NM) :> T(DA)]
DictFiles == {File("DB_MAP", TRUE, Entries1), File("DB_PREFTREE", TRUE, Entries1), File("DB_PREFTREE", FALSE, SubSeq(Entries1, 2, 3)),
              File("DB_MAP", TRUE, Append(SubSeq(Entries1, 1, 1), [Line(el, <<>>) EXCEPT !.bad = TRUE])),
              File("DB_MAP", FALSE, Append(SubSeq(Entries1, 1, 2), Line(dels, <<P(deel, Both)>>)))}
More == {P(de, T(NC)), P(el, T(NC)), P(el, T(DA))}
Forms == {de, el, del, els, dels}
Items1 == [lemma : {de, el, del, deel}, tags : Seq({T(SP), T(DA), T(NC), T(NM), Both})]
ItemLists == {<<[lemma |-> a.lemma, tags |-> <<a.tag>>]>> : a \in More}
             \cup {<<[lemma |-> el, tags |-> <<T(NC)>>], [lemma |-> de, tags |-> <<T(SP), T(NC)>>]>>,
                   <<[lemma |-> el, tags |-> <<T(NM), T(DA)>>]>>, <<[lemma |-> de, tags |-> <<T(NM)>>]>>,
                   <<[lemma |-> deel, tags |-> <<Both>>]>>, <<[lemma |-> deel, tags |-> <<Both>>], [lemma |-> del, tags |-> <<T(NC)>>]>>}

Small(form) == [n \in DOMAIN form |-> IF form[n] = "D" THEN "d" ELSE form[n]]
Caps(form)  == IF form[1] = "D" THEN 1 ELSE 0
WithCaps(form, caps, isFirst) == IF caps = 1 /\ isFirst /\ form[1] = "d" THEN [form EXCEPT ![1] = "D"] ELSE form

\* The order of strings, in the order of the letters.
Rank(x) == CHOOSE n \in 1..10 : <<"*", "+", "A", "C", "D", "M", "N", "P", "S", "Z">>[n] = x
LRank(x) == IF x \in {"d", "e", "l", "s"} THEN CHOOSE n \in 1..4 : <<"d", "e", "l", "s">>[n] = x ELSE -Rank(x)
RECURSIVE Lex(_, _)
Lex(a, b) == IF b = <<>> THEN FALSE ELSE IF a = <<>> THEN TRUE
             ELSE LRank(a[1]) < LRank(b[1]) \/ (a[1] = b[1] /\ Lex(Tail(a), Tail(b)))
Joined(x) == IF x \in Seq(Alphabet) THEN x ELSE FlattenSeq([n \in DOMAIN x |-> FlattenSeq(x[n])])
InOrder(a, b) == Lex(Joined(a), Joined(b))

Aff(kind, key, terms, cond, output, nomore, always, lema, retok) ==
  [kind |-> kind, key |-> key, terms |-> terms, cond |-> cond, output |-> output, nomore |-> nomore,
   always |-> always, lema |-> lema, retok |-> retok]
L(kind) == [kind |-> kind, text |-> <<>>]
AffixRules ==
  << Aff("suf", <<"s">>, {<<>>}, {T(DA), T(NC)}, <<>>, TRUE, TRUE, <<L("L")>>, <<>>),
     Aff("suf", <<"l">>, {<<>>, <<"l">>}, {T(SP), T(NC)}, T(NM), FALSE, FALSE, <<L("R"), L("A")>>,
         <<[form |-> BASE, tag |-> SP], [form |-> el, tag |-> DA]>>),
     Aff("pref", <<"d">>, {<<>>}, {T(DA)}, T(NC), TRUE, TRUE, <<L("F")>>, <<>>) >>
SameAccents(roots, r) == roots

Wd(form, from) == [form |-> form, from |-> from, to |-> from + Len(form), analyses |-> <<>>, found |-> FALSE]
Seven == [Wd(el, 4) EXCEPT !.analyses = <<[lemma |-> el, tag |-> T(<<"Z">>), retok |-> <<>>]>>]
Past  == [Wd(de, 0) EXCEPT !.analyses = <<[lemma |-> de, tag |-> T(NC), retok |-> <<>>]>>]
Texts == {<<Wd(Del, 0), Seven>>, <<Wd(dels, 0)>>, <<Past, Wd(del, 3), Wd(els, 7)>>, <<Wd(<<"d", "e", "l", "l">>, 0), Wd(el, 5)>>}
OptionSets == [AffixAnalysis : BOOLEAN, RetokenizeContractions : BOOLEAN]
=============================================================================
