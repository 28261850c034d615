------------------------------ MODULE MCAnalysis ------------------------------
(* Small grammars with every kind of rule and directive, and sentences of an   *)
(* ambiguous vocabulary with a contraction; rules to complete and label trees.*)
EXTENDS Derivation

\* Tokens of a grammar file.
Cat(c)       == [kind |-> "CATEGORY", text |-> [cat |-> c, star |-> FALSE]]
Wild(c)      == [kind |-> "CATEGORY", text |-> [cat |-> c, star |-> TRUE]]
Sign(kind)   == [kind |-> kind, text |-> ""]
Cond(kind, of) == [kind |-> kind, text |->
                    [kind |-> CASE kind = "FORM" -> "form" [] kind = "LEMMA" -> "lemma"
                                [] kind = "FILENAME" -> "file", of |-> of]]
Dot == Sign("DOT")
Arr == Sign("ARROW")
Com == Sign("COMMA")
Or  == Sign("BAR")
Gov == Sign("HEAD")

\* Non-terminals, and tags of a category and a subcategory.
noun == <<"n">>
verb == <<"v">>
clause == <<"s">>
flat == <<"x">>
top == <<"top">>
NC == <<"N", "C">>
NP == <<"N", "P">>
VM == <<"V", "M">>
DT == <<"D", "T">>

Start == <<Sign("START"), Cat(top), Dot>>
\* n ==> N* | DT, +N*.
Noun  == <<Cat(noun), Arr, Wild(<<"N">>), Or, Cat(DT), Com, Gov, Wild(<<"N">>), Dot>>
\* v ==> +VM, n | V*<"listed">.
Verb  == <<Cat(verb), Arr, Gov, Cat(VM), Com, Cat(noun), Or, Wild(<<"V">>), Cond("FILENAME", "listed"), Dot>>
\* s ==> n, +v | n, +VM.
Clause == <<Cat(clause), Arr, Cat(noun), Com, Gov, Cat(verb), Or, Cat(noun), Com, Gov, Cat(VM), Dot>>
\* x ==> NC, +x | NC(run) | n, +n.
Flat  == <<Cat(flat), Arr, Cat(NC), Com, Gov, Cat(flat), Or, Cat(NC), Cond("FORM", "run"), Or,
           Cat(noun), Com, Gov, Cat(noun), Dot>>
Prior == <<Sign("PRIOR"), Cat(flat), Cat(clause), Dot>>
FlatX == <<Sign("FLAT"), Cat(flat), Dot>>
HideN == <<Sign("HIDDEN"), Cat(noun), Dot>>
NoTopS == <<Sign("NOTOP"), Cat(clause), Dot>>
TopV  == <<Sign("ONLYTOP"), Cat(verb), Dot>>
\* A rule without comma, a terminal in a directive, a comment within a rule.
NoComma  == <<Cat(noun), Arr, Cat(DT), Com, Gov, Cat(NC), Cat(NC), Dot>>
Terminal == <<Sign("PRIOR"), Cat(NC), Cat(noun), Dot>>
Comment  == <<Sign("COMMENT"), Cat(noun), Sign("COMMENT"), Dot>>
Unknown  == <<Sign("UNKNOWN")>>

Rules == Noun \o Verb \o Clause \o Flat
GrammarFiles ==
  { Rules \o Start, Rules \o Prior \o FlatX \o Start, Rules \o HideN \o TopV \o Start,
    Rules \o NoTopS \o Start,
    Rules \o NoComma \o Terminal \o Verb \o Start \o Start, Comment \o Noun \o Start,
    Clause \o Unknown \o Start, Noun \o Verb }
Known == {<<[kind |-> "lemma", of |-> "run"], [kind |-> "file", of |-> "listed"]>>}

\* Words of the text, one unit long each but for the contraction.
A(lemma, tag, prob) == [lemma |-> lemma, tag |-> tag, prob |-> prob, retok |-> <<>>, sel |-> {0}]
W(form, analyses) == [form |-> form, from |-> 0, to |-> 0, analyses |-> analyses]
The  == W("the", <<A("the", DT, 10)>>)
Run  == W("run", <<A("run", NC, 4), A("run", VM, 6)>>)
Ann  == W("ann", <<A("ann", NP, 5), A("anna", NP, 5)>>)
Theman == W("theman", <<[A("the+man", NC, 3) EXCEPT !.retok =
                           <<The, W("man", <<A("man", NC, 7), A("man", VM, 3)>>)>>],
                        A("theman", VM, 7)>>)
\* With an affix whose form is in no dictionary.
Annie == W("annie", <<[A("ann", NP, 5) EXCEPT !.retok = <<Ann, W("ie", <<>>)>>]>>)
Vocabulary == {The, Run, Ann, Theman}
Letters(form) == CASE form = "theman" -> 3 [] form = "the" -> 2 [] OTHER -> 3
Placed(ws) == [m \in DOMAIN ws |-> [ws[m] EXCEPT !.from = 4 * m, !.to = 4 * m + 3]]
Texts == {Placed(ws) : ws \in {<<Annie>>, <<The, Annie>>} \cup UNION {[1..m -> Vocabulary] : m \in 1..3}}

\* The first part of a tag is its short form.
Short(tag) == Head(tag)
LogOf(p)   == IF p = 0 THEN ZERO ELSE p
PiOf(tag)  == CASE tag = "D" -> 5 [] tag = "N" -> 4 [] OTHER -> 0
TransOf(a, b, c) == CASE b = "D" /\ c = "N" -> 9 [] a = "D" /\ b = "N" /\ c = "V" -> 7
                      [] b = "V" /\ c = "N" -> 3 [] OTHER -> 1
WordOf(form) == IF form = "run" THEN 2 ELSE 1
TagOf(tag)   == 1
Any3 == <<"", "", "">>
NoRules == { [tags |-> <<"*", "D", "V">>, long |-> Any3, lemma |-> Any3],
             [tags |-> <<"N", "N", "N">>, long |-> Any3, lemma |-> <<"ann", "", "run">>],
             [tags |-> <<"0", "V", "V">>, long |-> <<"", "", VM>>, lemma |-> Any3] }
Opt(kb, r, f) == [kbest |-> kb, retok |-> r, force |-> f]
OptionSets == {Opt(1, TRUE, "retok"), Opt(1, TRUE, "tagger"), Opt(3, FALSE, "none"), Opt(2, TRUE, "none")}

\* Conditions and rules of the dependency parser.
Sym(c)     == [cat |-> c, star |-> FALSE, cond |-> NoCond]
Some(kind)  == [kind |-> kind, label |-> NoSym, neg |-> FALSE, attrs |-> {}]
Is(c)      == [Some("node") EXCEPT !.label = Sym(c)]
HeadIs(c, type, v) == [Is(c) EXCEPT !.attrs = {[type |-> type, value |-> v]}]
NotThat(c) == [c EXCEPT !.neg = TRUE]
Rule(w, l, r, op) ==
  [weight |-> w, flags |-> {"-"}, left |-> <<>>, right |-> <<>>, neg |-> FALSE, leftConds |-> l, rightConds |-> r,
   op |-> op, new1 |-> NoSym, new2 |-> NoSym, matching |-> Some("node"), on |-> {}, off |-> {}]
Over(w, l, r, op, m) == [Rule(w, l, r, op) EXCEPT !.matching = m]
Star == Some("*")
Out  == Some("OUT")
CompletionRules ==
  << [Rule(10, Is(noun), Is(DT), "top_left") EXCEPT !.flags = {"INIT"}, !.new2 = Sym(flat),
                                                    !.on = {"PH1"}, !.off = {"INIT"}],
     [Over(30, Is(noun), Is(DT), "last_left", Is(noun)) EXCEPT !.flags = {"PH1", "PH2"}],
     [Rule(20, Is(noun), Is(DT), "top_right") EXCEPT !.right = <<Star, Is(VM)>>],
     Over(15, Is(clause), Is(VM), "cover_last_left", HeadIs(noun, "tag", NC)),
     Over(15, Is(flat), Is(DT), "cover_last_left", Is(flat)),
     [Rule(12, Is(DT), Is(noun), "top_right") EXCEPT !.right = <<Some("?")>>, !.neg = TRUE],
     Over(8, Is(DT), Is(clause), "last_right", Is(noun)),
     Over(9, Is(DT), Is(clause), "last_right", Is(verb)),
     [Rule(9, NotThat(HeadIs(noun, "lemma", "ann")), Is(VM), "top_right") EXCEPT !.new2 = Sym(clause), !.new1 = Sym(verb)],
     [Rule(7, Is(VM), Is(noun), "top_left") EXCEPT !.left = <<Is(noun), Star>>],
     [Rule(4, Is(VM), Is(DT), "top_right") EXCEPT !.left = <<Out>>],
     [Rule(0, Is(DT), Is(DT), "top_right") EXCEPT !.left = <<Is(DT)>>, !.right = <<Star, Out>>] >>

On(node, path, func, vs) == [node |-> node, path |-> path, func |-> func, values |-> vs, neg |-> FALSE]
Lab(anc, l, conds) == [ancestor |-> Sym(anc), label |-> l, conds |-> conds]
LabellingRules ==
  << Lab(noun, "det", <<On("d", <<>>, "lemma", {"the"})>>),
     Lab(noun, "apos", <<On("Es", <<>>, "label", {Sym(noun), [Sym(<<"N">>) EXCEPT !.star = TRUE]})>>),
     Lab(noun, "only", <<NotThat(On("Es", <<>>, "lemma", {"the"}))>>),
     Lab(clause, "subj", <<On("d", <<>>, "side", {"left"}), On("p", <<>>, "tag", {VM})>>),
     Lab(clause, "obj", <<On("p", <<>>, "side", {"left"}), NotThat(On("As", <<>>, "label", {Sym(noun)}))>>),
     Lab(verb, "part", <<On("p", <<Sym(noun), Sym(DT)>>, "label", {Sym(DT)})>>),
     Lab(DT, "det", <<>>) >>
Uniques == {"det", "subj"}
MeetsIt(type, v, form, a) == v = CASE type = "lemma" -> a.lemma [] type = "form" -> form [] type = "tag" -> a.tag
=============================================================================
