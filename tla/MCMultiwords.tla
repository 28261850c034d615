---------------------------- MODULE MCMultiwords ----------------------------
(* A list of multiwords whose entries are prefixes of one another, overlap   *)
(* and refer to tags; names of all kinds around them; numbers and dates.     *)
EXTENDS Multiwords

W(form, shape, tags, locked) ==
  [form |-> <<form>>, shape |-> shape, locked |-> locked, mw |-> FALSE, parts |-> <<>>,
   value |-> NoValue,
   analyses |-> [n \in DOMAIN tags |-> [lemma |-> "<" \o form \o ">", tag |-> tags[n]]]]

A     == W("a", "lower", <<"DT">>, FALSE)
Bit   == W("bit", "lower", <<"NN">>, FALSE)
Of    == W("of", "lower", <<"IN">>, FALSE)
Give  == W("give", "lower", <<"VB">>, FALSE)
Giver == [W("giver", "lower", <<"NN">>, FALSE) EXCEPT !.analyses[1].lemma = "<give>"]
Bank  == W("bank", "Capital", <<"NN", "VB">>, FALSE)
Spain == W("spain", "Capital", <<>>, FALSE)
IBM   == W("ibm", "CAPS", <<>>, FALSE)
Mr    == W("mr.", "lower", <<"NN">>, FALSE)
Jr    == W("jr.", "lower", <<"NN">>, FALSE)
English == W("english", "Capital", <<"JJ">>, FALSE)
May   == W("may", "Capital", <<"MD">>, FALSE)
Will  == W("will", "Capital", <<"MD">>, FALSE)
Stop  == W(".", "none", <<"Fp">>, TRUE)

Word(form) == W(form, "lower", <<>>, FALSE)
Num(token, value)  == [num |-> token, value |-> value, date |-> "TK_other", says |-> 0]
Date(token, says)  == [num |-> "TK_other", value |-> 0, date |-> token, says |-> says]

\* Values in quarters; "y" and "media" are read by numbers and by dates.
SpanishEntry(form) ==
  CASE form = <<"tres">>     -> Num("TK_u", 12)
    [] form = <<"treinta">>  -> Num("TK_d", 120)
    [] form = <<"cien">>     -> Num("TK_c", 400)
    [] form = <<"mil">>      -> Num("TK_mil", 0)
    [] form = <<"millones">> -> Num("TK_mill", 0)
    [] form = <<"billones">> -> Num("TK_bill", 0)
    [] form = <<"docenas">>  -> Num("TK_doc", 0)
    [] form = <<"a4">>       -> Num("TK_code", 0)
    [] form = <<"y">>        -> [Num("TK_wy", 0) EXCEPT !.date = "TK_wy"]
    [] form = <<"media">>    -> [Num("TK_wmedio", 2) EXCEPT !.date = "TK_wquart", !.says = 30]
    [] form = <<"mediodia">> -> Date("TK_wmidnight", "pm")
    [] form = <<"mar">>      -> Date("TK_shmonth", 3)
    [] form = <<"de">>       -> Date("TK_wde", 0)
    [] form = <<"la">>       -> Date("TK_wla", 0)
    [] form = <<"lunes">>    -> Date("TK_weekday", "L")
    [] form = <<"menos">>    -> Date("TK_wmenos", 0)
    [] form = <<"minutos">>  -> Date("TK_wmin", 0)
    [] form = <<"p.m.">>     -> Date("TK_wampm", "pm")
    [] OTHER                 -> Num("TK_other", 0)

Each(forms) == {Word(f) : f \in forms}
NumberWords  == {Each({"tres", "treinta", "cien", "mil", "y"}),
                 Each({"tres", "mil", "millones", "billones", "y", "media"}),
                 Each({"tres", "docenas", "millones", "y", "media"})}
DateWords    == {Each({"tres", "mediodia", "de", "la", "mar", "lunes"}),
                 Each({"tres", "menos", "minutos", "a4"})}
TimeWords    == {Each({"tres", "menos", "minutos", "p.m."})}

ListedWords == {A, Bit, Of, Give, Giver, Bank}
NameWords   == {{Bank, Spain, IBM, Of, Mr, Jr, English}, {Bank, IBM, Of, English, May, Will, Stop}}
AllWords    == {ListedWords} \cup NameWords \cup NumberWords \cup DateWords
Capitals    == {{IBM}}

Entry(key, data) == [key |-> key, data |-> data]
Tag(t)           == [of |-> 0, tags |-> {t}]
TagOf(n, tags)   == [of |-> n, tags |-> tags]

Entries == << Entry(<<"<give>", "a">>, <<TagOf(1, {"VB"})>>),
              Entry(<<"a", "bit">>, <<Tag("RB")>>),
              Entry(<<"a", "bit", "of", "NN">>, <<Tag("DT"), TagOf(4, {"NN"})>>),
              Entry(<<"bank", "of", "spain">>, <<Tag("NP")>>) >>
NonStrict == [f \in {<<"english">>} |-> 0] @@ [f \in {<<"may">>} |-> 1]
Forms(S)  == {<<s>> : s \in S}
Func      == Forms({"of", "a"})
Named     == Forms({"will"})
Prefixed  == Forms({"mr."})
Suffixed  == Forms({"jr."})
NoTags    == [t \in {} |-> 0]
=============================================================================
