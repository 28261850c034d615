------------------------------ MODULE NumbersEs ------------------------------
(***************************************************************************)
(* The functions that numbers_es.cc supplies to automat<T>: numbers        *)
(* written in digits and in Spanish words.  A state is a pair: B, M or S,  *)
(* the words before "billones", before "millones" and last, with how far   *)
(* their number has come, or a state without block.  Amounts are counted   *)
(* in quarters, and billions and millions one by one.                      *)
(***************************************************************************)
EXTENDS Integers, Sequences

CONSTANT Spanish(_)  \* of a form [num, value, date, says]: its token and its value in quarters
                     \* here; its token, or regular expression, and what that says in DatesEs;
                     \* of a code the int it reads as, 0 where it begins with a letter

\* Tables and regular expressions; a form of neither is TK_other.
Entry(w) == Spanish(w.form)

Blocks      == {"B", "M", "S"}
Collective  == {"TK_milr", "TK_cent", "TK_dec", "TK_doc"}
power       == [TK_mil |-> 1000, TK_milr |-> 1000, TK_cent |-> 100, TK_doc |-> 12, TK_dec |-> 10]
Amounts     == {"2", "3", "u", "6", "7", "k"}  \* positions after hundreds, tens and units
Complete    == Amounts \cup {"5"}

NumInitialState == <<"B", "1">>
NumStopState    == <<"STOP", "-">>
NumFinal        == Blocks \X Complete
                   \cup {<<"M", "1">>, <<"S", "1">>, <<"M", "1b">>, <<"S", "1b">>, <<"COD", "-">>}
                   \cup {"X"} \X {"1", "3", "5"}

\* Within a number below a million.
Within(k, token) ==
  CASE k = "1" /\ token = "TK_c"                                     -> "2"
    [] k \in {"1", "2"} /\ token = "TK_d"                          -> "3"
    [] k \in {"1", "2", "4"} /\ token \in {"TK_u", "TK_num"}       -> "u"
    [] k \in {"1", "2", "3", "u"} /\ token = "TK_mil"              -> "5"
    [] k = "5" /\ token = "TK_c"                                   -> "6"
    [] k \in {"5", "6"} /\ token = "TK_d"                          -> "7"
    [] k \in {"5", "6", "8"} /\ token \in {"TK_u", "TK_num"}       -> "k"
    [] k = "3" /\ token = "TK_wy"                                  -> "4"
    [] k = "7" /\ token = "TK_wy"                                  -> "8"
    [] OTHER                                                       -> "-"

Half == {"TK_wmedio", "TK_wcuarto"}

NumTrans(state, token) ==
  LET b == state[1]  k == state[2] IN
  CASE b \in Blocks /\ Within(k, token) # "-"                               -> <<b, Within(k, token)>>
    [] b = "B" /\ k \in Complete /\ token = "TK_bill"                       -> <<"M", "1">>
    [] b \in {"B", "M"} /\ k \in Complete /\ token = "TK_mill"              -> <<"S", "1">>
    [] b \in {"M", "S"} /\ k = "1" /\ token = "TK_wy"                       -> <<b, "1a">>
    [] k = "1a" /\ token \in Half                                           -> <<b, "1b">>
    [] state = NumInitialState /\ token = "TK_code"                         -> <<"COD", "-">>
    [] state = <<"B", "u">> /\ token \in Collective                         -> <<"X", "1">>
    [] state = <<"X", "1">> /\ token = "TK_wy"                              -> <<"X", "2">>
    [] state = <<"X", "2">> /\ token \in Half                               -> <<"X", "3">>
    [] state = NumInitialState /\ token = "TK_wmedio"                       -> <<"X", "4">>
    [] state = <<"X", "4">> /\ token = "TK_bill"                            -> <<"M", "1">>
    [] state = <<"X", "4">> /\ token = "TK_mill"                            -> <<"S", "1">>
    [] state = <<"X", "4">> /\ token \in Collective                         -> <<"X", "5">>
    [] OTHER                                                                -> NumStopState

NumComputeToken(w) == Entry(w).num

NumFresh == [bilion |-> 0, milion |-> 0, units |-> 0, block |-> "-", iscode |-> FALSE]

\* Fault: thousands of which no number is said are none.
AsSaid(units) == units

\* Thousands of which no number is said are one.
Thousands(units) == IF units = 0 THEN 4 ELSE units

NumStateActions(newstate, token, w, st) ==
  LET v == Entry(w).value IN
  CASE newstate[1] \in Blocks /\ newstate[2] \in Amounts -> [st EXCEPT !.units = @ + v]
    [] newstate[1] \in Blocks /\ newstate[2] = "5"       -> [st EXCEPT !.units = Thousands(@) * power[token]]
    [] newstate = <<"M", "1">>  -> [st EXCEPT !.bilion = st.units, !.units = 0]
    [] newstate = <<"M", "1b">> -> [st EXCEPT !.bilion = @ + v]
    [] newstate = <<"S", "1">>  -> [st EXCEPT !.milion = st.units, !.units = 0]
    [] newstate = <<"S", "1b">> -> [st EXCEPT !.milion = @ + v]
    [] newstate = <<"X", "1">>  -> [st EXCEPT !.units = @ * power[token], !.block = token]
    [] newstate = <<"X", "3">>  -> [st EXCEPT !.units = @ + v * power[st.block]]
    [] newstate = <<"X", "4">>  -> [st EXCEPT !.units = v]
    [] newstate = <<"X", "5">>  -> [st EXCEPT !.units = @ * power[token]]
    [] newstate[1] = "COD"      -> [st EXCEPT !.iscode = TRUE]
    [] OTHER                    -> st

\* The lemma, as a number; that of a code is the code, which numbers nothing.
NumValue(st) == [bilion |-> st.bilion, milion |-> st.milion, units |-> st.units]

NumAnalyses(state, st) ==
  <<[lemma |-> IF st.iscode THEN "<code>" ELSE "<number>",
     tag   |-> IF state[1] = "X" \/ state[2] = "1b" \/ state \in {<<"M", "1">>, <<"S", "1">>}
               THEN "Zd" ELSE "Z"]>>
=============================================================================
