------------------------------- MODULE DatesEs -------------------------------
(***************************************************************************)
(* The functions that dates_es.cc supplies to automat<T>: Spanish dates    *)
(* and times.  A field of a date is the sequence of what it says, empty    *)
(* while it is unknown.  A time such as "3h" has three submatches whether  *)
(* minutes follow or not, so that TK_hour is never given.                  *)
(***************************************************************************)
EXTENDS Integers, Sequences

CONSTANT Spanish(_)  \* of NumbersEs

Entry(w) == Spanish(w.form)

DateInitialState == "ST_A"
DateStopState    == "ST_STOP"
DateFinal        == {"ST_B", "ST_E", "ST_I", "ST_L", "ST_P", "ST_S2", "ST_BH", "ST_BH2",
                     "ST_CH", "ST_GH", "ST_GH1"}

\* What may follow a date, to tell its time; and in several states a month.
Hour  == [TK_wpor |-> "ST_Hd", TK_wa |-> "ST_Ha", TK_whacia |-> "ST_Ha"]
Month == [TK_month |-> "ST_I", TK_shmonth |-> "ST_I"]
Of(s) == [TK_wde |-> s, TK_wdel |-> s]
Minute(s)  == [TK_minnum |-> s, TK_min |-> s]
Daytime(s) == [TK_wmorning |-> s, TK_wmidnight |-> s]

\* What each state expects, and where that leads: records without a token in common.
Row(state) ==
  CASE state = "ST_A"    -> {[TK_weekday |-> "ST_B", TK_wday |-> "ST_D", TK_wmonth |-> "ST_G", TK_wyear |-> "ST_K",
                             TK_date |-> "ST_L", TK_month |-> "ST_I", TK_shmonth |-> "ST_Ib", TK_wcentury |-> "ST_S1",
                             TK_wpast |-> "ST_A", TK_daynum |-> "ST_CH1", TK_hour |-> "ST_CH1",
                             TK_hhmm |-> "ST_BH1", TK_wmidnight |-> "ST_GH1"]}
    [] state = "ST_B"    -> {Hour, [TK_wpast |-> "ST_B", TK_daynum |-> "ST_E", TK_comma |-> "ST_C", TK_wday |-> "ST_D"]}
    [] state = "ST_C"    -> {[TK_daynum |-> "ST_E", TK_wday |-> "ST_D"]}
    [] state = "ST_D"    -> {[TK_daynum |-> "ST_E"]}
    [] state = "ST_E"    -> {Hour, Month, Of("ST_F"), [TK_monthnum |-> "ST_I"]}
    [] state = "ST_Eb"   -> {Hour, Month, Of("ST_F"), [TK_monthnum |-> "ST_I"]}
    [] state = "ST_F"    -> {Month, [TK_wpast |-> "ST_F", TK_wmonth |-> "ST_G", TK_monthnum |-> "ST_I"]}
    [] state = "ST_G"    -> {Month, [TK_wde |-> "ST_H", TK_monthnum |-> "ST_I"]}
    [] state = "ST_H"    -> {Month, [TK_monthnum |-> "ST_I"]}
    [] state = "ST_I"    -> {Hour, Of("ST_J")}
    [] state = "ST_Ib"   -> {Of("ST_J")}
    [] state = "ST_J"    -> {[TK_wpast |-> "ST_J", TK_number |-> "ST_L", TK_wyear |-> "ST_K"]}
    [] state = "ST_K"    -> {[TK_wpast |-> "ST_K", TK_number |-> "ST_L"]}
    [] state = "ST_L"    -> {Hour, [TK_wacdc |-> "ST_P"]}
    [] state = "ST_P"    -> {Hour}
    [] state = "ST_S1"   -> {[TK_roman |-> "ST_S2", TK_dot |-> "ST_S1"]}
    [] state = "ST_S2"   -> {[TK_wacdc |-> "ST_S2"]}
    [] state = "ST_Ha"   -> {[TK_weso |-> "ST_Hb", TK_wel |-> "ST_AH", TK_wla |-> "ST_AH", TK_wmidnight |-> "ST_GH"]}
    [] state = "ST_Hb"   -> {[TK_wde |-> "ST_Hc", TK_wdel |-> "ST_AH"]}
    [] state = "ST_Hc"   -> {[TK_wla |-> "ST_AH"]}
    [] state = "ST_Hd"   -> {[TK_wel |-> "ST_He", TK_wla |-> "ST_He"]}
    [] state = "ST_He"   -> {Daytime("ST_GH")}
    [] state = "ST_AH"   -> {[TK_hhmm |-> "ST_BH", TK_hour |-> "ST_CH", TK_hournum |-> "ST_CH", TK_wmidnight |-> "ST_GH"]}
    [] state = "ST_BH"   -> {Of("ST_FH"), [TK_wmin |-> "ST_BH", TK_wampm |-> "ST_GH"]}
    [] state = "ST_CH"   -> {Of("ST_FH"), Minute("ST_BH"),
                             [TK_whour |-> "ST_CH", TK_wen |-> "ST_DH", TK_wy |-> "ST_EH",
                              TK_wmenos |-> "ST_EHb", TK_wampm |-> "ST_GH"]}
    [] state = "ST_DH"   -> {[TK_wpunto |-> "ST_BH"]}
    [] state = "ST_EH"   -> {Minute("ST_BH"), [TK_wquart |-> "ST_BH"]}
    [] state = "ST_EHb"  -> {Minute("ST_BH"), [TK_wquart |-> "ST_BH"]}
    [] state = "ST_FH"   -> {Daytime("ST_GH"), [TK_wla |-> "ST_FH"]}
    [] state = "ST_BH1"  -> {Of("ST_FH1"), [TK_wmin |-> "ST_BH1", TK_wampm |-> "ST_GH1", TK_wel |-> "ST_A",
                             TK_wen |-> "ST_DH1"]}
    [] state = "ST_BH2"  -> {Of("ST_FH1"), [TK_wampm |-> "ST_GH1", TK_wel |-> "ST_A"]}
    [] state = "ST_CH1"  -> {Of("ST_FH1b"), Minute("ST_BH1"), Month,
                             [TK_whour |-> "ST_CH1", TK_wen |-> "ST_DH1", TK_wmenos |-> "ST_EH1b",
                              TK_wy |-> "ST_EH1", TK_wampm |-> "ST_GH1"]}
    [] state = "ST_DH1"  -> {[TK_wpunto |-> "ST_BH2"]}
    [] state = "ST_EH1"  -> {Minute("ST_BH1"), [TK_wquart |-> "ST_BH2"]}
    [] state = "ST_EH1b" -> {Minute("ST_BH1"), [TK_wquart |-> "ST_BH2"]}
    [] state = "ST_FH1"  -> {Daytime("ST_GH1"), [TK_wla |-> "ST_FH1", TK_weekday |-> "ST_B", TK_wday |-> "ST_D",
                             TK_daynum |-> "ST_Eb"]}
    [] state = "ST_FH1b" -> {Daytime("ST_GH1"), Month,
                             [TK_wla |-> "ST_FH1", TK_wmonth |-> "ST_G", TK_wpast |-> "ST_FH1b", TK_weekday |-> "ST_B",
                              TK_wday |-> "ST_D", TK_wyear |-> "ST_K", TK_daynum |-> "ST_Eb"]}
    [] state = "ST_GH1"  -> {Of("ST_A"), [TK_wel |-> "ST_A"]}
    [] OTHER             -> {}

DateTrans(state, token) ==
  LET rows == {row \in Row(state) : token \in DOMAIN row}
  IN IF rows = {} THEN "ST_STOP" ELSE (CHOOSE row \in rows : TRUE)[token]

-----------------------------------------------------------------------------
\* A word that the numbers left with tag Z, and what its lemma is as an int: that
\* of a code is its form, and a number in the millions exceeds all ranges.
IsNumber(w) == w.analyses # <<>> /\ w.analyses[1].tag = "Z"
OutOfRange  == 1000000
Number(w)   == CASE w.analyses[1].lemma = "<code>"            -> Entry(w).says
                 [] w.value.bilion + w.value.milion # 0       -> OutOfRange
                 [] OTHER                                     -> w.value.units \div 4

NumberIn(w, S) == IsNumber(w) /\ Number(w) \in S
One(w)         == w.form \in {<<"un">>, <<"una">>}

\* Matched by a regular expression, which is tried in some states only.
Matches(w, re) == Entry(w).date = re
Expressions    == {"TK_date", "TK_hhmm", "TK_min", "TK_roman"}

\* A word that is not in the table, read as the state expects it.
Expected(state, w) ==
  LET DayIn   == {"ST_A", "ST_B", "ST_C", "ST_D", "ST_FH1", "ST_FH1b"}
      MonthIn == {"ST_E", "ST_Eb", "ST_F", "ST_G", "ST_H"}
      MinIn   == {"ST_CH", "ST_CH1", "ST_EH", "ST_EHb", "ST_EH1", "ST_EH1b"}
  IN CASE state \in DayIn /\ NumberIn(w, 1..31) /\ ~One(w)         -> "TK_daynum"
       [] state \in MonthIn /\ NumberIn(w, 1..12)                  -> "TK_monthnum"
       [] state = "ST_AH" /\ NumberIn(w, 0..24)                    -> "TK_hournum"
       [] state \in MinIn /\ NumberIn(w, 0..60)                    -> "TK_minnum"
       [] state = "ST_K" /\ IsNumber(w) /\ One(w)                  -> "TK_other"
       [] state = "ST_A" /\ Matches(w, "TK_date")                  -> "TK_date"
       [] state \in {"ST_A", "ST_AH"} /\ Matches(w, "TK_hhmm")     -> "TK_hhmm"
       [] state = "ST_S1" /\ Matches(w, "TK_roman")                -> "TK_roman"
       [] state \in MinIn /\ Matches(w, "TK_min")                  -> "TK_min"
       [] OTHER -> IF IsNumber(w) THEN "TK_number" ELSE "TK_other"

DateComputeToken(state, w) ==
  IF Entry(w).date \in Expressions \cup {"TK_other"} THEN Expected(state, w) ELSE Entry(w).date

-----------------------------------------------------------------------------
UNKNOWN_SYMB == <<>>

\* ResetActions; temp is a number that may be a day, an hour or a month.
DateFresh == [century |-> <<>>, year |-> <<>>, month |-> <<>>, day |-> <<>>, weekday |-> <<>>,
              hour |-> <<>>, minute |-> <<>>, meridian |-> <<>>, temp |-> -1]

\* n was an hour.
AsHour(n, st) == CASE n > 12      -> [st EXCEPT !.meridian = <<"pm">>, !.hour = <<n - 12>>]
                   [] n \in 0..12 -> [st EXCEPT !.hour = <<n>>]
                   [] OTHER       -> st

\* temp was an hour, and no minutes follow.
OnTheHour(origin, st) ==
  IF origin = "ST_FH1b" THEN AsHour(st.temp, [st EXCEPT !.minute = <<0>>]) ELSE st

\* "menos": the hour before, so many minutes short of this one.
HourBefore(st) ==
  [st EXCEPT !.hour = IF @ = UNKNOWN_SYMB THEN @ ELSE <<(IF @ = <<1>> THEN 13 ELSE @[1]) - 1>>]

Minutes(origin, n, st) ==
  IF origin \in {"ST_EHb", "ST_EH1b"} THEN [HourBefore(st) EXCEPT !.minute = <<60 - n>>]
  ELSE [st EXCEPT !.minute = <<n>>]

\* "media", which says 30, "cuarto", which says 15, or words that say nothing.
Quarter(origin, n, st) ==
  CASE n = 30 -> [st EXCEPT !.minute = <<30>>]
    [] n = 15 -> Minutes(origin, 15, st)
    [] OTHER  -> st

\* The minutes of a time; of "3h" the submatch is empty, which -1 stands for.
TimeOf(origin, token, w, st) ==
  LET says == Entry(w).says IN
  CASE token = "TK_minnum" -> Minutes(origin, Number(w), st)
    [] token = "TK_wquart" -> Quarter(origin, says, st)
    [] token = "TK_wpunto" -> IF st.minute = UNKNOWN_SYMB THEN [st EXCEPT !.minute = <<0>>] ELSE st
    [] token = "TK_hhmm"   -> [st EXCEPT !.hour = <<says[1]>>, !.minute = <<says[2]>>]
    [] token = "TK_min"    -> Minutes(origin, says, st)
    [] OTHER               -> st

\* A year of two digits is of this century or of the last one.
Year(y) == IF y \in 0..20 THEN 2000 + y ELSE IF y \in 50..99 THEN 1900 + y ELSE y

\* A day, a month and a year, matched as one word.
DateOf(says, st) == [st EXCEPT !.day = <<says[1]>>, !.month = <<says[2]>>, !.year = <<Year(says[3])>>]

MonthOf(token, w, st) ==
  [st EXCEPT !.month = IF token = "TK_monthnum" THEN <<Number(w)>> ELSE <<Entry(w).says>>]

\* "a.c.": the century is negated even when it is not known.
BeforeChrist(st) ==
  [st EXCEPT !.century = <<"-">> \o @, !.year = IF @ = UNKNOWN_SYMB THEN @ ELSE <<-(@[1])>>]

\* A part of the day: "am" or "pm"; midnight and noon may be the time itself.
PartOfDay(token, says, st) ==
  CASE token \in {"TK_wampm", "TK_wmorning"} -> [st EXCEPT !.meridian = <<says>>]
    [] token = "TK_wmidnight" /\ says = "am" ->
         [st EXCEPT !.meridian = <<"am">>, !.hour = <<0>>, !.minute = <<0>>]
    [] token = "TK_wmidnight" /\ says = "pm" ->
         IF st.hour = UNKNOWN_SYMB THEN [st EXCEPT !.meridian = <<"pm">>, !.hour = <<12>>, !.minute = <<0>>]
         ELSE [st EXCEPT !.meridian = <<"pm">>]
    [] OTHER -> st

\* Fault: of a day that had been taken for an hour the month is not stored.
MonthOfDay(origin, token, w, st) ==
  IF origin \in {"ST_FH1b", "ST_CH1"} THEN [st EXCEPT !.day = <<st.temp>>] ELSE MonthOf(token, w, st)

\* The month, and the day that had been taken for an hour.
DayAndMonth(origin, token, w, st) ==
  MonthOf(token, w, IF origin \in {"ST_FH1b", "ST_CH1"} THEN [st EXCEPT !.day = <<st.temp>>] ELSE st)

DateStateActions(origin, newstate, token, w, st) ==
  LET says == Entry(w).says IN
  CASE newstate = "ST_B" /\ token = "TK_weekday"   -> OnTheHour(origin, [st EXCEPT !.weekday = <<says>>])
    [] newstate = "ST_D"                           -> OnTheHour(origin, st)
    [] newstate \in {"ST_E", "ST_Eb"}              -> OnTheHour(origin, [st EXCEPT !.day = <<Number(w)>>])
    [] newstate = "ST_G" /\ origin = "ST_FH1b"     -> [st EXCEPT !.day = <<st.temp>>]
    [] newstate = "ST_K" /\ origin = "ST_FH1b"     -> [st EXCEPT !.month = <<st.temp>>]
    [] newstate = "ST_I"                           -> DayAndMonth(origin, token, w, st)
    [] newstate = "ST_Ib"                          -> MonthOf(token, w, st)
    [] newstate = "ST_L" /\ token = "TK_number"    -> [st EXCEPT !.year = <<Number(w)>>]
    [] newstate = "ST_L" /\ token = "TK_date"      -> DateOf(says, st)
    [] newstate = "ST_P" /\ says = "ac"            -> BeforeChrist(st)
    [] newstate = "ST_S2" /\ token = "TK_roman"    -> [st EXCEPT !.century = <<says>>]
    [] newstate = "ST_S2" /\ says = "ac"           -> [st EXCEPT !.century = <<"-">> \o @]
    [] newstate = "ST_BH"                          -> TimeOf(origin, token, w, st)
    [] newstate \in {"ST_BH1", "ST_BH2"}           ->
         TimeOf(origin, token, w, IF origin = "ST_A" THEN st ELSE AsHour(st.temp, st))
    [] newstate = "ST_CH" /\ token = "TK_hournum"  -> AsHour(Number(w), [st EXCEPT !.minute = <<0>>])
    [] newstate = "ST_CH1" /\ token = "TK_daynum"  -> [st EXCEPT !.temp = Number(w)]
    [] newstate = "ST_FH1"                         -> OnTheHour(origin, st)
    [] newstate \in {"ST_GH", "ST_GH1"}            -> PartOfDay(token, says, OnTheHour(origin, st))
    [] OTHER                                       -> st

\* The date that is the lemma of the new word: a century, or the fields.
DateValue(st) ==
  IF st.century # UNKNOWN_SYMB THEN [century |-> st.century]
  ELSE [weekday |-> st.weekday, day |-> st.day, month |-> st.month, year |-> st.year,
        hour |-> st.hour, minute |-> st.minute, meridian |-> st.meridian]

DateAnalyses == <<[lemma |-> "<date>", tag |-> "W"]>>
=============================================================================
