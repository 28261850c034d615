-------------------------- MODULE MultiwordsProofs --------------------------
(***************************************************************************)
(* Whatever automaton is run, on whatever sentence, and whatever it makes  *)
(* of the words it merges, the sentence goes on covering its input.  Then, *)
(* of the modules of maco: what a search of proper nouns, of the list of   *)
(* multiwords, of dates and of numbers have read and matched, whatever     *)
(* words, entries and tags they are given.                                 *)
(***************************************************************************)
EXTENDS Multiwords, Flattening

Size == Len(se)

\* The sentence is a sequence.
Sequence == Size \in Nat /\ se = [k \in 1..Size |-> se[k]]

\* Its words have a span.
Spans == \A k \in 1..Size : se[k].from \in Nat /\ se[k].to \in Nat /\ se[k].from <= se[k].to

\* Spans do not overlap, and are in order.
Ordered == \A a, b \in 1..Size : a < b => se[a].to < se[b].from

\* There are no input words between them, before them or after them.
Adjacent == /\ Size # 0 /\ se[1].from = 1 /\ se[Size].to = Len(text)
            /\ \A k \in 1..(Size - 1) : se[k + 1].from = se[k].to + 1

\* A search runs inside the sentence, and what it matched lies behind it.
Inside == /\ i \in Nat \ {0} /\ j \in Nat /\ eMatch \in Nat
          /\ at = "scan" => /\ i <= Size /\ i <= j /\ j <= Size + 1
                            /\ eMatch # 0 => i <= eMatch /\ eMatch < j

IInv == Sequence /\ Spans /\ Ordered /\ Adjacent /\ Inside

\* The length of a function on 1..n.
LEMMA LenOf == ASSUME NEW n \in Nat, NEW f, f = [k \in 1..n |-> f[k]]
               PROVE  Len(f) = n
<1> DEFINE S == {f[k] : k \in 1..n}
<1>1. f \in [1..n -> S]
  OBVIOUS
<1>2. f \in Seq(S)
  BY <1>1
<1> QED
  BY <1>1, <1>2

\* The sentence as received covers itself.
LEMMA InitInv == Init => IInv
<1> SUFFICES ASSUME Init PROVE IInv
  OBVIOUS
<1>1. PICK V \in Vocabularies, n \in 1..MaxLength :
        /\ text \in [1..n -> V]
        /\ se = [k \in 1..n |-> [from |-> k, to |-> k, word |-> text[k]]]
  BY DEF Init
<1>2. n \in Nat \ {0}
  OBVIOUS
<1>3. Len(text) = n
  BY <1>1, <1>2
<1>4. Size = n
  BY <1>1, <1>2, LenOf DEF Size
<1>5. Sequence
  BY <1>1, <1>2, <1>4 DEF Sequence
<1>6. \A k \in 1..n : se[k].from = k /\ se[k].to = k
  BY <1>1
<1>7. Spans /\ Ordered /\ Adjacent
  BY <1>2, <1>3, <1>4, <1>6 DEF Spans, Ordered, Adjacent
<1>8. Inside
  BY DEF Init, Inside
<1> QED
  BY <1>5, <1>7, <1>8 DEF IInv

\* Merging the words of a match keeps all that is said of the sentence.
LEMMA MergeInv ==
  ASSUME IInv, at = "scan", eMatch # 0, NEW w, se' = Merge(w), text' = text
  PROVE  Sequence' /\ Spans' /\ Ordered' /\ Adjacent' /\ i <= Size' /\ i \in Nat \ {0}
<1> DEFINE d == eMatch - i
           n == Size - d
<1>1. /\ Size \in Nat /\ i \in Nat \ {0} /\ eMatch \in Nat
      /\ i <= eMatch /\ eMatch <= Size
  BY DEF IInv, Inside, Sequence
<1>2. d \in Nat /\ n \in Nat /\ n # 0 /\ i <= n
  BY <1>1
<1> HIDE DEF d, n
<1>3. se' = [k \in 1..n |-> IF k < i THEN se[k]
                            ELSE IF k = i THEN [from |-> se[i].from, to |-> se[eMatch].to, word |-> w]
                            ELSE se[k + d]]
  BY DEF Merge, Size, d, n
<1>4. Size' = n
  BY <1>2, <1>3, LenOf DEF Size
<1>5. Sequence'
  BY <1>2, <1>3, <1>4 DEF Sequence
<1>6. /\ \A k \in 1..n : k < i => se'[k] = se[k]
      /\ se'[i].from = se[i].from /\ se'[i].to = se[eMatch].to
      /\ \A k \in 1..n : k > i => se'[k] = se[k + d]
  BY <1>1, <1>2, <1>3
<1>7. eMatch = i + d /\ Size = n + d
  BY <1>1 DEF d, n
<1>8. Spans'
  <2>1. se[i].from <= se[eMatch].to
    BY <1>1 DEF IInv, Spans, Ordered
  <2> SUFFICES ASSUME NEW k \in 1..n
               PROVE  se'[k].from \in Nat /\ se'[k].to \in Nat /\ se'[k].from <= se'[k].to
    BY <1>4 DEF Spans
  <2>2. CASE k < i
    BY <2>2, <1>1, <1>2, <1>6, <1>7 DEF IInv, Spans
  <2>3. CASE k = i
    BY <2>1, <2>3, <1>1, <1>6 DEF IInv, Spans
  <2>4. CASE k > i
    BY <2>4, <1>1, <1>2, <1>6, <1>7 DEF IInv, Spans
  <2> QED
    BY <2>2, <2>3, <2>4, <1>1
<1>9. Ordered'
  <2> SUFFICES ASSUME NEW a \in 1..n, NEW b \in 1..n, a < b
               PROVE  se'[a].to < se'[b].from
    BY <1>4 DEF Ordered
  <2>1. \A x, y \in 1..Size : x < y => se[x].to < se[y].from
    BY DEF IInv, Ordered
  <2>2. CASE b < i
    BY <2>1, <2>2, <1>1, <1>2, <1>6, <1>7
  <2>3. CASE b = i
    BY <2>1, <2>3, <1>1, <1>2, <1>6, <1>7
  <2>4. CASE b > i
    <3>1. CASE a < i
      BY <2>1, <2>4, <3>1, <1>1, <1>2, <1>6, <1>7
    <3>2. CASE a = i
      BY <2>1, <2>4, <3>2, <1>1, <1>2, <1>6, <1>7
    <3>3. CASE a > i
      BY <2>1, <2>4, <3>3, <1>1, <1>2, <1>6, <1>7
    <3> QED
      BY <3>1, <3>2, <3>3, <1>1
  <2> QED
    BY <2>2, <2>3, <2>4, <1>1
<1>10. Adjacent'
  <2>1. /\ se[1].from = 1 /\ se[Size].to = Len(text)
        /\ \A k \in 1..(Size - 1) : se[k + 1].from = se[k].to + 1
    BY DEF IInv, Adjacent
  <2>2. se'[1].from = 1
    BY <2>1, <1>1, <1>2, <1>6
  <2>3. se'[n].to = Len(text)
    <3>1. CASE n = i
      BY <2>1, <3>1, <1>6, <1>7
    <3>2. CASE n > i
      <4>1. se'[n] = se[n + d]
        BY <3>2, <1>2, <1>6
      <4> QED
        BY <2>1, <4>1, <1>7
    <3> QED
      BY <3>1, <3>2, <1>1, <1>2
  <2>4. ASSUME NEW k \in 1..(n - 1)
        PROVE  se'[k + 1].from = se'[k].to + 1
    <3>1. CASE k + 1 < i
      BY <2>1, <3>1, <1>1, <1>2, <1>6, <1>7
    <3>2. CASE k + 1 = i
      BY <2>1, <3>2, <1>1, <1>2, <1>6, <1>7
    <3>3. CASE k = i
      BY <2>1, <3>3, <1>1, <1>2, <1>6, <1>7
    <3>4. CASE k > i
      <4>1. se'[k] = se[k + d] /\ se'[k + 1] = se[k + 1 + d]
        BY <3>4, <1>1, <1>2, <1>6
      <4>2. k + d \in 1..(Size - 1) /\ k + 1 + d = k + d + 1
        BY <1>1, <1>2, <1>7
      <4> QED
        BY <2>1, <4>1, <4>2
    <3> QED
      BY <3>1, <3>2, <3>3, <3>4, <1>1
  <2> QED
    BY <2>2, <2>3, <2>4, <1>2, <1>4 DEF Adjacent
<1> QED
  BY <1>1, <1>2, <1>4, <1>5, <1>8, <1>9, <1>10

\* Each step preserves the invariant; only Build changes the sentence.
LEMMA NextInv == IInv /\ [Next]_vars => IInv'
<1> SUFFICES ASSUME IInv, [Next]_vars PROVE IInv'
  OBVIOUS
<1>1. ASSUME UNCHANGED <<text, se>> PROVE (Sequence /\ Spans /\ Ordered /\ Adjacent)'
  BY <1>1 DEF IInv, Sequence, Spans, Ordered, Adjacent, Size
<1>2. CASE Skip
  BY <1>1, <1>2 DEF IInv, Inside, Skip, search, Size
<1>3. CASE Start
  BY <1>1, <1>3 DEF IInv, Inside, Start, Sequence, Size
<1>4. CASE Scan
  <2>1. UNCHANGED <<text, se, i, at>> /\ j' = j + 1 /\ at = "scan" /\ j <= Size
    BY <1>4 DEF Scan, Stopped, Size, IInv, Inside, Sequence
  <2>2. eMatch' = eMatch \/ eMatch' = j
    BY <1>4 DEF Scan, Remember
  <2> QED
    BY <1>1, <2>1, <2>2 DEF IInv, Inside, Sequence, Size
<1>5. CASE Build
  <2>1. /\ at = "scan" /\ eMatch # 0 /\ text' = text
        /\ se' = Merge(Multiword(Self, Words, fstate, st))
    BY <1>5 DEF Build, Found
  <2>2. Sequence' /\ Spans' /\ Ordered' /\ Adjacent'
    BY <2>1, MergeInv
  <2>3. i' = i + 1 /\ at' = "next" /\ j' = 1 /\ eMatch' = 0
    BY <1>5 DEF Build, EndSearch
  <2>4. Inside'
    BY <2>3 DEF IInv, Inside
  <2> QED
    BY <2>2, <2>4 DEF IInv
<1>6. CASE Reject
  BY <1>1, <1>6 DEF IInv, Inside, Reject, EndSearch
<1>7. CASE NoMatch
  BY <1>1, <1>7 DEF IInv, Inside, NoMatch, EndSearch
<1>8. CASE EndModule
  BY <1>1, <1>8 DEF IInv, Inside, EndModule, search
<1>9. CASE UNCHANGED vars
  BY <1>1, <1>9 DEF IInv, Inside, vars, Size
<1> QED
  BY <1>2, <1>3, <1>4, <1>5, <1>6, <1>7, <1>8, <1>9 DEF Next

\* The words of a sentence stand for consecutive spans of the input whatever
\* automata search it: BuildMultiword and analyze lose and repeat no word.
THEOREM SentenceCovered == Spec => []Cover
<1>1. IInv => Cover
  BY LenOf DEF IInv, Sequence, Spans, Adjacent, Cover, Size
<1> QED
  BY <1>1, InitInv, NextInv, PTL DEF Spec

-----------------------------------------------------------------------------
(* The automaton of proper nouns.                                            *)

\* The constants of Automat are those that the modules of maco supply.
AsMaco ==
  /\ Cascade = MacoOrder
  /\ \A c : /\ initialState(c) = InitialStateOf(c) /\ stopState(c) = StopStateOf(c)
           /\ Final(c) = FinalOf(c) /\ Fresh(c) = FreshOf(c)
  /\ \A c, s, t : trans(c, s, t) = TransOf(c, s, t)
  /\ \A c, s, k, e, u : ComputeToken(c, s, k, e, u) = TokenOf(c, s, k, e, u)
  /\ \A c, o, s, t, k, e, u : StateActions(c, o, s, t, k, e, u) = StatusAfter(c, o, s, t, k, e, u)
  /\ \A c, w, u : ValidMultiWord(c, w, u) = Valid(c, w, u)
  /\ \A c, w, s, u : Multiword(c, w, s, u) = NewWord(c, w, s, u)

Upper == {"TK_sUnkUpp", "TK_sNounUpp", "TK_mUpper"}

\* What a token says of the word it was computed for.
LEMMA TokenMeans ==
  ASSUME NEW s, NEW k, NEW e, NEW t, t = N!NpComputeToken(s, k, e)
  PROVE  /\ t \in Upper => NameWord(e[k].word)
         /\ t = "TK_mPref" => e[k].word.form \in prefixes
         /\ t = "TK_mFun"  => e[k].word.form \in func
         /\ t = "TK_mSuf"  => e[k].word.form \in suffixes
<1> DEFINE w == e[k].word
<1>1. CASE N!Ignore(w) = 1
  <2>1. t = N!IgnorableToken(s, k, e)
    BY <1>1 DEF N!NpComputeToken
  <2>2. t \in Upper \cup {"TK_other"}
    BY <2>1 DEF N!IgnorableToken, Upper
  <2> QED BY <1>1, <2>2 DEF NameWord, Upper
<1>2. CASE N!Ignore(w) = 0 /\ N!SentenceBegin(k, e)
  <2>1. t = N!BeginToken(w)
    BY <1>2 DEF N!NpComputeToken
  <2>2. t \in Upper => N!Capitalized(w) /\ (w.shape = "CAPS" \/ N!Tags(w) \cap RE_DateNumPunct = {})
    BY <2>1 DEF N!BeginToken, N!Capitalized, Upper
  <2>3. t \in Upper \cup {"TK_other"}
    BY <2>1 DEF N!BeginToken, Upper
  <2> QED BY <1>2, <2>2, <2>3 DEF NameWord, Upper
<1>3. CASE N!Ignore(w) = 0 /\ ~N!SentenceBegin(k, e) /\ ~w.locked
  <2>1. t = N!InnerToken(w)
    BY <1>3 DEF N!NpComputeToken
  <2> QED BY <1>3, <2>1 DEF N!InnerToken, NameWord, Upper
<1>4. CASE N!Ignore(w) # 1 /\ ~(N!Ignore(w) = 0 /\ N!SentenceBegin(k, e))
           /\ ~(N!Ignore(w) = 0 /\ ~N!SentenceBegin(k, e) /\ ~w.locked)
  <2>1. t = "TK_other"
    BY <1>4 DEF N!NpComputeToken
  <2> QED BY <2>1 DEF Upper
<1> QED BY <1>1, <1>2, <1>3, <1>4

\* At the beginning of a sentence no search takes a word for the middle of a name.
LEMMA TokenBegins ==
  ASSUME NEW k, NEW e, NEW t, t = N!NpComputeToken("ST_IN", k, e), N!SentenceBegin(k, e)
  PROVE  /\ t \in {"TK_sUnkUpp", "TK_sNounUpp", "TK_other"}
         /\ t = "TK_sUnkUpp" => e[k].word.analyses = <<>>
<1> DEFINE w == e[k].word
<1>1. CASE N!Ignore(w) = 1
  BY <1>1 DEF N!NpComputeToken, N!IgnorableToken
<1>2. CASE N!Ignore(w) = 0
  <2>1. t = N!BeginToken(w)
    BY <1>2 DEF N!NpComputeToken
  <2> QED BY <2>1 DEF N!BeginToken
<1>3. CASE N!Ignore(w) # 1 /\ N!Ignore(w) # 0
  BY <1>3 DEF N!NpComputeToken
<1> QED BY <1>1, <1>2, <1>3

\* The rows of the table, by the state they lead to.
LEMMA TransMeans ==
  ASSUME NEW s, NEW t, NEW r, r = N!NpTrans(s, t)
  PROVE  /\ r \in {"ST_PREF", "ST_NP", "ST_FUN", "ST_SUF", "ST_STOP"}
         /\ r = "ST_PREF" => s \in {"ST_IN", "ST_PREF"} /\ t = "TK_mPref"
         /\ r = "ST_NP"   => \/ s = "ST_IN" /\ t \in Upper
                             \/ s \in {"ST_PREF", "ST_NP", "ST_FUN"} /\ t = "TK_mUpper"
         /\ r = "ST_FUN"  => s \in {"ST_NP", "ST_FUN"} /\ t = "TK_mFun"
         /\ r = "ST_SUF"  => s \in {"ST_NP", "ST_SUF"} /\ t = "TK_mSuf"
  BY DEF N!NpTrans, Upper

\* The words from the start of the search to e: a name that b and c bound.
NameTo(b, c, e) ==
  /\ b \in i..e /\ c \in b..e /\ NameWord(se[b].word) /\ NameWord(se[c].word)
  /\ \A k \in i..e : /\ k < b => se[k].word.form \in prefixes
                     /\ b < k /\ k < c => NameWord(se[k].word) \/ se[k].word.form \in func
                     /\ c < k => se[k].word.form \in suffixes

\* A name that is not yet known to end.
NameFrom(b, e) ==
  /\ b \in i..e /\ NameWord(se[b].word)
  /\ \A k \in i..e : /\ k < b => se[k].word.form \in prefixes
                     /\ b < k => NameWord(se[k].word) \/ se[k].word.form \in func

\* A first word that is a name on its own is a noun, or the dictionary has no analyses of it.
NounKnown == eMatch = i /\ N!SentenceBegin(i, se) => st.initialNoun = TRUE \/ se[i].word.analyses = <<>>

\* What a search of proper nouns has read, by the state that it is in, and
\* what it has matched.
NameScan ==
  /\ state \in {"ST_IN", "ST_PREF", "ST_NP", "ST_FUN", "ST_SUF", "ST_STOP"}
  /\ state = "ST_IN" => j = i
  /\ state = "ST_PREF" => i < j /\ \A k \in i..(j - 1) : se[k].word.form \in prefixes
  /\ state = "ST_NP" => \E b \in i..(j - 1) : NameTo(b, j - 1, j - 1)
  /\ state = "ST_FUN" => \E b \in i..(j - 1) : NameFrom(b, j - 1)
  /\ state = "ST_SUF" => \E b, c \in i..(j - 1) : NameTo(b, c, j - 1)
  /\ eMatch # 0 => \E b, c \in i..eMatch : NameTo(b, c, eMatch)
  /\ NounKnown

\* The tables of np, as the automaton sees them.
LEMMA NpIs ==
  ASSUME AsMaco
  PROVE  /\ initialState("np") = "ST_IN" /\ stopState("np") = "ST_STOP"
         /\ Final("np") = {"ST_NP", "ST_SUF"}
         /\ \A s, t : trans("np", s, t) = N!NpTrans(s, t)
         /\ \A s, k, e, u : ComputeToken("np", s, k, e, u) = N!NpComputeToken(s, k, e)
         /\ \A o, s, t, k, e, u : StateActions("np", o, s, t, k, e, u) = N!NpStateActions(s, t, u)
  BY DEF AsMaco, InitialStateOf, StopStateOf, FinalOf, TransOf, TokenOf, StatusAfter,
         N!NpInitialState, N!NpStopState, N!NpFinal

\* A turn of the loop extends what was read by one word.
LEMMA NameScanStep ==
  ASSUME AsMaco, Sequence, Inside, Self = "np", NameScan, Scan
  PROVE  NameScan'
<1> DEFINE t == N!NpComputeToken(state, j, se)
           r == N!NpTrans(state, t)
<1>1. /\ at = "scan" /\ state # "ST_STOP" /\ j <= Size
      /\ se' = se /\ i' = i /\ j' = j + 1 /\ state' = r
      /\ st' = N!NpStateActions(r, t, st)
      /\ IF r \in {"ST_NP", "ST_SUF"} THEN eMatch' = j ELSE eMatch' = eMatch
  BY NpIs DEF Scan, Stopped, Remember, Size, Sequence, Inside
<1>2. i \in Nat \ {0} /\ j \in Nat /\ i <= j /\ Size \in Nat /\ eMatch \in Nat /\ (eMatch # 0 => eMatch < j)
  BY <1>1 DEF Inside, Sequence
<1>3. /\ t \in Upper => NameWord(se[j].word)
      /\ t = "TK_mPref" => se[j].word.form \in prefixes
      /\ t = "TK_mFun"  => se[j].word.form \in func
      /\ t = "TK_mSuf"  => se[j].word.form \in suffixes
  BY TokenMeans
<1>4. /\ r \in {"ST_PREF", "ST_NP", "ST_FUN", "ST_SUF", "ST_STOP"}
      /\ r = "ST_PREF" => state \in {"ST_IN", "ST_PREF"} /\ t = "TK_mPref"
      /\ r = "ST_NP"   => \/ state = "ST_IN" /\ t \in Upper
                          \/ state \in {"ST_PREF", "ST_NP", "ST_FUN"} /\ t = "TK_mUpper"
      /\ r = "ST_FUN"  => state \in {"ST_NP", "ST_FUN"} /\ t = "TK_mFun"
      /\ r = "ST_SUF"  => state \in {"ST_NP", "ST_SUF"} /\ t = "TK_mSuf"
  BY TransMeans
<1>5. j = i /\ N!SentenceBegin(i, se)
        => t # "TK_mUpper" /\ (t = "TK_sUnkUpp" => se[i].word.analyses = <<>>)
  <2> SUFFICES ASSUME j = i, N!SentenceBegin(i, se)
               PROVE  t # "TK_mUpper" /\ (t = "TK_sUnkUpp" => se[i].word.analyses = <<>>)
    OBVIOUS
  <2>1. state = "ST_IN"
    BY <1>1, <1>2 DEF NameScan
  <2> QED BY <2>1, TokenBegins
<1> DEFINE s == N!NpStateActions(r, t, st)
<1>6. st' = s /\ (r # "ST_NP" => s = st) /\ (r = "ST_NP" /\ t = "TK_sNounUpp" => s.initialNoun = TRUE)
  <2>1. r # "ST_NP" => s = st
    BY DEF N!NpStateActions
  <2>2. ASSUME r = "ST_NP", t = "TK_sNounUpp" PROVE s.initialNoun = TRUE
    <3> HIDE DEF t, r
    <3>1. s = [initialNoun |-> t = "TK_sNounUpp"]
      BY <2>2 DEF N!NpStateActions
    <3>2. (t = "TK_sNounUpp") = TRUE
      BY <2>2
    <3> HIDE DEF s
    <3>3. s = [initialNoun |-> TRUE]
      BY <3>1, <3>2
    <3> QED BY <3>3
  <2> QED BY <1>1, <2>1, <2>2
<1> HIDE DEF t, r, s
<1>7. \A k \in i..j : k \in i..(j - 1) \/ k = j
  BY <1>2
<1>8. r = "ST_PREF" => \A k \in i..j : se[k].word.form \in prefixes
  BY <1>2, <1>3, <1>4, <1>7 DEF NameScan
<1>9. r = "ST_NP" => \E b \in i..j : NameTo(b, j, j)
  <2> SUFFICES ASSUME r = "ST_NP" PROVE \E b \in i..j : NameTo(b, j, j)
    OBVIOUS
  <2>1. NameWord(se[j].word)
    BY <1>3, <1>4 DEF Upper
  <2>2. CASE state \in {"ST_IN", "ST_PREF"}
    <3>1. \A k \in i..j : k < j => se[k].word.form \in prefixes
      BY <1>2, <1>7, <2>2 DEF NameScan
    <3>2. NameTo(j, j, j)
      BY <2>1, <3>1, <1>2 DEF NameTo
    <3> QED BY <3>2, <1>2
  <2>3. CASE state \in {"ST_NP", "ST_FUN"}
    <3>1. PICK b \in i..(j - 1) : NameFrom(b, j - 1)
      BY <2>3, <1>2 DEF NameScan, NameTo, NameFrom
    <3>2. NameTo(b, j, j)
      BY <2>1, <3>1, <1>2, <1>7 DEF NameTo, NameFrom
    <3> QED BY <3>1, <3>2, <1>2
  <2> QED BY <2>2, <2>3, <1>4
<1>10. r = "ST_FUN" => \E b \in i..j : NameFrom(b, j)
  <2> SUFFICES ASSUME r = "ST_FUN" PROVE \E b \in i..j : NameFrom(b, j)
    OBVIOUS
  <2>1. PICK b \in i..(j - 1) : NameFrom(b, j - 1)
    BY <1>2, <1>4 DEF NameScan, NameTo, NameFrom
  <2>2. NameFrom(b, j)
    BY <2>1, <1>2, <1>3, <1>4, <1>7 DEF NameFrom
  <2> QED BY <2>1, <2>2, <1>2
<1>11. r = "ST_SUF" => \E b, c \in i..j : NameTo(b, c, j)
  <2> SUFFICES ASSUME r = "ST_SUF" PROVE \E b, c \in i..j : NameTo(b, c, j)
    OBVIOUS
  <2>0. ASSUME state = "ST_NP"
        PROVE  \E b \in i..(j - 1), c \in i..(j - 1) : NameTo(b, c, j - 1)
    <3>1. PICK b \in i..(j - 1) : NameTo(b, j - 1, j - 1)
      BY <2>0 DEF NameScan
    <3>2. j - 1 \in i..(j - 1)
      BY <3>1, <1>2
    <3> QED BY <3>1, <3>2
  <2>1. PICK b \in i..(j - 1), c \in i..(j - 1) : NameTo(b, c, j - 1)
    BY <2>0, <1>4 DEF NameScan
  <2>2. NameTo(b, c, j)
    BY <2>1, <1>2, <1>3, <1>4, <1>7 DEF NameTo
  <2> QED BY <2>1, <2>2, <1>2
<1>12. r \in {"ST_NP", "ST_SUF"} => \E b, c \in i..j : NameTo(b, c, j)
  BY <1>2, <1>9, <1>11
<1>13. eMatch' # 0 => \E b, c \in i..eMatch' : NameTo(b, c, eMatch')
  BY <1>1, <1>12 DEF NameScan
<1>14. eMatch' = i /\ N!SentenceBegin(i, se) => s.initialNoun = TRUE \/ se[i].word.analyses = <<>>
  <2> SUFFICES ASSUME eMatch' = i, N!SentenceBegin(i, se)
               PROVE  s.initialNoun = TRUE \/ se[i].word.analyses = <<>>
    OBVIOUS
  <2>0. eMatch' = i /\ N!SentenceBegin(i, se)
    OBVIOUS
  <2>1. CASE r \in {"ST_NP", "ST_SUF"}
    <3>1. j = i /\ state = "ST_IN"
      BY <1>1, <1>2, <2>1 DEF NameScan
    <3>2. r = "ST_NP" /\ t \in Upper
      BY <1>4, <2>1, <3>1
    <3>3. CASE t = "TK_sNounUpp"
      BY <1>6, <3>2, <3>3
    <3>4. CASE t # "TK_sNounUpp"
      <4>0. j = i /\ N!SentenceBegin(i, se)
        BY <2>0, <3>1
      <4>1. t # "TK_mUpper" /\ (t = "TK_sUnkUpp" => se[i].word.analyses = <<>>)
        BY <1>5, <4>0
      <4>2. t = "TK_sUnkUpp"
        BY <3>2, <3>4, <4>1 DEF Upper
      <4> QED BY <4>1, <4>2
    <3> QED BY <3>3, <3>4
  <2>2. CASE r \notin {"ST_NP", "ST_SUF"}
    <3>1. eMatch = i /\ s = st
      BY <1>1, <1>6, <2>0, <2>2
    <3>2. NounKnown
      BY DEF NameScan
    <3>3. st.initialNoun = TRUE \/ se[i].word.analyses = <<>>
      BY <3>1, <3>2, <2>0, Zenon DEF NounKnown
    <3> QED BY <3>1, <3>3, Zenon
  <2> QED BY <2>1, <2>2
<1>15. /\ \A b, c, e : NameTo(b, c, e)' <=> NameTo(b, c, e)
       /\ \A b, e : NameFrom(b, e)' <=> NameFrom(b, e)
  BY <1>1 DEF NameTo, NameFrom
<1>16. (j + 1) - 1 = j /\ i < j + 1
  BY <1>2
<1>17. N!SentenceBegin(i, se)' <=> N!SentenceBegin(i, se)
  BY <1>1 DEF N!SentenceBegin, N!Tags
<1>18. /\ r \in {"ST_IN", "ST_PREF", "ST_NP", "ST_FUN", "ST_SUF", "ST_STOP"}
       /\ r = "ST_IN" => j + 1 = i
  BY <1>4
<1>19. NounKnown'
  <2> SUFFICES ASSUME eMatch' = i', N!SentenceBegin(i, se)'
               PROVE  st'.initialNoun = TRUE \/ se'[i'].word.analyses = <<>>
    BY DEF NounKnown
  <2>1. s.initialNoun = TRUE \/ se[i].word.analyses = <<>>
    BY <1>1, <1>14, <1>17
  <2> QED BY <1>1, <1>6, <2>1
<1>20. /\ \A b, c, e : NameTo(b, c, e) => NameTo(b, c, e)'
       /\ \A b, e : NameFrom(b, e) => NameFrom(b, e)'
  BY <1>15
<1> HIDE DEF NounKnown
<1> QED BY <1>1, <1>8, <1>9, <1>10, <1>11, <1>13, <1>16, <1>18, <1>19, <1>20 DEF NameScan

\* The forms of the words that are merged follow each other.
LEMMA FormIsSeq ==
  ASSUME NEW n \in Nat, NEW p, p = [k \in 1..n |-> p[k]], \A k \in 1..n : IsSeq(p[k].form)
  PROVE  IsSeq(FlattenSeq([k \in DOMAIN p |-> p[k].form]))
<1> DEFINE T == UNION {Range(p[k].form) : k \in 1..n}
           s == [k \in 1..n |-> p[k].form]
<1>1. DOMAIN p = 1..n
  OBVIOUS
<1>2. ASSUME NEW k \in 1..n PROVE s[k] \in Seq(T)
  <2> DEFINE x == p[k].form
  <2>1. x \in Seq(Range(x)) /\ Range(x) \subseteq T
    BY DEF IsSeq
  <2>2. s[k] = x
    OBVIOUS
  <2> HIDE DEF x, T, s
  <2> QED BY <2>1, <2>2
<1>3. s \in Seq(Seq(T))
  <2>1. s = [k \in 1..n |-> s[k]]
    OBVIOUS
  <2> HIDE DEF s, T
  <2> QED BY <1>2, <2>1
<1> HIDE DEF s, T
<1>4. FlattenSeq(s) \in Seq(T)
  BY <1>3, FlattenType
<1> DEFINE x == FlattenSeq(s)
<1>5. x = [k \in 1..Len(x) |-> x[k]] /\ Len(x) \in Nat
  BY <1>4
<1>6. IsSeq(x)
  BY <1>5, SeqOfFunction DEF IsSeq
<1> QED BY <1>1, <1>6 DEF s

\* An instance has the operators on sequences once more.
LEMMA FlattenOfL == \A s : L!FlattenSeq(s) = FlattenSeq(s)
  BY DEF L!FlattenSeq, FlattenSeq

LEMMA SetToSeqOfL == \A S : L!SetToSeq(S) = SetToSeq(S)
  BY DEF L!SetToSeq, SetToSeq, L!IsInjective, IsInjective, L!Cardinality, Cardinality

\* The data of the entries that were matched are some of those of the list.
LEMMA ItemsOfList ==
  ASSUME NEW u
  PROVE  /\ IsFiniteSet(Range(L!Items(u)))
         /\ \A m \in Range(L!Items(u)) : IsFiniteSet(m.tags) /\ m.tags \cap punct = {}
<1> DEFINE M == UNION {Range(e.data) : e \in Range(Locut)}
           s == [n \in DOMAIN Locut |-> IF Locut[n].key \in u.longest THEN Locut[n].data ELSE <<>>]
<1>1. Locut \in Seq(Range(Locut)) /\ DOMAIN Locut = 1..Len(Locut) /\ Len(Locut) \in Nat
  BY LocutAssumption DEF IsSeq
<1>2. ASSUME NEW n \in DOMAIN Locut PROVE s[n] \in Seq(M)
  <2> DEFINE d == Locut[n].data
  <2>1. Locut[n] \in Range(Locut)
    BY DEF Range
  <2>2. d \in Seq(Range(d)) /\ Range(d) \subseteq M
    BY <2>1, LocutAssumption DEF IsSeq
  <2>3. s[n] = d \/ s[n] = <<>>
    OBVIOUS
  <2> HIDE DEF d, s, M
  <2>4. d \in Seq(M) /\ <<>> \in Seq(M)
    BY <2>2
  <2> QED BY <2>3, <2>4
<1>3. s \in Seq(Seq(M))
  <2>1. s = [n \in 1..Len(Locut) |-> s[n]]
    BY <1>1
  <2> HIDE DEF s, M
  <2> QED BY <1>1, <1>2, <2>1
<1> HIDE DEF s
<1> DEFINE x == FlattenSeq(s)
<1>4. x \in Seq(M)
  <2> HIDE DEF M
  <2> QED BY <1>3, FlattenType
<1>5. x = L!Items(u)
  BY FlattenOfL DEF L!Items, s
<1> HIDE DEF x
<1>6. IsFiniteSet(Range(x))
  <2>1. DOMAIN x = 1..Len(x) /\ Len(x) \in Int /\ x = [n \in 1..Len(x) |-> x[n]]
    BY <1>4
  <2>2. IsFiniteSet(1..Len(x))
    <3>1. 1 \in Int
      OBVIOUS
    <3> QED BY <2>1, <3>1, FS_Interval
  <2>3. IsFiniteSet({x[n] : n \in 1..Len(x)})
    BY <2>1, <2>2, FiniteImage
  <2> QED BY <2>1, <2>3 DEF Range
<1>7. ASSUME NEW m \in Range(x) PROVE IsFiniteSet(m.tags) /\ m.tags \cap punct = {}
  <2>1. m \in M
    <3> HIDE DEF M
    <3>1. \A n \in DOMAIN x : x[n] \in M
      BY <1>4
    <3> QED BY <3>1 DEF Range
  <2> QED BY <2>1, LocutAssumption, PunctAssumption
<1> QED BY <1>5, <1>6, <1>7

\* The analyses of a word that is built: only np calls it a name, and no tag is
\* one of punctuation that another module gives.
LEMMA AnalysesBuilt ==
  ASSUME NEW c \in {"numbers", "dates", "locutions", "np"}, NEW p, NEW s, NEW u,
         IsSeq(p[1].analyses)
  PROVE  /\ IsSeq(AnalysesOf(c, p, s, u))
         /\ c # "np" => \A a \in Range(AnalysesOf(c, p, s, u)) : a.lemma # "<name>" /\ a.tag \notin punct
<1>1. CASE c = "numbers"
  <2> DEFINE a == [lemma |-> IF u.iscode THEN "<code>" ELSE "<number>",
                   tag   |-> IF s[1] = "X" \/ s[2] = "1b" \/ s \in {<<"M", "1">>, <<"S", "1">>}
                             THEN "Zd" ELSE "Z"]
  <2>1. AnalysesOf(c, p, s, u) = <<a>>
    BY <1>1 DEF AnalysesOf, Q!NumAnalyses
  <2>2. a.lemma \in {"<code>", "<number>"} /\ a.tag \notin punct
    BY PunctAssumption
  <2> HIDE DEF a
  <2>3. Range(<<a>>) = {a} /\ <<a>> \in Seq({a})
    BY DEF Range
  <2> QED BY <2>1, <2>2, <2>3 DEF IsSeq
<1>2. CASE c = "dates"
  <2> DEFINE a == [lemma |-> "<date>", tag |-> "W"]
  <2>1. AnalysesOf(c, p, s, u) = <<a>>
    BY <1>2 DEF AnalysesOf, D!DateAnalyses
  <2>2. a.lemma = "<date>" /\ a.tag \notin punct
    BY PunctAssumption
  <2> HIDE DEF a
  <2>3. Range(<<a>>) = {a} /\ <<a>> \in Seq({a})
    BY DEF Range
  <2> QED BY <2>1, <2>2, <2>3 DEF IsSeq
<1>3. CASE c = "locutions"
  <2> DEFINE U == UNION {L!TagsOf(m, p) : m \in Range(L!Items(u))}
             R == {[lemma |-> "<locution>", tag |-> t] : t \in U}
  <2>1. IsFiniteSet(U)
    <3> DEFINE S == Range(L!Items(u))
               f == [m \in S |-> L!TagsOf(m, p)]
    <3>1. IsFiniteSet(S) /\ \A m \in S : IsFiniteSet(m.tags)
      BY ItemsOfList
    <3>2. ASSUME NEW m \in S PROVE IsFiniteSet(f[m])
      <4>1. f[m] \subseteq m.tags
        BY DEF L!TagsOf
      <4> QED BY <3>1, <4>1, FS_Subset
    <3>3. f = [m \in S |-> f[m]] /\ U = UNION {f[m] : m \in S}
      OBVIOUS
    <3> HIDE DEF S, f, U
    <3>4. IsFiniteSet({f[m] : m \in S})
      BY <3>1, <3>3, FiniteImage
    <3> QED BY <3>2, <3>3, <3>4, FS_UNION
  <2>2. IsFiniteSet(R)
    <3> DEFINE f == [t \in U |-> [lemma |-> "<locution>", tag |-> t]]
    <3>1. f = [t \in U |-> f[t]] /\ R = {f[t] : t \in U}
      OBVIOUS
    <3> HIDE DEF f, R, U
    <3> QED BY <2>1, <3>1, FiniteImage
  <2>3. ASSUME NEW a \in R PROVE a.lemma = "<locution>" /\ a.tag \notin punct
    <3>1. PICK t \in U : a = [lemma |-> "<locution>", tag |-> t]
      OBVIOUS
    <3>2. PICK m \in Range(L!Items(u)) : t \in L!TagsOf(m, p)
      OBVIOUS
    <3>3. t \in m.tags
      BY <3>2 DEF L!TagsOf
    <3>4. m.tags \cap punct = {}
      BY <3>2, ItemsOfList
    <3> QED BY <3>1, <3>3, <3>4
  <2>4. AnalysesOf(c, p, s, u) = SetToSeq(R)
    BY <1>3, SetToSeqOfL DEF AnalysesOf, L!Analyses, L!Range, Range
  <2> HIDE DEF R
  <2>5. SetToSeq(R) \in Seq(R) /\ Range(SetToSeq(R)) = R
    BY <2>2, SetInOrder
  <2> QED BY <1>3, <2>3, <2>4, <2>5 DEF IsSeq
<1>4. CASE c = "np"
  <2> DEFINE a == [lemma |-> "<name>", tag |-> NE_tag]
             x == p[1].analyses
  <2>1. AnalysesOf(c, p, s, u) \in {Append(x, a), Append(<<>>, a)}
    BY <1>4 DEF AnalysesOf, N!Analyses
  <2>2. x \in Seq(Range(x))
    BY DEF IsSeq
  <2> HIDE DEF a, x
  <2>3. ASSUME NEW y \in {Append(x, a), Append(<<>>, a)} PROVE IsSeq(y)
    <3>1. Len(y) \in Nat /\ y = [n \in 1..Len(y) |-> y[n]]
      BY <2>2
    <3> QED BY <3>1, SeqOfFunction DEF IsSeq
  <2> QED BY <1>4, <2>1, <2>3
<1> QED BY <1>1, <1>2, <1>3, <1>4

\* What is built of words is again a word.
LEMMA NewWordIs ==
  ASSUME NEW c \in {"numbers", "dates", "locutions", "np"}, NEW n \in Nat \ {0},
         NEW p, p = [k \in 1..n |-> p[k]],
         \A k \in 1..n : IsSeq(p[k].form) /\ IsSeq(p[k].analyses),
         NEW s, NEW u, NEW w, w = NewWord(c, p, s, u)
  PROVE  /\ IsSeq(w.form) /\ IsSeq(w.analyses) /\ w.parts = p
         /\ IsName(w) <=> c = "np"
         /\ c = "np" => w.analyses = N!Analyses(p, u)
<1>1. /\ w.form = FlattenSeq([k \in DOMAIN p |-> p[k].form])
      /\ w.analyses = AnalysesOf(c, p, s, u) /\ w.parts = p
  BY DEF NewWord
<1>2. IsSeq(w.form)
  BY <1>1, FormIsSeq
<1>3. IsSeq(p[1].analyses)
  OBVIOUS
<1>4. IsSeq(w.analyses) /\ (c # "np" => \A a \in Range(w.analyses) : a.lemma # "<name>")
  <2>1. /\ IsSeq(AnalysesOf(c, p, s, u))
        /\ c # "np" => \A a \in Range(AnalysesOf(c, p, s, u)) : a.lemma # "<name>" /\ a.tag \notin punct
    BY <1>3, AnalysesBuilt
  <2> QED BY <1>1, <2>1
<1>5. c = "np" => w.analyses = N!Analyses(p, u)
  BY <1>1 DEF AnalysesOf
<1>6. c = "np" => IsName(w)
  <2> DEFINE a == [lemma |-> "<name>", tag |-> NE_tag]
             x == p[1].analyses
  <2> SUFFICES ASSUME c = "np" PROVE IsName(w)
    OBVIOUS
  <2>1. w.analyses \in {Append(x, a), Append(<<>>, a)}
    BY <1>5 DEF N!Analyses
  <2>2. x \in Seq(Range(x))
    BY <1>3 DEF IsSeq
  <2>3. a.lemma = "<name>"
    OBVIOUS
  <2> HIDE DEF a, x
  <2>4. PICK y \in DOMAIN w.analyses : w.analyses[y] = a
    <3>1. Len(x) + 1 \in DOMAIN Append(x, a) /\ Append(x, a)[Len(x) + 1] = a
      BY <2>2
    <3>2. 1 \in DOMAIN Append(<<>>, a) /\ Append(<<>>, a)[1] = a
      OBVIOUS
    <3> QED BY <2>1, <3>1, <3>2
  <2> QED BY <2>3, <2>4 DEF IsName, Range
<1> QED BY <1>1, <1>2, <1>4, <1>5, <1>6 DEF IsName

\* The words matched, as a sequence.
LEMMA WordsMatched ==
  ASSUME Sequence, Inside, at = "scan", eMatch # 0
  PROVE  /\ eMatch \in i..Size /\ eMatch - i + 1 \in Nat \ {0}
         /\ DOMAIN Words = 1..(eMatch - i + 1) /\ Len(Words) = eMatch - i + 1
         /\ Words = [k \in 1..(eMatch - i + 1) |-> Words[k]]
         /\ \A k \in 1..(eMatch - i + 1) : i + k - 1 \in i..eMatch /\ Words[k] = se[i + k - 1].word
<1>1. eMatch \in i..Size /\ eMatch - i + 1 \in Nat \ {0} /\ i \in Nat
  BY DEF Inside, Sequence
<1>2. Words = [k \in 1..(eMatch - i + 1) |-> se[i + k - 1].word]
  BY DEF Words
<1> HIDE DEF Words
<1>3. Words = [k \in 1..(eMatch - i + 1) |-> Words[k]]
  BY <1>2
<1>4. Len(Words) = eMatch - i + 1
  BY <1>1, <1>3, LenOf
<1> QED BY <1>1, <1>2, <1>3, <1>4

\* A match of np has the shape of a name.
LEMMA MatchShaped ==
  ASSUME Sequence, Inside, NameScan, at = "scan", eMatch # 0
  PROVE  NameShaped(Words)
<1>1. PICK b \in i..eMatch, c \in i..eMatch : NameTo(b, c, eMatch)
  BY DEF NameScan
<1>2. i \in Nat /\ eMatch \in Nat /\ i <= eMatch
  BY WordsMatched DEF Inside
<1> DEFINE x == b - i + 1
           y == c - i + 1
           p == Words
<1>3. DOMAIN p = 1..(eMatch - i + 1) /\ \A k \in DOMAIN p : i + k - 1 \in i..eMatch /\ p[k] = se[i + k - 1].word
  BY WordsMatched
<1>4. x \in DOMAIN p /\ y \in DOMAIN p /\ i + x - 1 = b /\ i + y - 1 = c /\ x <= y
  BY <1>1, <1>2, <1>3 DEF NameTo
<1>5. p[x] = se[b].word /\ p[y] = se[c].word
  BY <1>3, <1>4
<1>6. ASSUME NEW k \in DOMAIN p
      PROVE  /\ k < x => i + k - 1 < b
             /\ x < k => b < i + k - 1
             /\ k < y => i + k - 1 < c
             /\ y < k => c < i + k - 1
  BY <1>2, <1>3, <1>4
<1> HIDE DEF p, x, y
<1>7. ASSUME NEW k \in DOMAIN p
      PROVE  /\ k < x => p[k].form \in prefixes
             /\ x < k /\ k < y => NameWord(p[k]) \/ p[k].form \in func
             /\ y < k => p[k].form \in suffixes
  BY <1>1, <1>3, <1>6 DEF NameTo
<1>8. NameWord(p[x]) /\ NameWord(p[y])
  BY <1>1, <1>5 DEF NameTo
<1>9. NameShaped(p)
  BY <1>4, <1>7, <1>8 DEF NameShaped
<1> QED BY <1>9 DEF p

\* A noun that begins a sentence keeps its analyses in what np builds of it.
LEMMA MatchKeeps ==
  ASSUME Sequence, Inside, NameScan, at = "scan", eMatch # 0, IsSeq(se[i].word.analyses),
         Len(Words) = 1, N!SentenceBegin(i, se)
  PROVE  Range(Words[1].analyses) \subseteq Range(N!Analyses(Words, st))
<1>1. eMatch = i /\ Words[1] = se[i].word
  <2>1. eMatch \in Nat /\ i \in Nat /\ eMatch - i + 1 = 1
    BY WordsMatched DEF Inside
  <2>2. 1 \in 1..(eMatch - i + 1) /\ i + 1 - 1 = i
    BY <2>1
  <2>3. Words[1] = se[i + 1 - 1].word
    BY <2>2, WordsMatched
  <2> QED BY <2>1, <2>2, <2>3
<1> DEFINE x == se[i].word.analyses
           a == [lemma |-> "<name>", tag |-> NE_tag]
<1>2. CASE x = <<>>
  BY <1>1, <1>2 DEF Range
<1>3. CASE st.initialNoun = TRUE
  <2>1. N!Analyses(Words, st) = Append(x, a)
    BY <1>1, <1>3 DEF N!Analyses
  <2>2. x \in Seq(Range(x))
    BY DEF IsSeq
  <2> HIDE DEF x, a
  <2>3. DOMAIN x \subseteq DOMAIN Append(x, a) /\ \A k \in DOMAIN x : Append(x, a)[k] = x[k]
    BY <2>2
  <2>4. Range(x) \subseteq Range(Append(x, a))
    BY <2>3 DEF Range
  <2> QED BY <1>1, <2>1, <2>4 DEF x
<1>4. NounKnown
  BY DEF NameScan
<1> QED BY <1>1, <1>2, <1>3, <1>4 DEF NounKnown

\* Forms and analyses are sequences.
WordsMade == \A n \in 1..Size : IsSeq(se[n].word.form) /\ IsSeq(se[n].word.analyses)

NounKept(n) == Len(se[n].word.parts) = 1 /\ N!SentenceBegin(n, se)
                 => Range(se[n].word.parts[1].analyses) \subseteq Range(se[n].word.analyses)

\* Names are behind the search of np, as it made them.
NamesMade == \A n \in 1..Size :
               IsName(se[n].word) => Self = "np" /\ n < i /\ NameShaped(se[n].word.parts) /\ NounKept(n)

NamesInv == stage \in 1..4 /\ WordsMade /\ NamesMade /\ (at = "scan" /\ Self = "np" => NameScan)

\* The modules that may be at work.
LEMMA SelfIs ==
  ASSUME AsMaco, stage \in 1..4
  PROVE  /\ Len(Cascade) = 4 /\ Self \in {"numbers", "dates", "locutions", "np"}
         /\ Self = "np" <=> stage = 4
  BY DEF AsMaco, MacoOrder, Self

\* No word of the sentence received is a name.
LEMMA NamesInit ==
  ASSUME Init
  PROVE  NamesInv
<1>1. PICK V \in Vocabularies, n \in 1..MaxLength :
        /\ text \in [1..n -> V]
        /\ se = [k \in 1..n |-> [from |-> k, to |-> k, word |-> text[k]]]
  BY DEF Init
<1>2. n \in Nat /\ Size = n
  <2>1. n \in Nat
    OBVIOUS
  <2> QED BY <1>1, <2>1, LenOf DEF Size
<1>3. \A k \in 1..n : se[k].word \in V
  BY <1>1
<1>4. WordsMade /\ NamesMade
  BY <1>2, <1>3, WordsAssumption DEF WordsMade, NamesMade
<1> QED BY <1>4 DEF Init, NamesInv

\* The sentence after Build, word by word.
LEMMA Merged ==
  ASSUME AsMaco, IInv, stage \in 1..4, Build
  PROVE  /\ eMatch \in i..Size /\ i \in Nat \ {0} /\ Size \in Nat
         /\ Size' = Size - (eMatch - i) /\ i \in 1..Size'
         /\ \A k \in 1..Size' : k < i => k \in 1..Size /\ se'[k] = se[k]
         /\ se'[i].word = NewWord(Self, Words, fstate, st)
         /\ \A k \in 1..Size' : k > i => k + (eMatch - i) \in 1..Size /\ se'[k] = se[k + (eMatch - i)]
<1> DEFINE w == NewWord(Self, Words, fstate, st)
           d == eMatch - i
<1>1. at = "scan" /\ eMatch # 0 /\ text' = text /\ se' = Merge(w)
  BY DEF Build, Found, AsMaco
<1>2. Sequence /\ Inside
  BY DEF IInv
<1> HIDE DEF w
<1>3. Sequence' /\ i <= Size' /\ Size' \in Nat /\ i \in Nat \ {0}
  BY <1>1, MergeInv DEF Sequence
<1>4. eMatch \in i..Size /\ d \in Nat /\ Size \in Nat /\ Size - d \in Nat
  BY <1>1, <1>2 DEF Inside, Sequence
<1>5. Len(se') = Size - d
  <2>1. se' = [k \in 1..(Size - d) |-> se'[k]]
    BY <1>1 DEF Merge, Size
  <2>2. PICK f, n : f = se' /\ n = Size - d
    OBVIOUS
  <2>3. n \in Nat /\ f = [k \in 1..n |-> f[k]]
    BY <1>4, <2>1, <2>2
  <2>4. Len(f) = n
    BY <2>3, LenOf
  <2> QED BY <2>2, <2>4
<1>6. Size' = Size - d
  BY <1>5 DEF Size
<1>7. se' = [k \in 1..(Size - d) |->
               IF k < i THEN se[k]
               ELSE IF k = i THEN [from |-> se[i].from, to |-> se[eMatch].to, word |-> w]
               ELSE se[k + d]]
  BY <1>1 DEF Merge, Size
<1>8. \A k \in 1..Size' : (k < i => k \in 1..Size) /\ (k > i => k + d \in 1..Size)
  BY <1>3, <1>4, <1>6
<1>9. i \in 1..Size'
  BY <1>3
<1> HIDE DEF d
<1>10. /\ \A k \in 1..Size' : k < i => se'[k] = se[k]
       /\ se'[i].word = w
       /\ \A k \in 1..Size' : k > i => se'[k] = se[k + d]
  BY <1>3, <1>6, <1>7, <1>9
<1> QED BY <1>3, <1>4, <1>6, <1>8, <1>9, <1>10 DEF w, d

\* The word that Build makes.
LEMMA Built ==
  ASSUME AsMaco, IInv, NamesInv, Build, NEW w, w = NewWord(Self, Words, fstate, st)
  PROVE  /\ IsSeq(w.form) /\ IsSeq(w.analyses) /\ w.parts = Words
         /\ IsName(w) <=> Self = "np"
         /\ Self = "np" => w.analyses = N!Analyses(Words, st)
         /\ IsSeq(Words[1].analyses)
<1>1. at = "scan" /\ eMatch # 0 /\ Sequence /\ Inside /\ stage \in 1..4
  BY DEF Build, Found, IInv, NamesInv
<1>2. PICK c \in {"numbers", "dates", "locutions", "np"} : c = Self
  BY <1>1, SelfIs
<1>3. PICK n \in Nat \ {0} : n = eMatch - i + 1
  BY <1>1, WordsMatched
<1>4. PICK p, s, u : p = Words /\ s = fstate /\ u = st
  OBVIOUS
<1>5. /\ p = [k \in 1..n |-> p[k]] /\ eMatch \in i..Size
      /\ \A k \in 1..n : i + k - 1 \in i..eMatch /\ p[k] = se[i + k - 1].word
  BY <1>1, <1>3, <1>4, WordsMatched
<1>6. \A k \in 1..n : IsSeq(p[k].form) /\ IsSeq(p[k].analyses)
  <2>1. \A k \in i..eMatch : k \in 1..Size
    BY <1>1, <1>5 DEF Inside, Sequence
  <2> QED BY <1>5, <2>1 DEF NamesInv, WordsMade
<1>7. /\ p = [k \in 1..n |-> p[k]]
      /\ \A k \in 1..n : IsSeq(p[k].form) /\ IsSeq(p[k].analyses)
      /\ w = NewWord(c, p, s, u)
  BY <1>2, <1>4, <1>5, <1>6
<1>8. /\ IsSeq(w.form) /\ IsSeq(w.analyses) /\ w.parts = p
      /\ IsName(w) <=> c = "np"
      /\ c = "np" => w.analyses = N!Analyses(p, u)
  BY <1>7, NewWordIs
<1> QED BY <1>2, <1>4, <1>6, <1>8

\* Build puts in place of its parts a word that keeps what is said of names.
LEMMA NamesBuild ==
  ASSUME AsMaco, IInv, NamesInv, Build
  PROVE  WordsMade' /\ NamesMade'
<1> DEFINE w == NewWord(Self, Words, fstate, st)
           d == eMatch - i
<1>1. /\ at = "scan" /\ eMatch # 0 /\ text' = text /\ stage' = stage /\ i' = i + 1
      /\ se' = Merge(w)
  BY DEF Build, Found, AsMaco
<1>2. stage \in 1..4 /\ Self' = Self
  BY <1>1 DEF NamesInv, Self
<1>3. Sequence /\ Inside
  BY DEF IInv
<1>4. /\ eMatch \in i..Size /\ i \in Nat \ {0} /\ Size \in Nat /\ i \in 1..Size' /\ d \in Nat
      /\ Size' = Size - d
      /\ \A k \in 1..Size' : k < i => k \in 1..Size /\ se'[k] = se[k]
      /\ se'[i].word = w
      /\ \A k \in 1..Size' : k > i => k + d \in 1..Size /\ se'[k] = se[k + d]
  BY <1>2, Merged
<1> HIDE DEF d
<1>5. /\ IsSeq(w.form) /\ IsSeq(w.analyses) /\ w.parts = Words
      /\ IsName(w) <=> Self = "np"
      /\ Self = "np" => w.analyses = N!Analyses(Words, st)
  BY Built
<1> HIDE DEF w
<1>6. WordsMade'
  BY <1>4, <1>5 DEF NamesInv, WordsMade
<1>7. ASSUME NEW n \in 1..Size', IsName(se'[n].word)
       PROVE  /\ Self = "np" /\ n < i + 1 /\ NameShaped(se'[n].word.parts)
              /\ Len(se'[n].word.parts) = 1 /\ N!SentenceBegin(n, se')
                   => Range(se'[n].word.parts[1].analyses) \subseteq Range(se'[n].word.analyses)
  <2>0. n \in Nat \ {0}
    BY <1>4
  <2>1. CASE n < i
    <3>1. /\ n \in 1..Size /\ se'[n] = se[n]
      BY <1>4, <2>1
    <3>2. Self = "np" /\ NameShaped(se[n].word.parts) /\ NounKept(n)
      BY <1>7, <3>1 DEF NamesInv, NamesMade
    <3>3. N!SentenceBegin(n, se') => N!SentenceBegin(n, se)
      <4>1. n # 1 => n - 1 \in 1..Size' /\ n - 1 < i
        BY <1>4, <2>0, <2>1
      <4>2. n # 1 => se'[n - 1] = se[n - 1]
        BY <4>1, <1>4
      <4> QED BY <4>2 DEF N!SentenceBegin
    <3> QED BY <1>4, <2>0, <2>1, <3>1, <3>2, <3>3 DEF NounKept
  <2>2. CASE n = i
    <3>1. Self = "np" /\ w.parts = Words /\ w.analyses = N!Analyses(Words, st)
      BY <1>4, <1>5, <1>7, <2>2
    <3>2. NameScan
      BY <1>1, <3>1 DEF NamesInv
    <3>3. NameShaped(Words)
      BY <1>1, <1>3, <3>2, MatchShaped
    <3>4. N!SentenceBegin(i, se') => N!SentenceBegin(i, se)
      <4>1. i # 1 => i - 1 \in 1..Size' /\ i - 1 < i
        BY <1>4
      <4>2. i # 1 => se'[i - 1] = se[i - 1]
        BY <4>1, <1>4
      <4> QED BY <4>2 DEF N!SentenceBegin
    <3>5. IsSeq(se[i].word.analyses)
      <4>1. i \in 1..Size
        BY <1>4
      <4> QED BY <4>1 DEF NamesInv, WordsMade
    <3>6. Len(Words) = 1 /\ N!SentenceBegin(i, se)
            => Range(Words[1].analyses) \subseteq Range(N!Analyses(Words, st))
      BY <1>1, <1>3, <3>2, <3>5, MatchKeeps
    <3> QED BY <1>4, <2>2, <3>1, <3>3, <3>4, <3>6
  <2>3. CASE n > i
    <3>1. n + d \in 1..Size /\ se'[n] = se[n + d] /\ ~(n + d < i)
      BY <1>4, <2>3
    <3> QED BY <1>7, <3>1 DEF NamesInv, NamesMade
  <2> QED BY <1>4, <2>0, <2>1, <2>2, <2>3
<1> QED BY <1>1, <1>2, <1>6, <1>7 DEF NamesMade, NounKept

\* Only Build makes names, and only Scan moves the search.
LEMMA NamesNext ==
  ASSUME AsMaco, IInv, NamesInv, [Next]_vars
  PROVE  NamesInv'
<1>1. stage \in 1..4 /\ WordsMade /\ NamesMade /\ (at = "scan" /\ Self = "np" => NameScan)
  BY DEF NamesInv
<1>2. Sequence /\ Inside /\ i \in Nat \ {0} /\ Size \in Nat
  BY DEF IInv, Sequence, Inside
<1>3. ASSUME se' = se, stage' = stage, i' \in {i, i + 1}
      PROVE  stage' \in 1..4 /\ WordsMade' /\ NamesMade' /\ Self' = Self
  <2>1. Self' = Self /\ Size' = Size
    BY <1>3 DEF Self, Size
  <2>2. WordsMade'
    BY <1>1, <1>3, <2>1 DEF WordsMade
  <2>3. \A n \in 1..Size : n < i => n < i'
    BY <1>2, <1>3
  <2>4. \A n \in 1..Size : NounKept(n) => NounKept(n)'
    BY <1>3 DEF NounKept, N!SentenceBegin
  <2>5. NamesMade'
    BY <1>1, <1>3, <2>1, <2>3, <2>4 DEF NamesMade
  <2> QED BY <1>1, <1>3, <2>1, <2>2, <2>5
<1>4. CASE Skip
  BY <1>3, <1>4 DEF Skip, NamesInv
<1>5. CASE Start
  <2>1. /\ se' = se /\ stage' = stage /\ i' = i
        /\ j' = i /\ state' = initialState(Self) /\ eMatch' = 0
    BY <1>5 DEF Start
  <2>2. Self = "np" => NameScan'
    <3> SUFFICES ASSUME Self = "np" PROVE NameScan'
      OBVIOUS
    <3>1. state' = "ST_IN"
      BY <2>1, NpIs
    <3>2. eMatch' # i'
      BY <2>1, <1>2
    <3> QED BY <2>1, <3>1, <3>2 DEF NameScan, NounKnown
  <2> QED BY <1>3, <2>1, <2>2 DEF NamesInv
<1>6. CASE Scan
  <2>1. se' = se /\ stage' = stage /\ i' = i /\ at = "scan"
    BY <1>6 DEF Scan
  <2>2. Self = "np" => NameScan'
    BY <1>1, <1>2, <1>6, <2>1, NameScanStep
  <2> QED BY <1>3, <2>1, <2>2 DEF NamesInv
<1>7. CASE Build
  <2>1. stage' = stage /\ at' = "next"
    BY <1>7 DEF Build, EndSearch
  <2>2. WordsMade' /\ NamesMade'
    BY <1>7, NamesBuild
  <2> QED BY <1>1, <2>1, <2>2 DEF NamesInv
<1>8. CASE Reject
  BY <1>3, <1>8 DEF Reject, EndSearch, NamesInv
<1>9. CASE NoMatch
  BY <1>3, <1>9 DEF NoMatch, EndSearch, NamesInv
<1>10. CASE EndModule
  <2>1. CASE stage < Len(Cascade)
    <3>1. se' = se /\ stage' = stage + 1 /\ at' = "next"
      BY <1>10, <2>1 DEF EndModule
    <3>2. Self # "np" /\ stage' \in 1..4
      <4>1. Len(Cascade) = 4 /\ (Self = "np" => stage = 4)
        BY <1>1, SelfIs
      <4> QED BY <1>1, <2>1, <3>1, <4>1
    <3>3. \A n \in 1..Size : ~IsName(se[n].word)
      BY <1>1, <3>2 DEF NamesMade
    <3>4. WordsMade' /\ NamesMade'
      BY <1>1, <3>1, <3>3 DEF WordsMade, NamesMade, Size
    <3> QED BY <3>1, <3>2, <3>4 DEF NamesInv
  <2>2. CASE ~(stage < Len(Cascade))
    <3>1. se' = se /\ stage' = stage /\ i' = i /\ at' = "done"
      BY <1>10, <2>2 DEF EndModule
    <3> QED BY <1>3, <3>1 DEF NamesInv
  <2> QED BY <2>1, <2>2
<1>11. CASE UNCHANGED vars
  <2>1. se' = se /\ stage' = stage /\ i' = i /\ at' = at
    BY <1>11 DEF vars
  <2>2. NameScan => NameScan'
    BY <1>11 DEF vars, NameScan, NameTo, NameFrom, NounKnown, N!SentenceBegin
  <2> QED BY <1>1, <1>3, <2>1, <2>2 DEF NamesInv
<1> QED BY <1>4, <1>5, <1>6, <1>7, <1>8, <1>9, <1>10, <1>11 DEF Next

\* The shape of a name and the analyses of a noun, from the invariant.
LEMMA NamesRight ==
  ASSUME Sequence, NamesInv
  PROVE  NameShape /\ BeginningNounKept
<1>1. DOMAIN se = 1..Size
  BY DEF Sequence
<1>2. NamesMade
  BY DEF NamesInv
<1>3. NameShape
  BY <1>1, <1>2 DEF NamesMade, NameShape
<1>4. BeginningNounKept
  BY <1>1, <1>2 DEF NamesMade, BeginningNounKept, NounKept
<1> QED BY <1>3, <1>4

\* Whatever the words, the lists and the tags, np calls a name only a series of
\* name words, with its prefixes, suffixes and inner function words: what its
\* search read after the last final state is given back.
THEOREM NamesShaped ==
  ASSUME AsMaco
  PROVE  Spec => []NameShape
<1>1. Init => IInv /\ NamesInv
  BY InitInv, NamesInit
<1>2. IInv /\ NamesInv /\ [Next]_vars => (IInv /\ NamesInv)'
  BY NextInv, NamesNext
<1>3. IInv /\ NamesInv => NameShape
  BY NamesRight DEF IInv
<1> QED BY <1>1, <1>2, <1>3, PTL DEF Spec

\* np leaves the tagger every analysis of a noun that begins a sentence and is
\* a name on its own: initialNoun, set at each name word, is that of the first.
THEOREM NounsKept ==
  ASSUME AsMaco
  PROVE  Spec => []BeginningNounKept
<1>1. Init => IInv /\ NamesInv
  BY InitInv, NamesInit
<1>2. IInv /\ NamesInv /\ [Next]_vars => (IInv /\ NamesInv)'
  BY NextInv, NamesNext
<1>3. IInv /\ NamesInv => BeginningNounKept
  BY NamesRight DEF IInv
<1> QED BY <1>1, <1>2, <1>3, PTL DEF Spec

-----------------------------------------------------------------------------
(* The automaton of the list of multiwords.                                  *)

\* What the words before and one more spell.
Longer(S, q) == {s \o r : s \in S, r \in L!Readings(se[q].word)}

\* All that the words of the sentence may offer.
Parts == UNION {UNION {Range(r) : r \in L!Readings(se[q].word)} : q \in 1..Size}

\* A reading is a sequence: a form, or one lemma or tag.
LEMMA ReadingsAre ==
  ASSUME WordsMade, NEW q \in 1..Size, NEW r \in L!Readings(se[q].word)
  PROVE  r \in Seq(Parts)
<1>1. r \in Seq(Range(r))
  <2> DEFINE w == se[q].word
  <2>1. CASE r = w.form
    BY <2>1 DEF WordsMade, IsSeq
  <2>2. CASE r # w.form
    <3>1. PICK x : r = <<x>>
      BY <2>2 DEF L!Readings
    <3> QED BY <3>1 DEF Range
  <2> QED BY <2>1, <2>2
<1>2. Range(r) \subseteq Parts
  BY DEF Parts
<1> QED BY <1>1, <1>2

\* Joined, they are sequences again.
LEMMA LongerType ==
  ASSUME WordsMade, NEW q \in 1..Size, NEW S, S \subseteq Seq(Parts)
  PROVE  Longer(S, q) \subseteq Seq(Parts)
<1> SUFFICES ASSUME NEW x \in Longer(S, q) PROVE x \in Seq(Parts)
  OBVIOUS
<1>1. PICK s \in S, r \in L!Readings(se[q].word) : x = s \o r
  BY DEF Longer
<1>2. s \in Seq(Parts) /\ r \in Seq(Parts)
  BY ReadingsAre
<1>3. s \o r \in Seq(Parts)
  BY <1>2, ConcatProperties
<1> QED BY <1>1, <1>3

\* What the recursive function of Spellings is.
Spells(f, p) ==
  f = [q \in (p - 1)..Size |-> IF q = p - 1 THEN {<<>>} ELSE Longer(f[q - 1], q)]

\* There is such a function.
LEMMA SpellsExists ==
  ASSUME WordsMade, Size \in Nat, NEW p \in 1..Size
  PROVE  \E f : Spells(f, p)
<1> DEFINE V == SUBSET Seq(Parts)
           n == Size - p + 1
           step == [x \in V \X (1..n) |-> Longer(x[1], x[2] + p - 1)]
<1>1. n \in Nat /\ {<<>>} \in V
  OBVIOUS
<1>2. ASSUME NEW S \in V, NEW q \in 1..Size PROVE Longer(S, q) \in V
  BY LongerType
<1>3. ASSUME NEW x \in V \X (1..n) PROVE step[x] \in V
  <2>1. x[1] \in V /\ x[2] + p - 1 \in 1..Size
    OBVIOUS
  <2>2. step[x] = Longer(x[1], x[2] + p - 1)
    OBVIOUS
  <2> HIDE DEF step, V
  <2> QED BY <1>2, <2>1, <2>2
<1>4. step \in [V \X (1..n) -> V]
  <2>1. step = [x \in V \X (1..n) |-> step[x]]
    OBVIOUS
  <2> HIDE DEF step, V, n
  <2> QED BY <1>3, <2>1
<1>5. \A S \in V, m \in 1..n : step[<<S, m>>] = Longer(S, m + p - 1)
  <2> HIDE DEF V, n
  <2> QED OBVIOUS
<1> HIDE DEF V, step
<1>6. PICK g : Recurs(g, V, {<<>>}, n, step)
  <2>1. PICK b \in V : b = {<<>>}
    BY <1>1
  <2>2. PICK t \in [V \X (1..n) -> V] : t = step
    BY <1>4
  <2>3. PICK m \in Nat : m = n
    BY <1>1
  <2>4. \E g : Recurs(g, V, b, m, t)
    BY <2>2, <2>3, Recursion
  <2> QED BY <2>1, <2>2, <2>3, <2>4
<1> DEFINE f == [q \in (p - 1)..Size |-> g[q - (p - 1)]]
<1>7. \A q \in (p - 1)..Size : f[q] = g[q - (p - 1)]
  OBVIOUS
<1>8. f = [q \in (p - 1)..Size |-> f[q]]
  OBVIOUS
<1> HIDE DEF f
<1>9. ASSUME NEW q \in (p - 1)..Size
      PROVE  f[q] = IF q = p - 1 THEN {<<>>} ELSE Longer(f[q - 1], q)
  <2>1. CASE q = p - 1
    BY <1>6, <1>7, <2>1 DEF Recurs
  <2>2. CASE q # p - 1
    <3> DEFINE m == q - (p - 1)
    <3>1. /\ m \in 1..n /\ m - 1 \in 0..n /\ m + p - 1 = q /\ q - 1 \in (p - 1)..Size
          /\ (q - 1) - (p - 1) = m - 1
      BY <2>2
    <3> HIDE DEF m, n
    <3>2. g[m] = step[<<g[m - 1], m>>] /\ g[m - 1] \in V
      BY <1>6, <3>1 DEF Recurs
    <3>3. g[m] = Longer(g[m - 1], q)
      BY <1>5, <3>1, <3>2
    <3>4. f[q] = g[m] /\ f[q - 1] = g[m - 1]
      BY <1>7, <3>1 DEF m
    <3> QED BY <2>2, <3>3, <3>4
  <2> QED BY <2>1, <2>2
<1>10. Spells(f, p)
  BY <1>8, <1>9 DEF Spells
<1> QED BY <1>10

\* What a row of words spells, one word after the other.
LEMMA SpellingsAre ==
  ASSUME WordsMade, Size \in Nat, NEW p \in 1..Size
  PROVE  /\ Spellings(p)[p - 1] = {<<>>}
         /\ \A q \in p..Size : Spellings(p)[q] = Longer(Spellings(p)[q - 1], q)
         /\ \A q \in (p - 1)..Size : Spellings(p)[q] \subseteq Seq(Parts)
<1> DEFINE f == CHOOSE f : Spells(f, p)
<1>1. Spells(f, p)
  BY SpellsExists
<1>2. Spellings(p) = f
  BY DEF Spellings, Spells, Longer, Size
<1> HIDE DEF f
<1>3. f[p - 1] = {<<>>}
  BY <1>1 DEF Spells
<1>4. ASSUME NEW q \in p..Size PROVE f[q] = Longer(f[q - 1], q)
  <2>1. q \in (p - 1)..Size /\ q # p - 1
    OBVIOUS
  <2> QED BY <1>1, <2>1 DEF Spells
<1> DEFINE V == SUBSET Seq(Parts)
           n == Size - p + 1
           g == [m \in 0..n |-> f[m + (p - 1)]]
<1>5. \A m \in 0..n : g[m] \in V
  <2>1. n \in Nat
    OBVIOUS
  <2>2. g[0] \in V
    <3>1. g[0] = f[p - 1]
      <4>1. 0 \in 0..n /\ 0 + (p - 1) = p - 1
        OBVIOUS
      <4> HIDE DEF n
      <4> QED BY <4>1
    <3>2. {<<>>} \in V
      OBVIOUS
    <3> HIDE DEF V, g
    <3> QED BY <1>3, <3>1, <3>2
  <2>3. ASSUME NEW m \in 1..n, g[m - 1] \in V PROVE g[m] \in V
    <3> DEFINE q == m + (p - 1)
    <3>1. q \in p..Size /\ q \in 1..Size /\ g[m] = f[q] /\ g[m - 1] = f[q - 1]
      OBVIOUS
    <3> HIDE DEF q, g
    <3>2. f[q - 1] \subseteq Seq(Parts)
      BY <2>3, <3>1
    <3>3. f[q] \subseteq Seq(Parts)
      BY <1>4, <3>1, <3>2, LongerType
    <3> QED BY <3>1, <3>3
  <2> HIDE DEF g, V, n
  <2> QED BY <2>1, <2>2, <2>3, Stays
<1>6. ASSUME NEW q \in (p - 1)..Size PROVE f[q] \subseteq Seq(Parts)
  <2>1. q - (p - 1) \in 0..n /\ g[q - (p - 1)] = f[q]
    OBVIOUS
  <2> HIDE DEF g, n
  <2> QED BY <1>5, <2>1
<1> QED BY <1>2, <1>3, <1>4, <1>6

\* What check looks for: keys and what begins one.
Patterns == L!Keys \cup L!KeyPrefixes

\* A pattern begins a key.
LEMMA PatternsAre ==
  /\ \A x \in Patterns : \E k \in L!Keys, n \in Nat : n <= Len(k) /\ x = SubSeq(k, 1, n)
  /\ \A k \in L!Keys, n \in Nat : n <= Len(k) => SubSeq(k, 1, n) \in Patterns
  /\ \A k \in L!Keys : k \in Seq(Range(k))
<1>1. ASSUME NEW k \in L!Keys PROVE k \in Seq(Range(k))
  BY LocutAssumption DEF L!Keys, L!Range, Range, IsSeq
<1>2. ASSUME NEW k \in L!Keys
      PROVE  Len(k) \in Nat /\ k = SubSeq(k, 1, Len(k)) /\ L!Prefixes(k) = {SubSeq(k, 1, n) : n \in 0..Len(k)}
  <2>1. k \in Seq(Range(k))
    BY <1>1
  <2> QED BY <2>1 DEF L!Prefixes
<1>3. ASSUME NEW x \in Patterns PROVE \E k \in L!Keys, n \in Nat : n <= Len(k) /\ x = SubSeq(k, 1, n)
  <2>1. CASE x \in L!Keys
    BY <1>2, <2>1
  <2>2. CASE x \notin L!Keys
    <3>1. PICK k \in L!Keys : x \in L!Prefixes(k)
      BY <2>2 DEF Patterns, L!KeyPrefixes
    <3> QED BY <1>2, <3>1
  <2> QED BY <2>1, <2>2
<1>4. ASSUME NEW k \in L!Keys, NEW n \in Nat, n <= Len(k) PROVE SubSeq(k, 1, n) \in Patterns
  <2>0. n \in 0..Len(k)
    BY <1>2, <1>4
  <2>1. SubSeq(k, 1, n) \in L!Prefixes(k)
    BY <1>2, <2>0
  <2>2. PICK x : x = SubSeq(k, 1, n)
    OBVIOUS
  <2>3. CASE x = k
    BY <2>2, <2>3 DEF Patterns
  <2>4. CASE x # k
    <3>1. x \in L!Prefixes(k) \ {k}
      BY <2>1, <2>2, <2>4
    <3>2. x \in L!KeyPrefixes
      BY <3>1, Zenon DEF L!KeyPrefixes
    <3> QED BY <2>2, <3>2 DEF Patterns
  <2> QED BY <2>3, <2>4
<1> QED BY <1>1, <1>3, <1>4

\* What begins a pattern is one.
LEMMA PatternBegins ==
  ASSUME NEW T, NEW s \in Seq(T), NEW r \in Seq(T), s \o r \in Patterns
  PROVE  s \in Patterns
<1>1. PICK k \in L!Keys, n \in Nat : n <= Len(k) /\ s \o r = SubSeq(k, 1, n)
  BY PatternsAre
<1>2. k \in Seq(Range(k)) /\ Len(k) \in Nat
  <2>1. k \in Seq(Range(k))
    BY PatternsAre
  <2> QED BY <2>1
<1>3. Len(s) + Len(r) = n /\ Len(s) \in Nat /\ Len(r) \in Nat
  <2>1. Len(s \o r) = Len(s) + Len(r)
    BY ConcatProperties
  <2>2. Len(SubSeq(k, 1, n)) = n
    BY <1>1, <1>2
  <2> QED BY <1>1, <2>1, <2>2
<1>4. s = SubSeq(k, 1, Len(s))
  <2>1. ASSUME NEW m \in 1..Len(s) PROVE s[m] = k[m]
    <3>1. (s \o r)[m] = s[m]
      BY ConcatProperties
    <3>2. SubSeq(k, 1, n)[m] = k[m]
      BY <1>1, <1>2, <1>3
    <3> QED BY <1>1, <3>1, <3>2
  <2>2. SubSeq(k, 1, Len(s)) = [m \in 1..Len(s) |-> k[m]]
    BY <1>1, <1>2, <1>3
  <2>3. s = [m \in 1..Len(s) |-> s[m]]
    OBVIOUS
  <2> QED BY <2>1, <2>2, <2>3
<1>5. Len(s) <= Len(k)
  BY <1>1, <1>2, <1>3
<1>6. SubSeq(k, 1, Len(s)) \in Patterns
  BY <1>3, <1>5, PatternsAre
<1> QED BY <1>4, <1>6

\* What a search of the list keeps of the words it has read.
Accumulated ==
  /\ j = i => state = "ST_P" /\ st.acc = {}
  /\ j > i => st.acc = Spellings(i)[j - 1] \cap Patterns
  /\ state = "ST_STOP" <=> j > i /\ st.acc = {}

\* Does a key end with the q-th word?
KeyAt(q) == Spellings(i)[q] \cap L!Keys # {}

LongestScan ==
  /\ Accumulated
  /\ eMatch # 0 => KeyAt(eMatch)
  /\ \A q \in i..(j - 1) : KeyAt(q) => q <= eMatch

\* The tables of locutions, as the automaton sees them.
LEMMA LocIs ==
  ASSUME AsMaco
  PROVE  /\ initialState("locutions") = "ST_P" /\ stopState("locutions") = "ST_STOP"
         /\ Final("locutions") = {"ST_M"} /\ Fresh("locutions").acc = {}
         /\ \A s, t : trans("locutions", s, t) = L!LocTrans(s, t)
         /\ \A s, k, e, u : ComputeToken("locutions", s, k, e, u) = L!LocComputeToken(e[k].word, u)
         /\ \A o, s, t, k, e, u : StateActions("locutions", o, s, t, k, e, u) = L!Accumulate(e[k].word, u)
<1>1. Fresh("locutions") = [acc |-> {}, longest |-> {}]
  BY DEF AsMaco, FreshOf, L!LocFresh
<1> QED BY <1>1 DEF AsMaco, InitialStateOf, StopStateOf, FinalOf, TransOf, TokenOf, StatusAfter,
            L!LocInitialState, L!LocStopState, L!LocFinal

\* The patterns that the word after a list of patterns makes longer are all
\* those that the words spell: what was dropped begins none.
LEMMA NothingDropped ==
  ASSUME Sequence, Inside, WordsMade, Accumulated, j \in i..Size, state # "ST_STOP"
  PROVE  L!Spelt(se[j].word, st) \cap Patterns = Spellings(i)[j] \cap Patterns
<1> DEFINE F == Spellings(i)
           w == se[j].word
<1>1. /\ i \in 1..Size /\ j \in 1..Size /\ Size \in Nat /\ j - 1 \in (i - 1)..Size
  BY DEF Sequence, Inside
<1>2. /\ F[i - 1] = {<<>>} /\ F[j] = Longer(F[j - 1], j) /\ F[j - 1] \subseteq Seq(Parts)
  BY <1>1, SpellingsAre
<1> HIDE DEF F
<1>3. CASE j = i
  <2>1. L!Spelt(w, st) = L!Readings(w)
    BY <1>3 DEF Accumulated, L!Spelt
  <2>2. F[j] = Longer({<<>>}, j)
    BY <1>2, <1>3
  <2>3. ASSUME NEW r \in L!Readings(w) PROVE <<>> \o r = r
    <3>1. r \in Seq(Parts)
      BY <1>1, ReadingsAre
    <3> QED BY <3>1, ConcatEmptySeq
  <2>4. F[j] = L!Readings(w)
    <3>1. ASSUME NEW x \in F[j] PROVE x \in L!Readings(w)
      <4>1. PICK s \in {<<>>}, r \in L!Readings(w) : x = s \o r
        BY <2>2 DEF Longer
      <4> QED BY <2>3, <4>1
    <3>2. ASSUME NEW r \in L!Readings(w) PROVE r \in F[j]
      <4>1. <<>> \o r \in Longer({<<>>}, j)
        BY DEF Longer
      <4> QED BY <2>2, <2>3, <4>1
    <3> QED BY <3>1, <3>2
  <2> QED BY <2>1, <2>4 DEF F
<1>4. CASE j # i
  <2>1. j > i
    BY <1>1, <1>4
  <2>2. st.acc # {} /\ st.acc = F[j - 1] \cap Patterns
    BY <2>1 DEF Accumulated, F
  <2>3. \A x : x \in L!Spelt(w, st) <=> \E s \in st.acc, r \in L!Readings(w) : x = s \o r
    <3> DEFINE S == {s \o r : s \in st.acc, r \in L!Readings(w)}
    <3>1. L!Spelt(w, st) = IF st.acc = {} THEN L!Readings(w) ELSE S
      BY DEF L!Spelt
    <3>2. \A x : x \in S <=> \E s \in st.acc, r \in L!Readings(w) : x = s \o r
      OBVIOUS
    <3> HIDE DEF S
    <3>3. st.acc # {}
      BY <2>2
    <3>4. L!Spelt(w, st) = S
      BY <3>1, <3>3
    <3> QED BY <3>2, <3>4
  <2>4. F[j] = {s \o r : s \in F[j - 1], r \in L!Readings(w)}
    BY <1>2 DEF Longer
  <2>5. ASSUME NEW s \in F[j - 1], NEW r \in L!Readings(w), s \o r \in Patterns PROVE s \in st.acc
    <3>1. s \in Seq(Parts) /\ r \in Seq(Parts)
      BY <1>1, <1>2, ReadingsAre
    <3> QED BY <2>2, <2>5, <3>1, PatternBegins
  <2>6. L!Spelt(w, st) \cap Patterns = F[j] \cap Patterns
    <3>1. ASSUME NEW x \in F[j], x \in Patterns PROVE x \in L!Spelt(w, st)
      <4>1. PICK s \in F[j - 1], r \in L!Readings(w) : x = s \o r
        BY <2>4
      <4>2. s \in st.acc
        BY <2>5, <3>1, <4>1
      <4> QED BY <2>3, <4>1, <4>2
    <3>2. ASSUME NEW x \in L!Spelt(w, st) PROVE x \in F[j]
      <4>1. PICK s \in st.acc, r \in L!Readings(w) : x = s \o r
        BY <2>3, <3>2
      <4> QED BY <2>2, <2>4, <4>1
    <3> QED BY <3>1, <3>2
  <2> QED BY <2>6 DEF F
<1> QED BY <1>3, <1>4

\* A turn of the loop tells whether a key ends, and whether one goes on.
LEMMA LongestScanStep ==
  ASSUME AsMaco, Sequence, Inside, WordsMade, Self = "locutions", LongestScan, Scan
  PROVE  LongestScan'
<1> DEFINE w == se[j].word
           S == L!Spelt(w, st)
           t == L!LocComputeToken(w, st)
<1>1. /\ at = "scan" /\ state # "ST_STOP" /\ j \in i..Size /\ i \in Nat \ {0} /\ Size \in Nat
      /\ se' = se /\ i' = i /\ j' = j + 1 /\ state' = L!LocTrans(state, t)
      /\ st' = L!Accumulate(w, st)
      /\ IF state' = "ST_M" THEN eMatch' = j ELSE eMatch' = eMatch
  <2>1. /\ at = "scan" /\ state # "ST_STOP" /\ ~(j > Len(se))
        /\ state' = L!LocTrans(state, t) /\ st' = L!Accumulate(w, st)
        /\ se' = se /\ i' = i /\ j' = j + 1
    BY LocIs DEF Scan, Stopped
  <2>2. IF state' = "ST_M" THEN eMatch' = j ELSE eMatch' = eMatch
    BY LocIs DEF Scan, Remember
  <2> QED BY <2>1, <2>2 DEF Sequence, Inside, Size
<1>2. Accumulated /\ i \in 1..Size
  BY <1>1 DEF LongestScan
<1>3. S \cap Patterns = Spellings(i)[j] \cap Patterns
  BY <1>1, <1>2, NothingDropped
<1>4. st'.acc = S \cap Patterns
  <2>1. st'.acc = S \cap (L!Keys \cup L!KeyPrefixes)
    BY <1>1 DEF L!Accumulate
  <2> QED BY <2>1 DEF Patterns
<1>5. /\ state' \in {"ST_M", "ST_P", "ST_STOP"}
      /\ state' = "ST_M" <=> S \cap L!Keys # {}
      /\ state' = "ST_STOP" <=> S \cap L!Keys = {} /\ S \cap L!KeyPrefixes = {}
  <2>1. /\ t \in {"TK_mw", "TK_pref", "TK_other"}
        /\ t = "TK_mw" <=> S \cap L!Keys # {}
        /\ t = "TK_other" <=> S \cap L!Keys = {} /\ S \cap L!KeyPrefixes = {}
    <3>1. t = IF S \cap L!Keys # {} THEN "TK_mw"
              ELSE IF S \cap L!KeyPrefixes # {} THEN "TK_pref" ELSE "TK_other"
      BY DEF L!LocComputeToken
    <3> HIDE DEF S, t
    <3> QED BY <3>1
  <2>2. state' = IF t = "TK_mw" THEN "ST_M" ELSE IF t = "TK_pref" THEN "ST_P" ELSE "ST_STOP"
    <3> HIDE DEF t
    <3> QED BY <1>1 DEF L!LocTrans
  <2> HIDE DEF S, t, w
  <2> QED BY <2>1, <2>2
<1> HIDE DEF S, t, w
<1>6. state' = "ST_M" <=> KeyAt(j)
  <2>1. S \cap L!Keys = (S \cap Patterns) \cap L!Keys
    BY DEF Patterns
  <2>2. Spellings(i)[j] \cap L!Keys = (Spellings(i)[j] \cap Patterns) \cap L!Keys
    BY DEF Patterns
  <2> QED BY <1>3, <1>5, <2>1, <2>2 DEF KeyAt
<1>7. state' = "ST_STOP" <=> st'.acc = {}
  BY <1>4, <1>5 DEF Patterns
<1>8. Spellings(i)' = Spellings(i)
  BY <1>1 DEF Spellings
<1>9. Accumulated'
  <2>1. j' > i' /\ j' # i' /\ j' - 1 = j
    BY <1>1
  <2>2. st'.acc = Spellings(i)'[j'- 1] \cap Patterns
    BY <1>3, <1>4, <1>8, <2>1
  <2> QED BY <1>7, <2>1, <2>2 DEF Accumulated
<1>10. \A q : KeyAt(q)' <=> KeyAt(q)
  BY <1>1, <1>8 DEF KeyAt
<1>11. eMatch \in Nat /\ eMatch <= j /\ (eMatch # 0 => KeyAt(eMatch))
       /\ \A q \in i..(j - 1) : KeyAt(q) => q <= eMatch
  BY <1>1 DEF LongestScan, Inside
<1>12. (eMatch' # 0 => KeyAt(eMatch')) /\ \A q \in i..j : KeyAt(q) => q <= eMatch'
  <2>1. CASE KeyAt(j)
    BY <1>1, <1>6, <1>11, <2>1
  <2>2. CASE ~KeyAt(j)
    <3>1. eMatch' = eMatch
      BY <1>1, <1>6, <2>2
    <3>2. \A q \in i..j : q = j \/ q \in i..(j - 1)
      BY <1>1
    <3> QED BY <1>11, <2>2, <3>1, <3>2
  <2> QED BY <2>1, <2>2
<1>13. j' - 1 = j
  BY <1>1
<1> QED BY <1>1, <1>9, <1>10, <1>12, <1>13 DEF LongestScan

\* Where no pattern is spelled, none is by more words.
LEMMA NoneLater ==
  ASSUME WordsMade, Size \in Nat, NEW p \in 1..Size, NEW q \in p..Size,
         Spellings(p)[q] \cap Patterns = {}
  PROVE  \A r \in q..Size : Spellings(p)[r] \cap Patterns = {}
<1> DEFINE F == Spellings(p)
           n == Size - q
           f == [m \in 0..n |-> F[m + q] \cap Patterns]
<1>1. /\ \A r \in p..Size : F[r] = Longer(F[r - 1], r)
      /\ \A r \in (p - 1)..Size : F[r] \subseteq Seq(Parts)
  BY SpellingsAre
<1> HIDE DEF F
<1>2. n \in Nat /\ \A m \in 0..n : f[m] = F[m + q] \cap Patterns
  OBVIOUS
<1>3. f[0] \in {{}}
  <2>1. 0 \in 0..n /\ 0 + q = q
    OBVIOUS
  <2>2. F[q] \cap Patterns = {}
    BY DEF F
  <2> QED BY <1>2, <2>1, <2>2
<1>4. ASSUME NEW m \in 1..n, f[m - 1] \in {{}} PROVE f[m] \in {{}}
  <2> DEFINE r == m + q
  <2>1. /\ r \in p..Size /\ r \in 1..Size /\ r - 1 \in (p - 1)..Size
        /\ m \in 0..n /\ m - 1 \in 0..n /\ (m - 1) + q = r - 1
    OBVIOUS
  <2>2. f[m] = F[r] \cap Patterns /\ F[r - 1] \cap Patterns = {}
    BY <1>2, <1>4, <2>1
  <2> HIDE DEF r, f
  <2>3. ASSUME NEW x \in F[r], x \in Patterns PROVE FALSE
    <3>0. x \in Longer(F[r - 1], r)
      BY <1>1, <2>1, <2>3
    <3>1. PICK s \in F[r - 1], e \in L!Readings(se[r].word) : x = s \o e
      BY <3>0 DEF Longer
    <3>2. s \in Seq(Parts) /\ e \in Seq(Parts)
      BY <1>1, <2>1, ReadingsAre
    <3>3. s \in Patterns
      BY <2>3, <3>1, <3>2, PatternBegins
    <3> QED BY <2>2, <3>3
  <2> QED BY <2>2, <2>3
<1> HIDE DEF f, n
<1>5. \A m \in 0..n : f[m] \in {{}}
  <2>1. PICK V : V = {{}}
    OBVIOUS
  <2>2. f[0] \in V /\ \A m \in 1..n : f[m - 1] \in V => f[m] \in V
    BY <1>3, <1>4, <2>1
  <2>3. \A m \in 0..n : f[m] \in V
    BY <1>2, <2>2, Stays
  <2> QED BY <2>1, <2>3
<1>6. ASSUME NEW r \in q..Size PROVE F[r] \cap Patterns = {}
  <2>1. r - q \in 0..n /\ (r - q) + q = r
    BY DEF n
  <2> QED BY <1>2, <1>5, <2>1
<1> QED BY <1>6 DEF F

\* A search that is over has found the longest multiword.
LEMMA LongestFound ==
  ASSUME AsMaco, Sequence, Inside, WordsMade, Self = "locutions", LongestScan, at = "scan", Stopped
  PROVE  eMatch = IF Listed(i) = {} THEN 0 ELSE Max(Listed(i))
<1>1. /\ i \in 1..Size /\ Size \in Nat /\ j \in i..(Size + 1) /\ eMatch \in Nat
      /\ eMatch # 0 => eMatch \in i..(j - 1) /\ eMatch \in i..Size
  BY DEF Sequence, Inside
<1>2. Listed(i) = {q \in i..Size : KeyAt(q)}
  BY DEF Listed, KeyAt, Size
<1>3. ASSUME NEW q \in i..Size, KeyAt(q) PROVE q <= eMatch
  <2>1. CASE q <= j - 1
    BY <1>1, <1>3, <2>1 DEF LongestScan
  <2>2. CASE q > j - 1
    <3>1. state = "ST_STOP"
      BY <1>1, <2>2, LocIs DEF Stopped, Size
    <3>2. j > i /\ Spellings(i)[j - 1] \cap Patterns = {}
      BY <3>1 DEF LongestScan, Accumulated
    <3>3. j - 1 \in i..Size /\ q \in (j - 1)..Size
      BY <1>1, <2>2, <3>2
    <3>4. Spellings(i)[q] \cap Patterns = {}
      BY <1>1, <3>2, <3>3, NoneLater
    <3> QED BY <1>3, <3>4 DEF KeyAt, Patterns
  <2> QED BY <1>1, <2>1, <2>2
<1>4. CASE eMatch = 0
  <2>1. Listed(i) = {}
    BY <1>1, <1>2, <1>3, <1>4
  <2> QED BY <1>4, <2>1
<1>5. CASE eMatch # 0
  <2>1. eMatch \in Listed(i)
    BY <1>1, <1>2, <1>5 DEF LongestScan
  <2>2. \A q \in Listed(i) : eMatch >= q
    BY <1>1, <1>2, <1>3
  <2>3. \A x \in Listed(i) : (\A q \in Listed(i) : x >= q) => x = eMatch
    <3>1. Listed(i) \subseteq Nat
      BY <1>1, <1>2
    <3> QED BY <2>1, <2>2, <3>1
  <2>4. Max(Listed(i)) = eMatch
    BY <2>1, <2>2, <2>3 DEF Max
  <2> QED BY <2>1, <2>4
<1> QED BY <1>4, <1>5

LongestInv == at = "scan" /\ Self = "locutions" => LongestScan

\* Only Scan moves a search; Start begins one with nothing read.
LEMMA LongestNext ==
  ASSUME AsMaco, IInv, NamesInv, LongestInv, [Next]_vars
  PROVE  LongestInv'
<1>1. Sequence /\ Inside /\ WordsMade
  BY DEF IInv, NamesInv
<1>2. i \in Nat \ {0}
  BY <1>1 DEF Inside
<1>3. CASE Start
  <2>1. /\ i' = i /\ j' = i /\ state' = initialState(Self) /\ st' = Fresh(Self) /\ eMatch' = 0
        /\ Self' = Self
    BY <1>3 DEF Start, Self
  <2> SUFFICES ASSUME Self = "locutions" PROVE LongestScan'
    BY <2>1 DEF LongestInv
  <2>2. state' = "ST_P" /\ st'.acc = {}
    BY <2>1, LocIs
  <2>3. Accumulated'
    BY <1>2, <2>1, <2>2 DEF Accumulated
  <2>4. \A q \in i'..(j' - 1) : FALSE
    BY <1>2, <2>1
  <2> QED BY <2>1, <2>3, <2>4 DEF LongestScan
<1>4. CASE Scan
  <2>1. at = "scan" /\ at' = at /\ Self' = Self
    BY <1>4 DEF Scan, Self
  <2> SUFFICES ASSUME Self = "locutions" PROVE LongestScan'
    BY <2>1 DEF LongestInv
  <2> QED BY <1>1, <1>4, <2>1, LongestScanStep DEF LongestInv
<1>5. CASE Skip \/ Build \/ Reject \/ NoMatch \/ EndModule
  <2>1. at' # "scan"
    BY <1>5 DEF Skip, Build, Reject, NoMatch, EndModule, EndSearch
  <2> QED BY <2>1 DEF LongestInv
<1>6. CASE UNCHANGED vars
  <2>1. Spellings(i)' = Spellings(i) /\ \A q : Spellings(i)'[q] = Spellings(i)[q]
    BY <1>6 DEF vars, Spellings
  <2>2. Self' = Self /\ at' = at
    BY <1>6 DEF vars, Self
  <2>3. Accumulated => Accumulated'
    BY <1>6, <2>1 DEF vars, Accumulated
  <2>4. \A q : KeyAt(q)' <=> KeyAt(q)
    BY <2>1 DEF KeyAt
  <2>5. LongestScan => LongestScan'
    BY <1>6, <2>3, <2>4 DEF vars, LongestScan
  <2> QED BY <2>2, <2>5 DEF LongestInv
<1> QED BY <1>3, <1>4, <1>5, <1>6 DEF Next

\* Of any list of multiwords and any sentence, words that earlier automata have
\* merged included, a search of locutions ends with the longest multiword that
\* begins at its first word: the patterns it drops on the way begin none.
THEOREM LongestMultiword ==
  ASSUME AsMaco
  PROVE  Spec => []LongestListed
<1>1. Init => IInv /\ NamesInv /\ LongestInv
  <2>1. Init => LongestInv
    BY DEF Init, LongestInv
  <2> QED BY <2>1, InitInv, NamesInit
<1>2. IInv /\ NamesInv /\ LongestInv /\ [Next]_vars => (IInv /\ NamesInv /\ LongestInv)'
  BY NextInv, NamesNext, LongestNext
<1>3. IInv /\ NamesInv /\ LongestInv => LongestListed
  <2> SUFFICES ASSUME IInv, NamesInv, LongestInv, at = "scan", Self = "locutions", Stopped
               PROVE  eMatch = IF Listed(i) = {} THEN 0 ELSE Max(Listed(i))
    BY DEF LongestListed
  <2>1. Sequence /\ Inside /\ WordsMade /\ LongestScan
    BY DEF IInv, NamesInv, LongestInv
  <2> QED BY <2>1, LongestFound
<1> QED BY <1>1, <1>2, <1>3, PTL DEF Spec

-----------------------------------------------------------------------------
(* Names that follow each other.                                             *)

\* No tag of a built word is one of punctuation, unless a name has it of a noun.
LEMMA TagsBuilt ==
  ASSUME NEW c \in {"numbers", "dates", "locutions", "np"}, NEW p, NEW s, NEW u,
         IsSeq(p[1].analyses), NEW w, w = NewWord(c, p, s, u)
  PROVE  \A g \in N!Tags(w) : g \notin punct \/ (c = "np" /\ Len(p) = 1 /\ g \in N!Tags(p[1]))
<1>1. w.analyses = AnalysesOf(c, p, s, u)
  BY DEF NewWord
<1> SUFFICES ASSUME NEW a \in Range(w.analyses)
             PROVE  a.tag \notin punct \/ (c = "np" /\ Len(p) = 1 /\ a.tag \in N!Tags(p[1]))
  BY DEF N!Tags, N!Range, Range
<1>2. CASE c # "np"
  BY <1>1, <1>2, AnalysesBuilt
<1>3. CASE c = "np"
  <2> DEFINE n == [lemma |-> "<name>", tag |-> NE_tag]
             x == p[1].analyses
  <2>1. w.analyses = Append(<<>>, n) \/ (Len(p) = 1 /\ w.analyses = Append(x, n))
    BY <1>1, <1>3 DEF AnalysesOf, N!Analyses
  <2>2. x \in Seq(Range(x))
    BY DEF IsSeq
  <2>3. n.tag \notin punct
    BY PunctAssumption
  <2> HIDE DEF n, x
  <2>4. a = n \/ (Len(p) = 1 /\ a \in Range(x))
    BY <2>1, <2>2 DEF Range
  <2>5. a \in Range(x) => a.tag \in N!Tags(p[1])
    BY DEF x, N!Tags, N!Range, Range
  <2> QED BY <1>3, <2>3, <2>4, <2>5
<1> QED BY <1>2, <1>3

\* No search goes on, inside a name, over this word: it is none of its words.
Blocked(w) == /\ N!Ignore(w) # 1
              /\ N!Ignore(w) = 0 /\ ~w.locked
                   => ~(N!Capitalized(w) /\ N!Tags(w) \cap RE_DateNumPunct = {})

NoPunct(w) == N!Tags(w) \cap punct = {}

\* After a word that is no punctuation sign a name does not go on over what is
\* not read as one of its words, and a name begins there only with a prefix.
LEMMA TokenBlocked ==
  ASSUME NEW s, NEW k \in Nat, k > 1, NEW e, NEW t, t = N!NpComputeToken(s, k, e), NoPunct(e[k - 1].word)
  PROVE  /\ s = "ST_NP" /\ t # "TK_mUpper" => Blocked(e[k].word)
         /\ Blocked(e[k].word) => t \notin Upper
<1> DEFINE w == e[k].word
<1>1. ~N!SentenceBegin(k, e)
  BY DEF N!SentenceBegin, NoPunct
<1>2. CASE N!Ignore(w) = 1
  <2>1. t = N!IgnorableToken(s, k, e)
    BY <1>2 DEF N!NpComputeToken
  <2>2. s = "ST_NP" => t = "TK_mUpper"
    BY <2>1 DEF N!IgnorableToken
  <2> QED BY <1>2, <2>2 DEF Blocked
<1>3. CASE N!Ignore(w) = 0 /\ ~w.locked
  <2>1. t = N!InnerToken(w)
    BY <1>1, <1>3 DEF N!NpComputeToken
  <2>2. t \in Upper <=> N!Capitalized(w) /\ N!Tags(w) \cap RE_DateNumPunct = {}
    BY <2>1 DEF N!InnerToken, Upper
  <2>3. t \in Upper => t = "TK_mUpper"
    BY <2>1 DEF N!InnerToken, Upper
  <2> QED BY <1>3, <2>2, <2>3 DEF Blocked, Upper
<1>4. CASE N!Ignore(w) # 1 /\ ~(N!Ignore(w) = 0 /\ ~w.locked)
  <2>1. t = "TK_other"
    BY <1>1, <1>4 DEF N!NpComputeToken
  <2> QED BY <1>4, <2>1 DEF Blocked, Upper
<1> QED BY <1>2, <1>3, <1>4

\* Neither name words nor names have a tag of punctuation.
Unpunctuated == \A n \in 1..Size : NameWord(se[n].word) \/ IsName(se[n].word) => NoPunct(se[n].word)

\* A name is followed by another that a prefix begins, or by a word that it
\* could not have gone on over, unless a suffix ends it.
Closed(n) == IsName(se[n].word) =>
  \/ Last(se[n].word.parts).form \in suffixes
  \/ IsName(se[n + 1].word) /\ Head(se[n + 1].word.parts).form \in prefixes
  \/ ~IsName(se[n + 1].word) /\ Blocked(se[n + 1].word)

\* What has been matched is the most that could be, and nothing is matched from
\* a word that the name before was denied, but with a prefix.
FullScan ==
  /\ state = "ST_SUF" => se[j - 1].word.form \in suffixes
  /\ eMatch # 0 /\ eMatch = j - 1 => state \in {"ST_NP", "ST_SUF"}
  /\ eMatch # 0 /\ eMatch # j - 1
       => se[eMatch].word.form \in suffixes \/ Blocked(se[eMatch + 1].word)
  /\ i > 1 /\ IsName(se[i - 1].word) /\ Blocked(se[i].word) /\ se[i].word.form \notin prefixes
       => eMatch = 0 /\ state \in {"ST_IN", "ST_STOP"}

ApartInv == /\ Unpunctuated /\ \A n \in 1..(Size - 1) : Closed(n)
            /\ at = "scan" /\ Self = "np" => FullScan

\* A turn of the loop matches one word more, or leaves a match that is the most.
LEMMA FullScanStep ==
  ASSUME AsMaco, Sequence, Inside, Self = "np", NameScan, Unpunctuated, FullScan, Scan
  PROVE  FullScan'
<1> DEFINE t == N!NpComputeToken(state, j, se)
           r == N!NpTrans(state, t)
<1>1. /\ at = "scan" /\ state # "ST_STOP" /\ j <= Size
      /\ se' = se /\ i' = i /\ j' = j + 1 /\ state' = r
      /\ IF r \in {"ST_NP", "ST_SUF"} THEN eMatch' = j ELSE eMatch' = eMatch
  BY NpIs DEF Scan, Stopped, Remember, Size, Sequence, Inside
<1>2. i \in Nat \ {0} /\ j \in Nat /\ i <= j /\ Size \in Nat /\ eMatch \in Nat /\ (eMatch # 0 => eMatch < j)
  BY <1>1 DEF Inside, Sequence
<1>3. /\ t = "TK_mPref" => se[j].word.form \in prefixes
      /\ t = "TK_mSuf"  => se[j].word.form \in suffixes
  BY TokenMeans
<1>4. /\ r \in {"ST_PREF", "ST_NP", "ST_FUN", "ST_SUF", "ST_STOP"}
      /\ r = "ST_PREF" => state \in {"ST_IN", "ST_PREF"} /\ t = "TK_mPref"
      /\ r = "ST_NP"   => \/ state = "ST_IN" /\ t \in Upper
                          \/ state \in {"ST_PREF", "ST_NP", "ST_FUN"} /\ t = "TK_mUpper"
      /\ r = "ST_FUN"  => state \in {"ST_NP", "ST_FUN"} /\ t = "TK_mFun"
      /\ r = "ST_SUF"  => state \in {"ST_NP", "ST_SUF"} /\ t = "TK_mSuf"
  BY TransMeans
<1>5. state = "ST_NP" /\ r # "ST_NP" => t # "TK_mUpper"
  BY DEF N!NpTrans
<1>6. j > 1 /\ NoPunct(se[j - 1].word)
        => /\ state = "ST_NP" /\ t # "TK_mUpper" => Blocked(se[j].word)
           /\ Blocked(se[j].word) => t \notin Upper
  BY <1>2, TokenBlocked
<1>7. state = "ST_NP" => j > 1 /\ NoPunct(se[j - 1].word)
  <2> SUFFICES ASSUME state = "ST_NP" PROVE j > 1 /\ NoPunct(se[j - 1].word)
    OBVIOUS
  <2>1. PICK b \in i..(j - 1) : NameTo(b, j - 1, j - 1)
    BY DEF NameScan
  <2>2. NameWord(se[j - 1].word) /\ j > 1 /\ j - 1 \in 1..Size
    BY <2>1, <1>1, <1>2 DEF NameTo
  <2> QED BY <2>2 DEF Unpunctuated
<1> HIDE DEF t, r
<1>8. (j + 1) - 1 = j
  BY <1>2
<1>9. r = "ST_SUF" => se[j].word.form \in suffixes
  BY <1>3, <1>4
<1>10. eMatch' # 0 /\ eMatch' = j => r \in {"ST_NP", "ST_SUF"}
  BY <1>1, <1>2
<1>11. eMatch' # 0 /\ eMatch' # j => se[eMatch'].word.form \in suffixes \/ Blocked(se[eMatch' + 1].word)
  <2> SUFFICES ASSUME eMatch' # 0, eMatch' # j
               PROVE  se[eMatch'].word.form \in suffixes \/ Blocked(se[eMatch' + 1].word)
    OBVIOUS
  <2>1. eMatch' = eMatch /\ eMatch # 0 /\ r \notin {"ST_NP", "ST_SUF"}
    BY <1>1
  <2>2. CASE eMatch = j - 1
    <3>1. state \in {"ST_NP", "ST_SUF"} /\ eMatch + 1 = j
      BY <1>2, <2>1, <2>2 DEF FullScan
    <3>2. state = "ST_SUF" => se[eMatch].word.form \in suffixes
      BY <2>2 DEF FullScan
    <3>3. state = "ST_NP" => Blocked(se[j].word)
      BY <1>5, <1>6, <1>7, <2>1
    <3> QED BY <2>1, <3>1, <3>2, <3>3
  <2>3. CASE eMatch # j - 1
    BY <2>1, <2>3 DEF FullScan
  <2> QED BY <2>2, <2>3
<1>12. i > 1 /\ IsName(se[i - 1].word) /\ Blocked(se[i].word) /\ se[i].word.form \notin prefixes
         => eMatch' = 0 /\ r \in {"ST_IN", "ST_STOP"}
  <2> SUFFICES ASSUME i > 1, IsName(se[i - 1].word), Blocked(se[i].word), se[i].word.form \notin prefixes
               PROVE  eMatch' = 0 /\ r \in {"ST_IN", "ST_STOP"}
    OBVIOUS
  <2>1. eMatch = 0 /\ state = "ST_IN"
    BY <1>1 DEF FullScan
  <2>2. j = i
    BY <2>1 DEF NameScan
  <2>3. NoPunct(se[i - 1].word)
    <3>1. i - 1 \in 1..Size
      BY <1>1, <1>2, <2>2
    <3> QED BY <3>1 DEF Unpunctuated
  <2>4. t \notin Upper /\ t # "TK_mPref"
    BY <1>2, <1>3, <1>6, <2>2, <2>3
  <2>5. r = "ST_STOP"
    BY <1>4, <2>1, <2>4
  <2> QED BY <1>1, <2>1, <2>5
<1>13. FullScan' =
         /\ r = "ST_SUF" => se[j].word.form \in suffixes
         /\ eMatch' # 0 /\ eMatch' = j => r \in {"ST_NP", "ST_SUF"}
         /\ eMatch' # 0 /\ eMatch' # j
              => se[eMatch'].word.form \in suffixes \/ Blocked(se[eMatch' + 1].word)
         /\ i > 1 /\ IsName(se[i - 1].word) /\ Blocked(se[i].word) /\ se[i].word.form \notin prefixes
              => eMatch' = 0 /\ r \in {"ST_IN", "ST_STOP"}
  BY <1>1, <1>8 DEF FullScan
<1> QED BY <1>9, <1>10, <1>11, <1>12, <1>13

\* What is built has no tag of punctuation if it is, or could be in, a name.
LEMMA BuiltUnpunctuated ==
  ASSUME AsMaco, IInv, NamesInv, Unpunctuated, Build, NEW w, w = NewWord(Self, Words, fstate, st)
  PROVE  NoPunct(w)
<1>1. at = "scan" /\ eMatch # 0 /\ Sequence /\ Inside /\ stage \in 1..4
  BY DEF Build, Found, IInv, NamesInv
<1>2. PICK c \in {"numbers", "dates", "locutions", "np"} : c = Self
  BY <1>1, SelfIs
<1>3. PICK p, s, u : p = Words /\ s = fstate /\ u = st
  OBVIOUS
<1>4. IsSeq(p[1].analyses) /\ w = NewWord(c, p, s, u)
  BY <1>2, <1>3, Built
<1>5. \A g \in N!Tags(w) : g \notin punct \/ (c = "np" /\ Len(p) = 1 /\ g \in N!Tags(p[1]))
  BY <1>4, TagsBuilt
<1>6. c = "np" /\ Len(p) = 1 => NoPunct(p[1])
  <2> SUFFICES ASSUME c = "np", Len(p) = 1 PROVE NoPunct(p[1])
    OBVIOUS
  <2>1. eMatch = i /\ i \in 1..Size /\ p[1] = se[i].word
    <3>1. eMatch \in i..Size /\ i \in Nat \ {0} /\ eMatch - i + 1 = 1 /\ Size \in Nat
      BY <1>1, <1>3, WordsMatched DEF Inside, Sequence
    <3>2. 1 \in 1..(eMatch - i + 1) /\ i + 1 - 1 = i
      BY <3>1
    <3>3. Words[1] = se[i + 1 - 1].word
      BY <1>1, <3>2, WordsMatched
    <3> QED BY <1>3, <3>1, <3>2, <3>3
  <2>2. PICK x \in i..eMatch, y \in i..eMatch : NameTo(x, y, eMatch)
    BY <1>1, <1>2 DEF NamesInv, NameScan
  <2>3. NameWord(se[i].word)
    BY <2>1, <2>2 DEF NameTo
  <2> QED BY <2>1, <2>3 DEF Unpunctuated
<1> QED BY <1>5, <1>6 DEF NoPunct

\* The first and the last word of the match.
LEMMA MatchEnds ==
  ASSUME Sequence, Inside, at = "scan", eMatch # 0
  PROVE  Head(Words) = se[i].word /\ Last(Words) = se[eMatch].word
<1>1. PICK n \in Nat \ {0} : n = eMatch - i + 1
  BY WordsMatched
<1>2. PICK p : p = Words
  OBVIOUS
<1>3. /\ p = [k \in 1..n |-> p[k]] /\ Len(p) = n
      /\ \A k \in 1..n : p[k] = se[i + k - 1].word
  BY <1>1, <1>2, WordsMatched
<1>4. i \in Nat /\ eMatch \in Nat /\ i + 1 - 1 = i /\ i + n - 1 = eMatch
  BY <1>1 DEF Inside
<1>5. p[1] = se[i].word /\ p[n] = se[eMatch].word
  <2>1. p[1] = se[i + 1 - 1].word /\ p[n] = se[i + n - 1].word
    BY <1>3
  <2> QED BY <2>1, <1>4, Zenon
<1>6. Head(p) = p[1]
  <2>1. IsSeq(p)
    BY <1>3, SeqOfFunction DEF IsSeq
  <2> QED BY <2>1, <1>3 DEF IsSeq
<1> QED BY <1>2, <1>3, <1>5, <1>6 DEF Last

\* A name that Build makes is closed, and closes the name before.
LEMMA ApartBuild ==
  ASSUME AsMaco, IInv, NamesInv, ApartInv, Build
  PROVE  ApartInv'
<1> DEFINE w == NewWord(Self, Words, fstate, st)
           d == eMatch - i
<1>1. /\ at = "scan" /\ eMatch # 0 /\ Stopped /\ Sequence /\ Inside /\ stage \in 1..4 /\ at' = "next"
      /\ Unpunctuated /\ \A n \in 1..(Size - 1) : Closed(n)
  BY DEF Build, Found, EndSearch, IInv, NamesInv, ApartInv
<1>2. Self = "np" => FullScan /\ state \in {"ST_IN", "ST_PREF", "ST_NP", "ST_FUN", "ST_SUF", "ST_STOP"}
  BY <1>1 DEF ApartInv, NamesInv, NameScan
<1>3. /\ eMatch \in i..Size /\ i \in Nat \ {0} /\ Size \in Nat /\ i \in 1..Size' /\ d \in Nat
      /\ Size' = Size - d
      /\ \A k \in 1..Size' : k < i => k \in 1..Size /\ se'[k] = se[k]
      /\ se'[i].word = w
      /\ \A k \in 1..Size' : k > i => k + d \in 1..Size /\ se'[k] = se[k + d]
  BY <1>1, Merged
<1>4. w.parts = Words /\ (IsName(w) <=> Self = "np")
  BY Built
<1>5. NoPunct(w)
  BY <1>1, BuiltUnpunctuated
<1>6. Head(Words) = se[i].word /\ Last(Words) = se[eMatch].word
  BY <1>1, MatchEnds
<1>7. \A n \in 1..Size : IsName(se[n].word) => Self = "np" /\ n < i
  BY DEF NamesInv, NamesMade
<1>8. eMatch = i + d
  BY <1>3
<1> HIDE DEF w, d
<1>9. Unpunctuated'
  BY <1>1, <1>3, <1>5 DEF Unpunctuated
<1>10. ASSUME NEW n \in 1..(Size' - 1), IsName(se'[n].word)
       PROVE  \/ Last(se'[n].word.parts).form \in suffixes
              \/ IsName(se'[n + 1].word) /\ Head(se'[n + 1].word.parts).form \in prefixes
              \/ ~IsName(se'[n + 1].word) /\ Blocked(se'[n + 1].word)
  <2>0. n \in 1..Size' /\ n + 1 \in 1..Size' /\ n \in Nat
    BY <1>3
  <2>1. CASE n + 1 < i
    <3>1. se'[n] = se[n] /\ se'[n + 1] = se[n + 1] /\ n \in 1..(Size - 1)
      BY <1>3, <2>0, <2>1
    <3> QED BY <1>1, <1>10, <3>1 DEF Closed
  <2>2. CASE n + 1 = i
    <3>1. se'[n] = se[n] /\ se'[n + 1].word = w /\ n \in 1..(Size - 1) /\ n \in 1..Size /\ i \in 1..Size
      BY <1>3, <2>0, <2>2
    <3>2. Self = "np" /\ ~IsName(se[i].word)
      BY <1>3, <1>7, <1>10, <3>1
    <3>3. Last(se[n].word.parts).form \in suffixes \/ Blocked(se[i].word)
      BY <1>1, <1>10, <2>2, <3>1, <3>2 DEF Closed
    <3>4. Blocked(se[i].word) => se[i].word.form \in prefixes
      <4>1. i > 1 /\ i - 1 = n
        BY <2>0, <2>2
      <4> QED BY <1>1, <1>2, <1>10, <3>1, <3>2, <4>1 DEF FullScan
    <3> QED BY <1>4, <1>6, <3>1, <3>2, <3>3, <3>4
  <2>3. CASE n = i
    <3>1. se'[n].word = w /\ Self = "np" /\ eMatch + 1 \in 1..Size /\ se'[n + 1] = se[eMatch + 1]
      BY <1>3, <1>4, <1>8, <1>10, <2>0, <2>3
    <3>2. ~IsName(se[eMatch + 1].word)
      BY <1>3, <1>7, <3>1
    <3>3. eMatch # j - 1
      <4> SUFFICES ASSUME eMatch = j - 1 PROVE FALSE
        OBVIOUS
      <4>1. state # "ST_STOP"
        BY <1>1, <1>2, <3>1 DEF FullScan
      <4>2. j > Size
        BY <1>1, <4>1, <3>1, NpIs DEF Stopped, Size
      <4> QED BY <1>1, <1>3, <3>1, <4>2 DEF Inside
    <3>4. se[eMatch].word.form \in suffixes \/ Blocked(se[eMatch + 1].word)
      BY <1>1, <1>2, <3>1, <3>3 DEF FullScan
    <3> QED BY <1>4, <1>6, <3>1, <3>2, <3>4
  <2>4. CASE n > i
    <3>1. /\ se'[n] = se[n + d] /\ se'[n + 1] = se[n + d + 1]
          /\ n + d \in 1..(Size - 1)
      <4>1. n + 1 > i /\ n + 1 + d = n + d + 1
        BY <1>3, <2>0, <2>4
      <4> QED BY <1>3, <2>0, <2>4, <4>1
    <3> QED BY <1>1, <1>10, <3>1 DEF Closed
  <2> QED BY <1>3, <2>0, <2>1, <2>2, <2>3, <2>4
<1>11. \A n \in 1..(Size' - 1) : Closed(n)'
  BY <1>10 DEF Closed
<1> QED BY <1>1, <1>9, <1>11 DEF ApartInv


\* The words received are those of which PunctAssumption speaks.
LEMMA ApartInit == Init => ApartInv
<1> SUFFICES ASSUME Init PROVE ApartInv
  OBVIOUS
<1>1. PICK V \in Vocabularies, n \in 1..MaxLength :
        /\ text \in [1..n -> V]
        /\ se = [k \in 1..n |-> [from |-> k, to |-> k, word |-> text[k]]]
  BY DEF Init
<1>2. n \in Nat /\ Size = n
  <2>1. n \in Nat
    OBVIOUS
  <2> QED BY <1>1, <2>1, LenOf DEF Size
<1>3. \A k \in 1..n : se[k].word \in V
  BY <1>1
<1>4. Unpunctuated
  BY <1>2, <1>3, WordsAssumption, PunctAssumption DEF Unpunctuated, NoPunct
<1>5. \A k \in 1..(Size - 1) : Closed(k)
  BY <1>2, <1>3, WordsAssumption DEF Closed
<1> QED BY <1>4, <1>5 DEF Init, ApartInv

\* Only Build changes the sentence, and only Start and Scan the search.
LEMMA ApartNext ==
  ASSUME AsMaco, IInv, NamesInv, ApartInv, [Next]_vars
  PROVE  ApartInv'
<1>1. /\ Unpunctuated /\ \A n \in 1..(Size - 1) : Closed(n)
      /\ at = "scan" /\ Self = "np" => FullScan /\ NameScan
      /\ Sequence /\ Inside /\ i \in Nat \ {0} /\ stage \in 1..4
  BY DEF ApartInv, NamesInv, IInv, Inside
<1>2. ASSUME se' = se, at' = "scan" /\ Self' = "np" => FullScan' PROVE ApartInv'
  <2>1. Size' = Size /\ Unpunctuated' /\ \A n \in 1..(Size - 1) : Closed(n)'
    BY <1>1, <1>2 DEF Size, Unpunctuated, Closed
  <2> QED BY <1>2, <2>1 DEF ApartInv
<1>3. CASE Start
  <2>1. se' = se /\ Self' = Self /\ state' = initialState(Self) /\ eMatch' = 0
    BY <1>3 DEF Start, Self
  <2>2. Self = "np" => FullScan'
    <3> SUFFICES ASSUME Self = "np" PROVE FullScan'
      OBVIOUS
    <3>1. state' = "ST_IN"
      BY <2>1, NpIs
    <3> QED BY <2>1, <3>1 DEF FullScan
  <2> QED BY <1>2, <2>1, <2>2
<1>4. CASE Scan
  <2>1. se' = se /\ Self' = Self /\ at = "scan"
    BY <1>4 DEF Scan, Self
  <2>2. Self = "np" => FullScan'
    BY <1>1, <1>4, <2>1, FullScanStep
  <2> QED BY <1>2, <2>1, <2>2
<1>5. CASE Build
  BY <1>5, ApartBuild
<1>6. CASE Skip \/ EndModule
  <2>1. CASE at' # "scan"
    <3>1. se' = se
      BY <1>6 DEF Skip, EndModule
    <3> QED BY <1>2, <2>1, <3>1
  <2> QED BY <1>6, <2>1 DEF Skip, EndModule
<1>7. CASE Reject \/ NoMatch
  <2>1. se' = se /\ at' = "next"
    BY <1>7 DEF Reject, NoMatch, EndSearch
  <2> QED BY <1>2, <2>1
<1>8. CASE UNCHANGED vars
  <2>1. se' = se /\ at' = at /\ Self' = Self
    BY <1>8 DEF vars, Self
  <2>2. FullScan => FullScan'
    BY <1>8 DEF vars, FullScan
  <2> QED BY <1>1, <1>2, <2>1, <2>2
<1> QED BY <1>3, <1>4, <1>5, <1>6, <1>7, <1>8 DEF Next

\* np leaves no two names that should be one: two of them follow each other only
\* where a suffix ends the first or a prefix begins the second.
THEOREM NamesSeparate ==
  ASSUME AsMaco
  PROVE  Spec => []NamesApart
<1>1. Init => IInv /\ NamesInv /\ ApartInv
  BY InitInv, NamesInit, ApartInit
<1>2. IInv /\ NamesInv /\ ApartInv /\ [Next]_vars => (IInv /\ NamesInv /\ ApartInv)'
  BY NextInv, NamesNext, ApartNext
<1>3. ApartInv => NamesApart
  BY DEF ApartInv, Closed, NamesApart, Size
<1> QED BY <1>1, <1>2, <1>3, PTL DEF Spec

-----------------------------------------------------------------------------
(* The automaton of Spanish dates.                                           *)

\* States before the day of the week and the month are read, before the month is,
\* and those where neither is expected.
DateEarly == {"ST_A", "ST_BH1", "ST_BH2", "ST_CH1", "ST_DH1", "ST_EH1", "ST_EH1b", "ST_FH1", "ST_FH1b", "ST_GH1"}
DateMid   == {"ST_B", "ST_C", "ST_D", "ST_E", "ST_Eb", "ST_F", "ST_G", "ST_H"}
DateLate  == {"ST_I", "ST_Ib", "ST_J", "ST_K", "ST_L", "ST_P", "ST_S1", "ST_S2", "ST_Ha", "ST_Hb", "ST_Hc",
              "ST_Hd", "ST_He", "ST_AH", "ST_BH", "ST_CH", "ST_DH", "ST_EH", "ST_EHb", "ST_FH", "ST_GH"}

\* The tokens of a month that is named.
MonthToken == {"TK_month", "TK_shmonth"}

\* Where a token leads: a day of the week and a month are read once, and the states
\* that store a month follow none that has one.
DateEdge(s, t, r) ==
  /\ r \in DateEarly \cup DateMid \cup DateLate \cup {"ST_STOP"}
  /\ s \in DateMid => r \notin DateEarly
  /\ s \in DateLate => r \in DateLate \cup {"ST_STOP"}
  /\ t = "TK_weekday" => r \in {"ST_B", "ST_STOP"} /\ (s \notin DateEarly => r = "ST_STOP")
  /\ t \in MonthToken => r \in {"ST_I", "ST_Ib", "ST_STOP"} /\ (s \in DateLate => r = "ST_STOP")
  /\ r \in {"ST_I", "ST_Ib"} => s \notin DateLate
  /\ r = "ST_L" /\ t = "TK_date" => s \notin DateLate

\* A token that some record of the row expects leads where that record says.
LEMMA DateRow ==
  ASSUME NEW s, NEW t, NEW r, r = D!DateTrans(s, t)
  PROVE  r = "ST_STOP" \/ \E row \in D!Row(s) : t \in DOMAIN row /\ r = row[t]
<1>1. PICK rows : rows = {row \in D!Row(s) : t \in DOMAIN row}
  OBVIOUS
<1>2. rows = {} => r = "ST_STOP"
  BY <1>1 DEF D!DateTrans
<1>3. rows # {} => \E row \in D!Row(s) : t \in DOMAIN row /\ r = row[t]
  BY <1>1 DEF D!DateTrans
<1> QED BY <1>2, <1>3

\* The rows of the states before the day of the week.
LEMMA DateEarlyEdges ==
  ASSUME NEW s \in DateEarly, NEW t, NEW r, r = D!DateTrans(s, t)
  PROVE  DateEdge(s, t, r)
<1>1. r = "ST_STOP" \/ \E row \in D!Row(s) : t \in DOMAIN row /\ r = row[t]
  BY DateRow
<1> QED BY <1>1, SMTT(60) DEF D!Row, DateEdge, D!Hour, D!Month, D!Of, D!Minute, D!Daytime, DateMid, DateLate, DateEarly, MonthToken

\* Those of the states that may still read a month.
LEMMA DateMidEdges ==
  ASSUME NEW s \in DateMid, NEW t, NEW r, r = D!DateTrans(s, t)
  PROVE  DateEdge(s, t, r)
<1>1. r = "ST_STOP" \/ \E row \in D!Row(s) : t \in DOMAIN row /\ r = row[t]
  BY DateRow
<1> QED BY <1>1, SMTT(60) DEF D!Row, DateEdge, D!Hour, D!Month, D!Of, D!Minute, D!Daytime, DateMid, DateLate, DateEarly, MonthToken

\* Those of the states where neither is expected.
LEMMA DateLateEdges ==
  ASSUME NEW s \in DateLate, NEW t, NEW r, r = D!DateTrans(s, t)
  PROVE  DateEdge(s, t, r)
<1>1. r = "ST_STOP" \/ \E row \in D!Row(s) : t \in DOMAIN row /\ r = row[t]
  BY DateRow
<1> QED BY <1>1, SMTT(60) DEF D!Row, DateEdge, D!Hour, D!Month, D!Of, D!Minute, D!Daytime, DateMid, DateLate, DateEarly, MonthToken

\* The fields of the status of a search.
DateFields == {"century", "year", "month", "day", "weekday", "hour", "minute", "meridian", "temp"}

\* v has the day of the week and the month of u.
SameNames(u, v) == DOMAIN v = DateFields /\ v.weekday = u.weekday /\ v.month = u.month

\* A number taken for an hour names no day and no month.
LEMMA AsHourKeeps ==
  ASSUME NEW n, NEW u, DOMAIN u = DateFields
  PROVE  SameNames(u, D!AsHour(n, u))
  BY DEF D!AsHour, SameNames, DateFields

\* Nor does it when no minutes follow.
LEMMA OnTheHourKeeps ==
  ASSUME NEW s, NEW u, DOMAIN u = DateFields
  PROVE  SameNames(u, D!OnTheHour(s, u))
<1> DEFINE v == [u EXCEPT !.minute = <<0>>]
<1>1. SameNames(u, v)
  BY DEF SameNames, DateFields
<1>2. SameNames(u, u)
  BY DEF SameNames
<1> HIDE DEF v
<1>3. SameNames(v, D!AsHour(u.temp, v))
  BY <1>1, AsHourKeeps DEF SameNames
<1>4. D!OnTheHour(s, u) \in {D!AsHour(u.temp, v), u}
  BY DEF D!OnTheHour, v
<1> QED BY <1>1, <1>2, <1>3, <1>4 DEF SameNames

\* Nor do minutes.
LEMMA MinutesKeep ==
  ASSUME NEW s, NEW n, NEW u, DOMAIN u = DateFields
  PROVE  SameNames(u, D!Minutes(s, n, u))
<1>1. SameNames(u, D!HourBefore(u))
  BY DEF D!HourBefore, SameNames, DateFields
<1>2. PICK v : v = D!HourBefore(u)
  OBVIOUS
<1>3. ASSUME NEW x, NEW m, SameNames(u, x) PROVE SameNames(u, [x EXCEPT !.minute = <<m>>])
  BY <1>3 DEF SameNames, DateFields
<1>4. SameNames(u, u) /\ SameNames(u, v)
  BY <1>1, <1>2 DEF SameNames
<1> QED BY <1>2, <1>3, <1>4 DEF D!Minutes

\* Nor does any time.
LEMMA TimeKeeps ==
  ASSUME NEW s, NEW t, NEW w, NEW u, DOMAIN u = DateFields
  PROVE  SameNames(u, D!TimeOf(s, t, w, u))
<1> DEFINE says == D!Entry(w).says
           v == D!TimeOf(s, t, w, u)
<1>1. SameNames(u, u)
  BY DEF SameNames
<1>2. SameNames(u, D!Minutes(s, D!Number(w), u)) /\ SameNames(u, D!Minutes(s, says, u)) /\ SameNames(u, D!Minutes(s, 15, u))
  BY MinutesKeep
<1>3. SameNames(u, D!Quarter(s, says, u))
  <2>1. SameNames(u, [u EXCEPT !.minute = <<30>>])
    BY DEF SameNames, DateFields
  <2> QED BY <1>1, <1>2, <2>1 DEF D!Quarter
<1>4. SameNames(u, [u EXCEPT !.minute = <<0>>])
  BY DEF SameNames, DateFields
<1>5. SameNames(u, [u EXCEPT !.hour = <<says[1]>>, !.minute = <<says[2]>>])
  BY DEF SameNames, DateFields
<1> QED BY <1>1, <1>2, <1>3, <1>4, <1>5 DEF D!TimeOf

\* Nor a part of the day.
LEMMA PartOfDayKeeps ==
  ASSUME NEW t, NEW says, NEW u, DOMAIN u = DateFields
  PROVE  SameNames(u, D!PartOfDay(t, says, u))
<1>1. /\ SameNames(u, u)
      /\ SameNames(u, [u EXCEPT !.meridian = <<says>>])
      /\ SameNames(u, [u EXCEPT !.meridian = <<"am">>, !.hour = <<0>>, !.minute = <<0>>])
      /\ SameNames(u, [u EXCEPT !.meridian = <<"pm">>, !.hour = <<12>>, !.minute = <<0>>])
      /\ SameNames(u, [u EXCEPT !.meridian = <<"pm">>])
  BY DEF SameNames, DateFields
<1> QED BY <1>1 DEF D!PartOfDay

\* What the actions on a status do to the names of the day and the month.
LEMMA DateActions ==
  ASSUME NEW s, NEW t, NEW r, NEW w, NEW u, DOMAIN u = DateFields, DateEdge(s, t, r),
         NEW v, v = D!DateStateActions(s, r, t, w, u)
  PROVE  /\ DOMAIN v = DateFields
         /\ r = "ST_STOP" => v = u
         /\ v.weekday = IF r = "ST_B" /\ t = "TK_weekday" THEN <<D!Entry(w).says>> ELSE u.weekday
         /\ t \in MonthToken /\ r # "ST_STOP" => v.month = <<D!Entry(w).says>>
         /\ s \in DateLate => v.month = u.month
<1> DEFINE says == D!Entry(w).says
<1>0. SameNames(u, u) /\ \A x : SameNames(x, x) <=> DOMAIN x = DateFields
  BY DEF SameNames
<1>1. CASE r = "ST_STOP"
  BY <1>1 DEF D!DateStateActions, DateEdge
<1>2. CASE r = "ST_B"
  <2>1. ~(t \in MonthToken) /\ s \notin DateLate
    BY <1>2 DEF DateEdge, DateLate
  <2> DEFINE x == [u EXCEPT !.weekday = <<says>>]
  <2>2. DOMAIN x = DateFields /\ x.weekday = <<says>>
    BY DEF DateFields
  <2>3. v = IF t = "TK_weekday" THEN D!OnTheHour(s, x) ELSE u
    BY <1>2 DEF D!DateStateActions
  <2> HIDE DEF x
  <2>4. SameNames(x, D!OnTheHour(s, x))
    BY <2>2, OnTheHourKeeps
  <2> QED BY <1>2, <2>1, <2>2, <2>3, <2>4 DEF SameNames
<1>3. ASSUME r \notin {"ST_B", "ST_I", "ST_Ib", "ST_STOP"}, SameNames(u, v) \/ (DOMAIN v = DateFields /\ v.weekday = u.weekday /\ s \notin DateLate)
      PROVE  /\ DOMAIN v = DateFields /\ v.weekday = u.weekday /\ t \notin MonthToken
             /\ s \in DateLate => v.month = u.month
  BY <1>3 DEF DateEdge, SameNames
<1>4. CASE r \in {"ST_D", "ST_FH1"}
  <2>1. v = D!OnTheHour(s, u)
    BY <1>4 DEF D!DateStateActions
  <2> QED BY <1>3, <1>4, <2>1, OnTheHourKeeps
<1>5. CASE r \in {"ST_E", "ST_Eb"}
  <2> DEFINE x == [u EXCEPT !.day = <<D!Number(w)>>]
  <2>1. SameNames(u, x)
    BY DEF SameNames, DateFields
  <2>2. v = D!OnTheHour(s, x)
    BY <1>5 DEF D!DateStateActions
  <2> HIDE DEF x
  <2>3. SameNames(x, D!OnTheHour(s, x))
    BY <2>1, OnTheHourKeeps DEF SameNames
  <2>4. SameNames(u, v)
    BY <2>1, <2>2, <2>3 DEF SameNames
  <2> QED BY <1>3, <1>5, <2>4
<1>6. CASE r \in {"ST_I", "ST_Ib"}
  <2>1. s \notin DateLate /\ t # "TK_weekday"
    BY <1>6 DEF DateEdge
  <2> DEFINE x == [u EXCEPT !.day = <<u.temp>>]
  <2>2. SameNames(u, x)
    BY DEF SameNames, DateFields
  <2>3. v = D!MonthOf(t, w, u) \/ v = D!MonthOf(t, w, x)
    BY <1>6 DEF D!DateStateActions, D!DayAndMonth
  <2> HIDE DEF x
  <2>4. ASSUME NEW y, SameNames(u, y)
        PROVE  /\ DOMAIN D!MonthOf(t, w, y) = DateFields /\ D!MonthOf(t, w, y).weekday = u.weekday
               /\ t \in MonthToken => D!MonthOf(t, w, y).month = <<says>>
    BY <2>4 DEF D!MonthOf, SameNames, DateFields, MonthToken
  <2> QED BY <1>0, <1>6, <2>1, <2>2, <2>3, <2>4
<1>7. CASE r = "ST_L"
  <2>1. SameNames(u, [u EXCEPT !.year = <<D!Number(w)>>])
    BY DEF SameNames, DateFields
  <2>2. DOMAIN D!DateOf(says, u) = DateFields /\ D!DateOf(says, u).weekday = u.weekday
    BY DEF D!DateOf, DateFields
  <2>3. v = CASE t = "TK_number" -> [u EXCEPT !.year = <<D!Number(w)>>]
              [] t = "TK_date"   -> D!DateOf(says, u)
              [] OTHER           -> u
    BY <1>7 DEF D!DateStateActions
  <2>4. t = "TK_date" => s \notin DateLate
    BY <1>7 DEF DateEdge
  <2> QED BY <1>0, <1>3, <1>7, <2>1, <2>2, <2>3, <2>4
<1>8. CASE r \in {"ST_P", "ST_S2"}
  <2>1. /\ SameNames(u, D!BeforeChrist(u))
        /\ SameNames(u, [u EXCEPT !.century = <<says>>])
        /\ SameNames(u, [u EXCEPT !.century = <<"-">> \o @])
    BY DEF D!BeforeChrist, SameNames, DateFields
  <2>2. v \in {D!BeforeChrist(u), [u EXCEPT !.century = <<says>>], [u EXCEPT !.century = <<"-">> \o @], u}
    BY <1>8 DEF D!DateStateActions
  <2> QED BY <1>0, <1>3, <1>8, <2>1, <2>2
<1>9. CASE r \in {"ST_BH", "ST_BH1", "ST_BH2"}
  <2> DEFINE x == D!AsHour(u.temp, u)
  <2>1. SameNames(u, x)
    BY AsHourKeeps
  <2>2. v = D!TimeOf(s, t, w, u) \/ v = D!TimeOf(s, t, w, x)
    BY <1>9 DEF D!DateStateActions
  <2> HIDE DEF x
  <2>3. SameNames(u, D!TimeOf(s, t, w, u)) /\ SameNames(x, D!TimeOf(s, t, w, x))
    BY <2>1, TimeKeeps DEF SameNames
  <2>4. SameNames(u, v)
    BY <2>1, <2>2, <2>3 DEF SameNames
  <2> QED BY <1>3, <1>9, <2>4
<1>10. CASE r \in {"ST_CH", "ST_CH1"}
  <2> DEFINE x == [u EXCEPT !.minute = <<0>>]
  <2>1. SameNames(u, x) /\ SameNames(u, [u EXCEPT !.temp = D!Number(w)])
    BY DEF SameNames, DateFields
  <2>2. v = D!AsHour(D!Number(w), x) \/ v = [u EXCEPT !.temp = D!Number(w)] \/ v = u
    BY <1>10 DEF D!DateStateActions
  <2> HIDE DEF x
  <2>3. SameNames(x, D!AsHour(D!Number(w), x))
    BY <2>1, AsHourKeeps DEF SameNames
  <2>4. SameNames(u, v)
    BY <1>0, <2>1, <2>2, <2>3 DEF SameNames
  <2> QED BY <1>3, <1>10, <2>4
<1>11. CASE r \in {"ST_GH", "ST_GH1"}
  <2> DEFINE x == D!OnTheHour(s, u)
  <2>1. SameNames(u, x)
    BY OnTheHourKeeps
  <2>2. v = D!PartOfDay(t, says, x)
    BY <1>11 DEF D!DateStateActions
  <2> HIDE DEF x
  <2>3. SameNames(x, D!PartOfDay(t, says, x))
    BY <2>1, PartOfDayKeeps DEF SameNames
  <2>4. SameNames(u, v)
    BY <2>1, <2>2, <2>3 DEF SameNames
  <2> QED BY <1>3, <1>11, <2>4
<1>12. CASE r \in {"ST_G", "ST_K"}
  <2>1. SameNames(u, [u EXCEPT !.day = <<u.temp>>])
    BY DEF SameNames, DateFields
  <2>2. DOMAIN [u EXCEPT !.month = <<u.temp>>] = DateFields /\ [u EXCEPT !.month = <<u.temp>>].weekday = u.weekday
    BY DEF DateFields
  <2>3. \/ v = [u EXCEPT !.day = <<u.temp>>] \/ v = u
        \/ s = "ST_FH1b" /\ v = [u EXCEPT !.month = <<u.temp>>]
    BY <1>12 DEF D!DateStateActions
  <2> QED BY <1>0, <1>3, <1>12, <2>1, <2>2, <2>3 DEF DateLate
<1>13. CASE r \in (DateEarly \cup DateMid \cup DateLate)
              \ {"ST_B", "ST_D", "ST_FH1", "ST_E", "ST_Eb", "ST_I", "ST_Ib", "ST_L", "ST_P", "ST_S2", "ST_BH",
                 "ST_BH1", "ST_BH2", "ST_CH", "ST_CH1", "ST_GH", "ST_GH1", "ST_G", "ST_K"}
  <2>1. v = u
    BY <1>13 DEF D!DateStateActions
  <2> QED BY <1>0, <1>3, <1>13, <2>1 DEF DateEarly, DateMid, DateLate
<1> QED BY <1>1, <1>2, <1>3, <1>4, <1>5, <1>6, <1>7, <1>8, <1>9, <1>10, <1>11, <1>12, <1>13 DEF DateEdge

\* A day of the week and a month are not tried against what the state expects.
LEMMA DateToken ==
  ASSUME NEW s, NEW w, D!Entry(w).date \in {"TK_weekday"} \cup MonthToken
  PROVE  D!DateComputeToken(s, w) = D!Entry(w).date
  BY DEF D!DateComputeToken, D!Expressions, MonthToken

\* All rows.
LEMMA DateEdges ==
  ASSUME NEW s \in DateEarly \cup DateMid \cup DateLate, NEW t, NEW r, r = D!DateTrans(s, t)
  PROVE  DateEdge(s, t, r)
  BY DateEarlyEdges, DateMidEdges, DateLateEdges

\* The word names no day of the week and no month but those of the status.
DayNamed(w, u)   == D!Entry(w).date = "TK_weekday" => u.weekday = <<D!Entry(w).says>>
MonthNamed(w, u) == D!Entry(w).date \in MonthToken => u.month = <<D!Entry(w).says>>

\* What a search of dates has read, but for a word that stopped it: once a day of
\* the week is named no state stores another, nor a month once one is.
DateScan ==
  /\ state \in DateEarly \cup DateMid \cup DateLate \cup {"ST_STOP"}
  /\ DOMAIN st = DateFields
  /\ state = "ST_STOP" => eMatch < j - 1
  /\ \A k \in i..(j - 1) : state # "ST_STOP" \/ k < j - 1 =>
       LET w == se[k].word IN
       /\ DayNamed(w, st) /\ MonthNamed(w, st)
       /\ D!Entry(w).date = "TK_weekday" => state \notin DateEarly
       /\ D!Entry(w).date \in MonthToken => state \notin DateEarly \cup DateMid

\* The tables of dates, as the automaton sees them.
LEMMA DatesIs ==
  ASSUME AsMaco
  PROVE  /\ initialState("dates") = "ST_A" /\ stopState("dates") = "ST_STOP"
         /\ "ST_STOP" \notin Final("dates") /\ Fresh("dates") = D!DateFresh
         /\ \A s, t : trans("dates", s, t) = D!DateTrans(s, t)
         /\ \A s, k, e, u : ComputeToken("dates", s, k, e, u) = D!DateComputeToken(s, e[k].word)
         /\ \A o, s, t, k, e, u :
              StateActions("dates", o, s, t, k, e, u) = D!DateStateActions(o, s, t, e[k].word, u)
  BY DEF AsMaco, InitialStateOf, StopStateOf, FinalOf, FreshOf, TransOf, TokenOf, StatusAfter,
         D!DateInitialState, D!DateStopState, D!DateFinal

\* A turn of the loop reads one word more.
LEMMA DateScanStep ==
  ASSUME AsMaco, Sequence, Inside, Self = "dates", DateScan, Scan
  PROVE  DateScan'
<1> DEFINE w == se[j].word
           t == D!DateComputeToken(state, w)
           r == D!DateTrans(state, t)
           v == D!DateStateActions(state, r, t, w, st)
<1>1. /\ at = "scan" /\ state # "ST_STOP" /\ j <= Size
      /\ se' = se /\ i' = i /\ j' = j + 1 /\ state' = r /\ st' = v
  <2>1. at = "scan" /\ state # stopState("dates") /\ ~(j > Len(se))
    BY DEF Scan, Stopped
  <2>2. /\ se' = se /\ i' = i /\ j' = j + 1
        /\ state' = trans("dates", state, ComputeToken("dates", state, j, se, st))
        /\ st' = StateActions("dates", state, state', ComputeToken("dates", state, j, se, st), j, se, st)
    BY DEF Scan
  <2>3. ComputeToken("dates", state, j, se, st) = t
    BY DatesIs
  <2>4. state' = r /\ st' = v
    BY <2>2, <2>3, DatesIs
  <2> QED BY <2>1, <2>2, <2>4, DatesIs DEF Size, Sequence, Inside
<1>2. r = "ST_STOP" => eMatch' = eMatch
  BY <1>1, DatesIs DEF Scan, Remember
<1>3. i \in Nat \ {0} /\ j \in Nat /\ i <= j /\ eMatch \in Nat /\ eMatch < j
  BY <1>1 DEF Inside, Sequence
<1>4. DateEdge(state, t, r)
  BY <1>1, DateEdges DEF DateScan
<1>5. /\ DOMAIN v = DateFields
      /\ r = "ST_STOP" => v = st
      /\ v.weekday = IF r = "ST_B" /\ t = "TK_weekday" THEN <<D!Entry(w).says>> ELSE st.weekday
      /\ t \in MonthToken /\ r # "ST_STOP" => v.month = <<D!Entry(w).says>>
      /\ state \in DateLate => v.month = st.month
  BY <1>4, DateActions DEF DateScan
<1>6. D!Entry(w).date \in {"TK_weekday"} \cup MonthToken => t = D!Entry(w).date
  BY DateToken
<1> HIDE DEF w, t, r, v
<1>7. ASSUME NEW k \in i..j, r # "ST_STOP" \/ k < j, NEW x, x = se[k].word
      PROVE  /\ DayNamed(x, v) /\ MonthNamed(x, v)
             /\ D!Entry(x).date = "TK_weekday" => r \notin DateEarly
             /\ D!Entry(x).date \in MonthToken => r \notin DateEarly \cup DateMid
  <2>1. CASE k = j
    <3>1. x = w /\ r # "ST_STOP"
      BY <1>3, <1>7, <2>1 DEF w
    <3>2. D!Entry(x).date = "TK_weekday" => v.weekday = <<D!Entry(x).says>> /\ r = "ST_B"
      BY <1>4, <1>5, <1>6, <3>1 DEF DateEdge
    <3>3. D!Entry(x).date \in MonthToken => v.month = <<D!Entry(x).says>> /\ r \in {"ST_I", "ST_Ib"}
      BY <1>4, <1>5, <1>6, <3>1 DEF DateEdge
    <3> QED BY <3>2, <3>3 DEF DayNamed, MonthNamed, DateEarly, DateMid
  <2>2. CASE k # j
    <3>1. k \in i..(j - 1)
      BY <1>3, <2>2
    <3>2. /\ DayNamed(x, st) /\ MonthNamed(x, st)
          /\ D!Entry(x).date = "TK_weekday" => state \notin DateEarly
          /\ D!Entry(x).date \in MonthToken => state \notin DateEarly \cup DateMid
      BY <1>1, <1>7, <3>1 DEF DateScan
    <3>3. state \in DateEarly \cup DateMid \cup DateLate
      BY <1>1 DEF DateScan
    <3>4. D!Entry(x).date = "TK_weekday" => v.weekday = st.weekday /\ r \notin DateEarly
      <4>1. state \notin DateEarly => v.weekday = st.weekday
        BY <1>4, <1>5 DEF DateEdge
      <4>2. DateEarly \cap (DateLate \cup {"ST_STOP"}) = {}
        BY DEF DateEarly, DateLate
      <4>3. state \notin DateEarly => r \notin DateEarly
        BY <1>4, <3>3, <4>2 DEF DateEdge
      <4> QED BY <3>2, <4>1, <4>3
    <3>5. D!Entry(x).date \in MonthToken => v.month = st.month /\ r \notin DateEarly \cup DateMid
      <4>1. (DateEarly \cup DateMid) \cap (DateLate \cup {"ST_STOP"}) = {}
        BY DEF DateEarly, DateMid, DateLate
      <4> QED BY <1>4, <1>5, <3>2, <3>3, <4>1 DEF DateEdge
    <3> QED BY <3>2, <3>4, <3>5 DEF DayNamed, MonthNamed
  <2> QED BY <2>1, <2>2
<1>8. r \in DateEarly \cup DateMid \cup DateLate \cup {"ST_STOP"}
  BY <1>4 DEF DateEdge
<1>9. j' - 1 = j
  BY <1>1, <1>3
<1>10. r = "ST_STOP" => eMatch' < j
  BY <1>2, <1>3
<1> QED BY <1>1, <1>5, <1>7, <1>8, <1>9, <1>10 DEF DateScan

\* The lemma of a date says the day of the week and the month its words name.
DateRight(w) ==
  IsDate(w) /\ "month" \in DOMAIN w.value =>
    \A k \in DOMAIN w.parts : DayNamed(w.parts[k], w.value) /\ MonthNamed(w.parts[k], w.value)

\* The dates of the sentence, and the search at work.
DatesInv == /\ \A n \in 1..Size : DateRight(se[n].word)
            /\ at = "scan" /\ Self = "dates" => DateScan

\* Only dates make words whose value has a month.
LEMMA MonthOfDates ==
  ASSUME NEW c \in {"numbers", "dates", "locutions", "np"}, NEW p, NEW s, NEW u, NEW w, w = NewWord(c, p, s, u)
  PROVE  /\ c # "dates" => "month" \notin DOMAIN w.value
         /\ c = "dates" => w.value = D!DateValue(u)
<1>1. w.value = CASE c = "numbers" -> Q!NumValue(u) [] c = "dates" -> D!DateValue(u) [] OTHER -> NoValue
  BY DEF NewWord
<1>2. "month" \notin DOMAIN NoValue
  BY DEF NoValue
<1>3. "month" \notin DOMAIN Q!NumValue(u)
  BY DEF Q!NumValue
<1> QED BY <1>1, <1>2, <1>3

\* A match of dates has the names of its words.
LEMMA DateBuilt ==
  ASSUME AsMaco, IInv, NamesInv, DatesInv, Build, NEW w, w = NewWord(Self, Words, fstate, st)
  PROVE  DateRight(w)
<1>1. at = "scan" /\ eMatch # 0 /\ Sequence /\ Inside /\ stage \in 1..4
  BY DEF Build, Found, IInv, NamesInv
<1>2. PICK c \in {"numbers", "dates", "locutions", "np"} : c = Self
  BY <1>1, SelfIs
<1>3. w.parts = Words
  BY Built
<1>4. PICK p, s, u : p = Words /\ s = fstate /\ u = st
  OBVIOUS
<1>5. /\ c # "dates" => "month" \notin DOMAIN w.value
      /\ c = "dates" => w.value = D!DateValue(u)
  BY <1>2, <1>4, MonthOfDates
<1>6. CASE c = "dates" /\ "month" \in DOMAIN w.value
  <2>1. DateScan
    BY <1>1, <1>2, <1>6 DEF DatesInv
  <2>2. w.value.weekday = u.weekday /\ w.value.month = u.month
    <3>1. "month" \notin DOMAIN [century |-> u.century]
      OBVIOUS
    <3> QED BY <1>5, <1>6, <3>1 DEF D!DateValue
  <2>3. ASSUME NEW k \in DOMAIN w.parts
        PROVE  DayNamed(w.parts[k], u) /\ MonthNamed(w.parts[k], u)
    <3>1. /\ k \in 1..(eMatch - i + 1) /\ i + k - 1 \in i..eMatch
          /\ w.parts[k] = se[i + k - 1].word
      BY <1>1, <1>3, WordsMatched
    <3>2. PICK q : q = i + k - 1
      OBVIOUS
    <3>3. q \in i..(j - 1) /\ (state = "ST_STOP" => q < j - 1)
      BY <1>1, <2>1, <3>1, <3>2 DEF DateScan, Inside, Sequence
    <3> QED BY <1>4, <2>1, <3>1, <3>2, <3>3 DEF DateScan
  <2> QED BY <2>2, <2>3 DEF DateRight, DayNamed, MonthNamed
<1> QED BY <1>5, <1>6 DEF DateRight

\* No word of the sentence received is a date.
LEMMA DatesInit ==
  ASSUME Init
  PROVE  DatesInv
<1>1. PICK V \in Vocabularies, n \in 1..MaxLength :
        /\ text \in [1..n -> V]
        /\ se = [k \in 1..n |-> [from |-> k, to |-> k, word |-> text[k]]]
  BY DEF Init
<1>2. n \in Nat /\ Size = n
  <2>1. n \in Nat
    OBVIOUS
  <2> QED BY <1>1, <2>1, LenOf DEF Size
<1>3. \A k \in 1..n : ~IsDate(se[k].word)
  BY <1>1, WordsAssumption
<1> QED BY <1>2, <1>3 DEF DatesInv, DateRight, Init

\* Only Build makes dates, and only Scan moves the search.
LEMMA DatesNext ==
  ASSUME AsMaco, IInv, NamesInv, DatesInv, [Next]_vars
  PROVE  DatesInv'
<1>1. Sequence /\ Inside /\ i \in Nat \ {0} /\ stage \in 1..4
  BY DEF IInv, Inside, NamesInv
<1>2. ASSUME se' = se PROVE \A n \in 1..Size' : DateRight(se'[n].word)
  BY <1>2 DEF DatesInv, Size
<1>3. CASE Start
  <2>1. /\ se' = se /\ i' = i /\ j' = i /\ state' = initialState(Self) /\ st' = Fresh(Self)
        /\ Self' = Self
    BY <1>3 DEF Start, Self
  <2>2. ASSUME Self = "dates" PROVE DateScan'
    <3>1. state' = "ST_A" /\ st' = D!DateFresh
      BY <2>1, <2>2, DatesIs
    <3>2. \A k \in i'..(j' - 1) : FALSE
      BY <1>1, <2>1
    <3>3. DOMAIN D!DateFresh = DateFields
      BY DEF D!DateFresh, DateFields
    <3> QED BY <3>1, <3>2, <3>3 DEF DateScan, DateEarly
  <2> QED BY <1>2, <2>1, <2>2 DEF DatesInv
<1>4. CASE Scan
  <2>1. at = "scan" /\ Self' = Self /\ se' = se
    BY <1>4 DEF Scan, Self
  <2>2. Self = "dates" => DateScan'
    BY <1>1, <1>4, <2>1, DateScanStep DEF DatesInv
  <2> QED BY <1>2, <2>1, <2>2 DEF DatesInv
<1>5. CASE Build
  <2> DEFINE w == NewWord(Self, Words, fstate, st)
  <2>1. DateRight(w)
    BY <1>5, DateBuilt
  <2>2. /\ i \in 1..Size'
        /\ \A k \in 1..Size' : k < i => k \in 1..Size /\ se'[k] = se[k]
        /\ se'[i].word = w
        /\ \A k \in 1..Size' : k > i => k + (eMatch - i) \in 1..Size /\ se'[k] = se[k + (eMatch - i)]
    BY <1>1, <1>5, Merged
  <2> HIDE DEF w
  <2>3. ASSUME NEW n \in 1..Size' PROVE DateRight(se'[n].word)
    <3>1. n < i \/ n = i \/ n > i
      BY <1>1, <2>2 DEF Sequence
    <3> QED BY <2>1, <2>2, <3>1 DEF DatesInv
  <2>4. at' = "next"
    BY <1>5 DEF Build, EndSearch
  <2> QED BY <2>3, <2>4 DEF DatesInv
<1>6. CASE Skip \/ Reject \/ NoMatch \/ EndModule
  <2>1. at' # "scan" /\ se' = se
    BY <1>6 DEF Skip, Reject, NoMatch, EndModule, EndSearch
  <2> QED BY <1>2, <2>1 DEF DatesInv
<1>7. CASE UNCHANGED vars
  <2>1. DateScan => DateScan'
    BY <1>7 DEF vars, DateScan
  <2>2. at' = at /\ Self' = Self /\ se' = se
    BY <1>7 DEF vars, Self
  <2> QED BY <1>2, <2>1, <2>2 DEF DatesInv
<1> QED BY <1>3, <1>4, <1>5, <1>6, <1>7 DEF Next

\* Of any sentence, whatever numbers were merged before and however far the
\* search read past its last final state, the day of the week and the month that
\* the words of a date name are those its lemma says: no search stores two.
THEOREM DateNamesRight ==
  ASSUME AsMaco
  PROVE  Spec => []NamesInDate
<1>1. Init => IInv /\ NamesInv /\ DatesInv
  BY InitInv, NamesInit, DatesInit
<1>2. IInv /\ NamesInv /\ DatesInv /\ [Next]_vars => (IInv /\ NamesInv /\ DatesInv)'
  BY NextInv, NamesNext, DatesNext
<1>3. IInv /\ NamesInv /\ DatesInv => NamesInDate
  <2>1. IInv => DOMAIN se = 1..Size
    BY DEF IInv, Sequence
  <2> QED BY <2>1 DEF DatesInv, DateRight, DayNamed, MonthNamed, MonthToken, NamesInDate
<1> QED BY <1>1, <1>2, <1>3, PTL DEF Spec

-----------------------------------------------------------------------------
(* Numbers: what is summed up is what the words say.                         *)

\* Amounts are counted in quarters.
Quarters == \A f : Spanish(f).value \in Int

LEMMA AloneInt ==
  ASSUME Quarters, NEW p, NEW n
  PROVE  Worth(p, n) \in Int /\ Alone(p, n) \in Int
  BY DEF Quarters, Alone, Worth, Q!Entry

\* What the recursive function of Together is.
Sums(g, p, first, n) ==
  /\ g \in [0..n -> Int]
  /\ \A k \in 0..n : g[k] = IF k < first THEN 0 ELSE g[k - 1] + Alone(p, k)

\* There is such a function.
LEMMA SumsExist ==
  ASSUME Quarters, NEW p, NEW first \in Nat \ {0}, NEW n \in Nat
  PROVE  \E g : Sums(g, p, first, n)
<1> DEFINE step == [x \in Int \X (1..n) |-> IF x[2] < first THEN 0 ELSE x[1] + Alone(p, x[2])]
<1>1. step \in [Int \X (1..n) -> Int]
  BY AloneInt
<1>2. \A a \in Int, m \in 1..n : step[<<a, m>>] = IF m < first THEN 0 ELSE a + Alone(p, m)
  OBVIOUS
<1> HIDE DEF step
<1>3. PICK g : Recurs(g, Int, 0, n, step)
  <2>1. PICK V : V = Int
    OBVIOUS
  <2>2. PICK t \in [V \X (1..n) -> V] : t = step
    BY <1>1, <2>1
  <2>3. PICK b \in V : b = 0
    BY <2>1
  <2>4. \E g : Recurs(g, V, b, n, t)
    BY Recursion
  <2> QED BY <2>1, <2>2, <2>3, <2>4
<1>4. ASSUME NEW k \in 0..n PROVE g[k] = IF k < first THEN 0 ELSE g[k - 1] + Alone(p, k)
  <2>1. CASE k = 0
    BY <1>3, <2>1 DEF Recurs
  <2>2. CASE k # 0
    <3>1. k \in 1..n /\ k - 1 \in 0..n
      BY <2>2
    <3>2. g[k] = step[<<g[k - 1], k>>] /\ g[k - 1] \in Int
      BY <1>3, <3>1 DEF Recurs
    <3> QED BY <1>2, <3>1, <3>2
  <2> QED BY <2>1, <2>2
<1> QED BY <1>3, <1>4 DEF Recurs, Sums

\* It is the only one.
LEMMA TogetherIs ==
  ASSUME NEW p, NEW first \in Nat \ {0}, NEW n \in Nat, NEW g, Sums(g, p, first, n)
  PROVE  Together(p, first, n) = g[n]
<1> DEFINE IsSum(f) == f = [k \in 0..n |-> IF k < first THEN 0 ELSE f[k - 1] + Alone(p, k)]
           f == CHOOSE f : IsSum(f)
<1>1. IsSum(g)
  <2>1. g = [k \in 0..n |-> g[k]]
    BY DEF Sums
  <2> QED BY <2>1 DEF Sums
<1>2. IsSum(f)
  <2> HIDE DEF IsSum
  <2> QED BY <1>1
<1>3. Together(p, first, n) = f[n]
  BY DEF Together
<1>4. ASSUME NEW k \in 0..n PROVE f[k] = IF k < first THEN 0 ELSE f[k - 1] + Alone(p, k)
  <2> HIDE DEF f
  <2> QED BY <1>2
<1> HIDE DEF f, IsSum
<1> DEFINE S == {m \in Nat : m <= n => f[m] = g[m]}
<1>5. 0 \in S
  BY <1>4 DEF Sums
<1>6. ASSUME NEW m \in Nat, m \in S PROVE m + 1 \in S
  <2> SUFFICES ASSUME m + 1 <= n PROVE f[m + 1] = g[m + 1]
    OBVIOUS
  <2>1. m + 1 \in 0..n /\ (m + 1) - 1 = m /\ f[m] = g[m]
    BY <1>6
  <2>2. f[m + 1] = IF m + 1 < first THEN 0 ELSE f[m] + Alone(p, m + 1)
    BY <1>4, <2>1
  <2>3. g[m + 1] = IF m + 1 < first THEN 0 ELSE g[m] + Alone(p, m + 1)
    BY <2>1 DEF Sums
  <2> QED BY <2>1, <2>2, <2>3
<1> HIDE DEF S
<1>7. n \in S
  BY <1>5, <1>6, Induct
<1> QED BY <1>3, <1>7 DEF S

\* One word more.
LEMMA TogetherGrows ==
  ASSUME Quarters, NEW p, NEW first \in Nat \ {0}, NEW last \in Nat
  PROVE  /\ Together(p, first, last) \in Int
         /\ last < first => Together(p, first, last) = 0
         /\ last >= first => Together(p, first, last) = Together(p, first, last - 1) + Alone(p, last)
<1>1. PICK g : Sums(g, p, first, last)
  BY SumsExist
<1>2. Together(p, first, last) = g[last]
  BY <1>1, TogetherIs
<1>3. g[last] \in Int /\ g[last] = IF last < first THEN 0 ELSE g[last - 1] + Alone(p, last)
  BY <1>1 DEF Sums
<1>4. CASE last >= first
  <2> DEFINE h == [k \in 0..(last - 1) |-> g[k]]
  <2>1. last - 1 \in Nat
    BY <1>4
  <2>2. h \in [0..(last - 1) -> Int] /\ \A k \in 0..(last - 1) : h[k] = g[k]
    BY <1>1, <2>1 DEF Sums
  <2> HIDE DEF h
  <2>3. ASSUME NEW k \in 0..(last - 1) PROVE h[k] = IF k < first THEN 0 ELSE h[k - 1] + Alone(p, k)
    <3>1. k \in 0..last /\ (~(k < first) => k - 1 \in 0..(last - 1))
      BY <2>1
    <3>2. g[k] = IF k < first THEN 0 ELSE g[k - 1] + Alone(p, k)
      BY <1>1, <3>1 DEF Sums
    <3> QED BY <2>2, <3>1, <3>2
  <2>4. Sums(h, p, first, last - 1)
    BY <2>2, <2>3 DEF Sums
  <2>5. PICK m \in Nat : m = last - 1
    BY <2>1
  <2>6. Together(p, first, m) = h[m]
    BY <2>4, <2>5, TogetherIs
  <2>7. h[m] = g[last - 1]
    BY <2>2, <2>5
  <2> QED BY <1>2, <1>3, <1>4, <2>5, <2>6, <2>7
<1> QED BY <1>2, <1>3, <1>4

\* Only the words from first to last count.
LEMMA TogetherSame ==
  ASSUME Quarters, NEW p, NEW r, NEW first \in Nat \ {0}, NEW last \in Nat,
         \A k \in first..last : Alone(p, k) = Alone(r, k)
  PROVE  Together(p, first, last) = Together(r, first, last)
<1>1. PICK g : Sums(g, p, first, last)
  BY SumsExist
<1>2. ASSUME NEW k \in 0..last PROVE g[k] = IF k < first THEN 0 ELSE g[k - 1] + Alone(r, k)
  <2>1. g[k] = IF k < first THEN 0 ELSE g[k - 1] + Alone(p, k)
    BY <1>1 DEF Sums
  <2>2. ~(k < first) => k \in first..last
    OBVIOUS
  <2> QED BY <2>1, <2>2
<1>3. Sums(g, r, first, last)
  BY <1>1, <1>2 DEF Sums
<1> QED BY <1>1, <1>3, TogetherIs

-----------------------------------------------------------------------------
\* The least number of a set.
LEMMA LeastIs ==
  ASSUME NEW T \in SUBSET Nat, T # {}
  PROVE  Min(T) \in T /\ \A n \in T : Min(T) <= n
<1>1. \E m \in T : \A n \in T : m <= n
  BY Least
<1> QED BY <1>1 DEF Min

\* A word that is no power adds what it says, or nothing.
LEMMA AmountPlain ==
  ASSUME Quarters, NEW p, NEW first \in Nat \ {0}, NEW last \in Nat, first <= last,
         Said(p, last) \notin DOMAIN Q!power
  PROVE  /\ Powers(p, first, last) = Powers(p, first, last - 1)
         /\ Amount(p, first, last) = Amount(p, first, last - 1) + Alone(p, last)
<1>1. PICK m \in Nat : m = last - 1
  OBVIOUS
<1>2. Powers(p, first, last) = Powers(p, first, m)
  BY <1>1 DEF Powers
<1>3. Together(p, first, last) = Together(p, first, m) + Alone(p, last)
  BY <1>1, TogetherGrows
<1>4. CASE Powers(p, first, last) = {}
  BY <1>1, <1>2, <1>3, <1>4 DEF Amount
<1>5. CASE Powers(p, first, last) # {}
  <2> DEFINE n == Min(Powers(p, first, last))
  <2>1. n \in Powers(p, first, m)
    BY <1>2, <1>5, LeastIs DEF Powers
  <2>2. n \in first..m
    BY <2>1 DEF Powers
  <2>3. n + 1 \in Nat \ {0} /\ n - 1 \in Nat /\ n + 1 <= last
    BY <1>1, <2>2
  <2> HIDE DEF n
  <2>4. PICK x \in Nat \ {0} : x = n + 1
    BY <2>3
  <2>5. Together(p, x, last) = Together(p, x, m) + Alone(p, last) /\ Together(p, x, m) \in Int
    BY <1>1, <2>3, <2>4, TogetherGrows
  <2>6. PICK t : t = IF n = first /\ Said(p, n) = "TK_mil" THEN 4 ELSE Together(p, first, n - 1)
    OBVIOUS
  <2>7. PICK y \in Nat : y = n - 1
    BY <2>3
  <2>8. t \in Int
    BY <2>6, <2>7, TogetherGrows
  <2>9. Q!power[Said(p, n)] \in Int
    BY <2>1 DEF Powers, Q!power
  <2>10. Amount(p, first, last) = t * Q!power[Said(p, n)] + Together(p, x, last)
    BY <1>5, <2>4, <2>6 DEF Amount, n
  <2>11. Amount(p, first, m) = t * Q!power[Said(p, n)] + Together(p, x, m)
    BY <1>2, <1>5, <2>4, <2>6 DEF Amount, n
  <2>12. PICK P \in Int : P = t * Q!power[Said(p, n)]
    BY <2>8, <2>9
  <2> QED BY <1>1, <1>2, <2>5, <2>10, <2>11, <2>12, AloneInt
<1> QED BY <1>4, <1>5

\* The first power.
LEMMA AmountPower ==
  ASSUME Quarters, NEW p, NEW first \in Nat \ {0}, NEW last \in Nat, first <= last,
         Said(p, last) \in DOMAIN Q!power, Powers(p, first, last - 1) = {}
  PROVE  Amount(p, first, last) =
           (IF last = first /\ Said(p, last) = "TK_mil" THEN 4 ELSE Amount(p, first, last - 1))
             * Q!power[Said(p, last)]
<1>1. Powers(p, first, last) = {last}
  BY DEF Powers
<1>2. Min({last}) = last
  BY LeastIs
<1>3. Together(p, last + 1, last) = 0
  <2>1. PICK x \in Nat \ {0} : x = last + 1
    OBVIOUS
  <2> QED BY <2>1, TogetherGrows
<1>4. Amount(p, first, last - 1) = Together(p, first, last - 1)
  BY DEF Amount
<1>5. PICK t : t = IF last = first /\ Said(p, last) = "TK_mil" THEN 4 ELSE Amount(p, first, last - 1)
  OBVIOUS
<1>6. t * Q!power[Said(p, last)] \in Int
  <2>1. PICK y \in Nat : y = last - 1
    OBVIOUS
  <2>2. t \in Int
    BY <1>4, <1>5, <2>1, TogetherGrows
  <2> QED BY <2>2 DEF Q!power
<1>7. Amount(p, first, last) = t * Q!power[Said(p, last)] + 0
  BY <1>1, <1>2, <1>3, <1>4, <1>5 DEF Amount
<1> QED BY <1>5, <1>6, <1>7

\* Amounts are numbers, none of no words.
LEMMA AmountInt ==
  ASSUME Quarters, NEW p, NEW first \in Nat \ {0}, NEW last \in Nat
  PROVE  Amount(p, first, last) \in Int /\ (last < first => Amount(p, first, last) = 0)
<1>1. Together(p, first, last) \in Int /\ (last < first => Together(p, first, last) = 0)
  BY TogetherGrows
<1>2. CASE Powers(p, first, last) = {}
  BY <1>1, <1>2 DEF Amount
<1>3. CASE Powers(p, first, last) # {}
  <2> DEFINE n == Min(Powers(p, first, last))
  <2>1. n \in Powers(p, first, last)
    BY <1>3, LeastIs DEF Powers
  <2>2. n \in first..last
    BY <2>1 DEF Powers
  <2> HIDE DEF n
  <2>3. PICK x \in Nat \ {0}, y \in Nat : x = n + 1 /\ y = n - 1
    BY <2>2
  <2>4. Together(p, x, last) \in Int /\ Together(p, first, y) \in Int
    BY TogetherGrows
  <2>5. Q!power[Said(p, n)] \in Int
    BY <2>1 DEF Powers, Q!power
  <2>6. PICK t \in Int : t = IF n = first /\ Said(p, n) = "TK_mil" THEN 4 ELSE Together(p, first, n - 1)
    BY <2>3, <2>4
  <2>7. Amount(p, first, last) = t * Q!power[Said(p, n)] + Together(p, x, last)
    BY <1>3, <2>3, <2>6 DEF Amount, n
  <2>8. t * Q!power[Said(p, n)] \in Int
    BY <2>5
  <2> QED BY <2>2, <2>4, <2>7, <2>8
<1> QED BY <1>2, <1>3

\* They depend on nothing else.
LEMMA AmountSame ==
  ASSUME Quarters, NEW p, NEW r, NEW first \in Nat \ {0}, NEW last \in Nat,
         \A k \in first..last : p[k] = r[k]
  PROVE  Amount(p, first, last) = Amount(r, first, last)
<1>1. ASSUME NEW x \in Nat \ {0}, NEW y \in Nat, first <= x, y <= last
      PROVE  Together(p, x, y) = Together(r, x, y)
  <2>1. \A k \in x..y : p[k] = r[k]
    BY <1>1
  <2>2. \A k \in x..y : Alone(p, k) = Alone(r, k)
    BY <2>1 DEF Alone, Said, Worth
  <2> QED BY <2>2, TogetherSame
<1>2. Powers(p, first, last) = Powers(r, first, last)
  BY DEF Powers, Said
<1>3. CASE Powers(p, first, last) = {}
  BY <1>1, <1>2, <1>3 DEF Amount
<1>4. CASE Powers(p, first, last) # {}
  <2> DEFINE n == Min(Powers(p, first, last))
  <2>1. n \in Powers(p, first, last)
    BY <1>4, LeastIs DEF Powers
  <2>2. n \in first..last /\ p[n] = r[n]
    BY <2>1 DEF Powers
  <2> HIDE DEF n
  <2>3. n = Min(Powers(p, first, last)) /\ n = Min(Powers(r, first, last))
    BY <1>2 DEF n
  <2>4. PICK x \in Nat \ {0}, y \in Nat : x = n + 1 /\ y = n - 1
    BY <2>2
  <2>5. Together(p, x, last) = Together(r, x, last) /\ Together(p, first, y) = Together(r, first, y)
    BY <1>1, <2>2, <2>4
  <2>6. Said(p, n) = Said(r, n)
    BY <2>2 DEF Said
  <2> QED BY <1>2, <1>4, <2>3, <2>4, <2>5, <2>6 DEF Amount
<1> QED BY <1>3, <1>4

-----------------------------------------------------------------------------
\* The last words "billones" and "millones" of the first q words, at b and m: b is
\* 0, or m is b, when there is none.
Cut(p, q, b, m) ==
  /\ b \in 0..q /\ m \in b..q
  /\ \A k \in 1..q : /\ Said(p, k) = "TK_bill" <=> k = b
                     /\ Said(p, k) = "TK_mill" <=> k = m /\ m > b

NumFields == {"bilion", "milion", "units", "block", "iscode"}
Steps     == {"1", "1a", "1b", "2", "3", "4", "u", "5", "6", "7", "8", "k"}
NumStates == (Q!Blocks \X Steps) \cup ({"X"} \X {"1", "2", "3", "4", "5"}) \cup ({"COD", "STOP"} \X {"-"})

Is(s, a, k) == s[1] = a /\ s[2] = k

\* What the registers u of a search in state s are, after the first q words of p:
\* amounts of the words up to each cut, and what was said after a power.
Registers(p, q, b, m, s, u) ==
  /\ DOMAIN u = NumFields
  /\ u.bilion = Amount(p, 1, b) + (IF Is(s, "M", "1b") THEN Worth(p, q) ELSE 0)
  /\ u.milion = Amount(p, b + 1, m) + (IF Is(s, "S", "1b") THEN Worth(p, q) ELSE 0)
  /\ u.units = Amount(p, m + 1, q) + (IF Is(s, "X", "3") THEN Worth(p, q) * Q!power[u.block] ELSE 0)

\* Where a search may stand in state s.
Standing(p, q, b, m, s, u) ==
  /\ s \in NumStates /\ s[1] \in Q!Blocks \cup {"X"}
  /\ s[1] \in {"B", "X"} => m = 0
  /\ s[1] = "M" => m = b /\ b > 0
  /\ s[1] = "S" => m > b
  /\ s[1] \in Q!Blocks =>
       /\ s[2] = "1" => q = m
       /\ s[2] = "1a" => q = m + 1 /\ m > 0 /\ Said(p, q) = "TK_wy"
       /\ s[2] = "1b" => q = m + 2 /\ m > 0 /\ Said(p, m + 1) = "TK_wy" /\ Said(p, q) \in Q!Half
       /\ s[2] \in {"2", "3", "4", "u"} => Powers(p, m + 1, q) = {} /\ u.units > 0
       /\ s[2] \in Q!Complete \cup {"4", "8"} => q > m /\ Said(p, q) \notin Q!Half
  /\ Is(s, "X", "1") => q > 0 /\ u.block = Said(p, q) /\ u.block \in Q!Collective
  /\ Is(s, "X", "2") => q > 1 /\ u.block = Said(p, q - 1) /\ u.block \in Q!Collective /\ Said(p, q) = "TK_wy"
  /\ Is(s, "X", "3") => /\ q > 2 /\ u.block = Said(p, q - 2) /\ u.block \in Q!Collective
                         /\ Said(p, q - 1) = "TK_wy" /\ Said(p, q) \in Q!Half
  /\ Is(s, "X", "4") => q = 1 /\ Powers(p, 1, q) = {}
  /\ Is(s, "X", "5") => q = 2 /\ Said(p, q) \in Q!Collective

Reading(p, q, b, m, s, u) == Cut(p, q, b, m) /\ Registers(p, q, b, m, s, u) /\ Standing(p, q, b, m, s, u)

\* How a search goes on.
NumEdge(s, t, r) ==
  \/ Is(r, "STOP", "-")
  \/ /\ s[1] \in Q!Blocks /\ r[1] = s[1] /\ r[2] \in Q!Amounts /\ t \in Counted
     /\ IF r[2] \in {"2", "3", "u"} THEN s[2] \in {"1", "2", "4"} ELSE s[2] \in {"5", "6", "8"}
  \/ s[1] \in Q!Blocks /\ r[1] = s[1] /\ r[2] = "5" /\ t = "TK_mil" /\ s[2] \in {"1", "2", "3", "u"}
  \/ /\ s[1] \in Q!Blocks /\ r[1] = s[1] /\ t = "TK_wy"
     /\ \/ s[2] = "3" /\ r[2] = "4"
        \/ s[2] = "7" /\ r[2] = "8"
        \/ s[2] = "1" /\ r[2] = "1a" /\ s[1] \in {"M", "S"}
  \/ s[1] \in Q!Blocks /\ s[2] = "1a" /\ t \in Q!Half /\ r[1] = s[1] /\ r[2] = "1b"
  \/ ((s[1] = "B" /\ s[2] \in Q!Complete) \/ Is(s, "X", "4")) /\ t = "TK_bill" /\ Is(r, "M", "1")
  \/ ((s[1] \in {"B", "M"} /\ s[2] \in Q!Complete) \/ Is(s, "X", "4")) /\ t = "TK_mill" /\ Is(r, "S", "1")
  \/ Is(s, "B", "1") /\ t = "TK_code" /\ Is(r, "COD", "-")
  \/ t \in Q!Collective /\ ((Is(s, "B", "u") /\ Is(r, "X", "1")) \/ (Is(s, "X", "4") /\ Is(r, "X", "5")))
  \/ \/ Is(s, "X", "1") /\ t = "TK_wy" /\ Is(r, "X", "2")
     \/ Is(s, "X", "2") /\ t \in Q!Half /\ Is(r, "X", "3")
  \/ Is(s, "B", "1") /\ t = "TK_wmedio" /\ Is(r, "X", "4")

LEMMA NumEdges ==
  ASSUME NEW s \in NumStates, NEW t, NEW r, r = Q!NumTrans(s, t)
  PROVE  r \in NumStates /\ NumEdge(s, t, r)
<1>1. PICK a, k : s = <<a, k>> /\ s[1] = a /\ s[2] = k
  <2>1. PICK A, B : s \in A \X B
    BY DEF NumStates
  <2> QED BY <2>1
<1>2. PICK w : w = Q!Within(k, t)
  OBVIOUS
<1>3. CASE a \in Q!Blocks /\ w # "-"
  <2>1. \/ w \in Q!Amounts /\ t \in Counted /\ IF w \in {"2", "3", "u"} THEN k \in {"1", "2", "4"} ELSE k \in {"5", "6", "8"}
        \/ w = "5" /\ t = "TK_mil" /\ k \in {"1", "2", "3", "u"}
        \/ t = "TK_wy" /\ k = "3" /\ w = "4"
        \/ t = "TK_wy" /\ k = "7" /\ w = "8"
    BY <1>2, <1>3 DEF Q!Within, Q!Amounts, Counted
  <2>2. /\ t \in Counted \cup {"TK_mil", "TK_wy"}
        /\ t = "TK_wy" => k \in {"3", "7"}
    BY <2>1 DEF Counted
  <2>3. r = <<a, w>>
    BY <1>1, <1>2, <1>3, <2>2 DEF Q!NumTrans, Q!NumInitialState, Counted, Q!Half, Q!Collective
  <2>4. w \in Steps
    BY <2>1 DEF Steps, Q!Amounts
  <2>5. r[1] = a /\ r[2] = w
    BY <2>3
  <2>6. NumEdge(s, t, r)
    BY <1>1, <1>3, <2>1, <2>5 DEF NumEdge
  <2>7. r \in Q!Blocks \X Steps
    BY <1>3, <2>3, <2>4
  <2> QED BY <2>6, <2>7 DEF NumStates
<1>4. CASE ~(a \in Q!Blocks /\ w # "-")
  <2> USE DEF Q!NumStopState, Q!NumInitialState, Q!Blocks, Q!Half, Q!Collective, Q!Complete, Q!Amounts
  <2>1. CASE s \in {"COD", "STOP"} \X {"-"}
    <3>1. a \in {"COD", "STOP"} /\ k = "-"
      BY <1>1, <2>1
    <3>2. r = <<"STOP", "-">>
      BY <1>1, <3>1 DEF Q!NumTrans
    <3> QED BY <3>2 DEF NumEdge, Is, NumStates
  <2>2. CASE s \in {"X"} \X {"1", "2", "3", "4", "5"}
    <3>1. a = "X" /\ k \in {"1", "2", "3", "4", "5"}
      BY <1>1, <2>2
    <3>2. r = CASE k = "1" /\ t = "TK_wy" -> <<"X", "2">>
                [] k = "2" /\ t \in Q!Half -> <<"X", "3">>
                [] k = "4" /\ t = "TK_bill" -> <<"M", "1">>
                [] k = "4" /\ t = "TK_mill" -> <<"S", "1">>
                [] k = "4" /\ t \in Q!Collective -> <<"X", "5">>
                [] OTHER -> <<"STOP", "-">>
      BY <1>1, <3>1 DEF Q!NumTrans
    <3>3. r \in {<<"X", "2">>, <<"X", "3">>, <<"M", "1">>, <<"S", "1">>, <<"X", "5">>, <<"STOP", "-">>}
      BY <3>2
    <3>4. \/ r = <<"STOP", "-">>
          \/ r = <<"X", "2">> /\ k = "1" /\ t = "TK_wy"
          \/ r = <<"X", "3">> /\ k = "2" /\ t \in Q!Half
          \/ r = <<"M", "1">> /\ k = "4" /\ t = "TK_bill"
          \/ r = <<"S", "1">> /\ k = "4" /\ t = "TK_mill"
          \/ r = <<"X", "5">> /\ k = "4" /\ t \in Q!Collective
      BY <3>2
    <3>5. NumEdge(s, t, r)
      BY <1>1, <3>1, <3>4 DEF NumEdge, Is
    <3>6. r \in Q!Blocks \X Steps \/ r \in {"X"} \X {"1", "2", "3", "4", "5"} \/ r \in {"COD", "STOP"} \X {"-"}
      BY <3>3 DEF Steps
    <3> QED BY <3>5, <3>6 DEF NumStates
  <2>3. CASE s \in Q!Blocks \X Steps
    <3>1. a \in Q!Blocks /\ w = "-" /\ k \in Steps
      BY <1>1, <1>4, <2>3
    <3>2. r = CASE a = "B" /\ k \in Q!Complete /\ t = "TK_bill" -> <<"M", "1">>
                [] a \in {"B", "M"} /\ k \in Q!Complete /\ t = "TK_mill" -> <<"S", "1">>
                [] a \in {"M", "S"} /\ k = "1" /\ t = "TK_wy" -> <<a, "1a">>
                [] k = "1a" /\ t \in Q!Half -> <<a, "1b">>
                [] a = "B" /\ k = "1" /\ t = "TK_code" -> <<"COD", "-">>
                [] a = "B" /\ k = "u" /\ t \in Q!Collective -> <<"X", "1">>
                [] a = "B" /\ k = "1" /\ t = "TK_wmedio" -> <<"X", "4">>
                [] OTHER -> <<"STOP", "-">>
      BY <1>1, <1>2, <3>1 DEF Q!NumTrans
    <3>3. r \in {<<"M", "1">>, <<"S", "1">>, <<a, "1a">>, <<a, "1b">>, <<"COD", "-">>, <<"X", "1">>, <<"X", "4">>,
                 <<"STOP", "-">>}
      BY <3>2
    <3>4. \/ r = <<"STOP", "-">>
          \/ r = <<"M", "1">> /\ a = "B" /\ k \in Q!Complete /\ t = "TK_bill"
          \/ r = <<"S", "1">> /\ a \in {"B", "M"} /\ k \in Q!Complete /\ t = "TK_mill"
          \/ r = <<a, "1a">> /\ a \in {"M", "S"} /\ k = "1" /\ t = "TK_wy"
          \/ r = <<a, "1b">> /\ k = "1a" /\ t \in Q!Half
          \/ r = <<"COD", "-">> /\ a = "B" /\ k = "1" /\ t = "TK_code"
          \/ r = <<"X", "1">> /\ a = "B" /\ k = "u" /\ t \in Q!Collective
          \/ r = <<"X", "4">> /\ a = "B" /\ k = "1" /\ t = "TK_wmedio"
      BY <3>2
    <3>5. \/ Is(r, "STOP", "-")
          \/ Is(r, "M", "1") /\ s[1] = "B" /\ s[2] \in Q!Complete /\ t = "TK_bill"
          \/ Is(r, "S", "1") /\ s[1] \in {"B", "M"} /\ s[2] \in Q!Complete /\ t = "TK_mill"
          \/ r[1] = s[1] /\ r[2] = "1a" /\ s[1] \in {"M", "S"} /\ s[2] = "1" /\ t = "TK_wy"
          \/ r[1] = s[1] /\ r[2] = "1b" /\ s[2] = "1a" /\ t \in Q!Half
          \/ Is(r, "COD", "-") /\ Is(s, "B", "1") /\ t = "TK_code"
          \/ Is(r, "X", "1") /\ Is(s, "B", "u") /\ t \in Q!Collective
          \/ Is(r, "X", "4") /\ Is(s, "B", "1") /\ t = "TK_wmedio"
      BY <1>1, <3>4 DEF Is
    <3>6. NumEdge(s, t, r)
      <4>1. s[1] \in Q!Blocks
        BY <1>1, <3>1
      <4> HIDE DEF Q!Half, Q!Collective, Q!Complete, Q!Blocks, Q!Amounts
      <4> QED BY <3>5, <4>1 DEF NumEdge
    <3>7. r \in Q!Blocks \X Steps \/ r \in {"X"} \X {"1", "2", "3", "4", "5"} \/ r \in {"COD", "STOP"} \X {"-"}
      BY <3>1, <3>3 DEF Steps
    <3> QED BY <3>6, <3>7 DEF NumStates
  <2> QED BY <2>1, <2>2, <2>3 DEF NumStates
<1> QED BY <1>3, <1>4

\* A state is a pair.
LEMMA PairIs ==
  ASSUME NEW s \in NumStates
  PROVE  s = <<s[1], s[2]>>
<1>1. PICK A, B : s \in A \X B
  BY DEF NumStates
<1> QED BY <1>1

\* What the actions of state r do to the registers.
NumActs(r, t, w, u, v) ==
  /\ r[1] \in Q!Blocks /\ r[2] \in Q!Amounts => v = [u EXCEPT !.units = @ + Q!Entry(w).value]
  /\ r[1] \in Q!Blocks /\ r[2] = "5" => v = [u EXCEPT !.units = Q!Thousands(@) * Q!power[t]]
  /\ Is(r, "M", "1")  => v = [u EXCEPT !.bilion = u.units, !.units = 0]
  /\ Is(r, "M", "1b") => v = [u EXCEPT !.bilion = @ + Q!Entry(w).value]
  /\ Is(r, "S", "1")  => v = [u EXCEPT !.milion = u.units, !.units = 0]
  /\ Is(r, "S", "1b") => v = [u EXCEPT !.milion = @ + Q!Entry(w).value]
  /\ Is(r, "X", "1")  => v = [u EXCEPT !.units = @ * Q!power[t], !.block = t]
  /\ Is(r, "X", "3")  => v = [u EXCEPT !.units = @ + Q!Entry(w).value * Q!power[u.block]]
  /\ Is(r, "X", "4")  => v = [u EXCEPT !.units = Q!Entry(w).value]
  /\ Is(r, "X", "5")  => v = [u EXCEPT !.units = @ * Q!power[t]]
  /\ r[1] = "COD"     => v = [u EXCEPT !.iscode = TRUE]
  /\ r[1] = "STOP" \/ (r[2] \in {"4", "8", "1a"} /\ r[1] # "X") \/ Is(r, "X", "2") \/ Is(r, "B", "1b") => v = u

LEMMA NumActions ==
  ASSUME NEW r \in NumStates, NEW t, NEW w, NEW u, NEW v, v = Q!NumStateActions(r, t, w, u)
  PROVE  NumActs(r, t, w, u, v)
<1>1. PICK a, k : r = <<a, k>> /\ r[1] = a /\ r[2] = k
  BY PairIs
<1> USE <1>1 DEF Q!Blocks, Q!Amounts, Is
<1>2. r[1] \in Q!Blocks /\ r[2] \in Q!Amounts => v = [u EXCEPT !.units = @ + Q!Entry(w).value]
  BY DEF Q!NumStateActions
<1>3. r[1] \in Q!Blocks /\ r[2] = "5" => v = [u EXCEPT !.units = Q!Thousands(@) * Q!power[t]]
  BY DEF Q!NumStateActions
<1>4. Is(r, "M", "1")  => v = [u EXCEPT !.bilion = u.units, !.units = 0]
  BY DEF Q!NumStateActions
<1>5. Is(r, "M", "1b") => v = [u EXCEPT !.bilion = @ + Q!Entry(w).value]
  BY DEF Q!NumStateActions
<1>6. Is(r, "S", "1")  => v = [u EXCEPT !.milion = u.units, !.units = 0]
  BY DEF Q!NumStateActions
<1>7. Is(r, "S", "1b") => v = [u EXCEPT !.milion = @ + Q!Entry(w).value]
  BY DEF Q!NumStateActions
<1>8. Is(r, "X", "1")  => v = [u EXCEPT !.units = @ * Q!power[t], !.block = t]
  BY DEF Q!NumStateActions
<1>9. Is(r, "X", "3")  => v = [u EXCEPT !.units = @ + Q!Entry(w).value * Q!power[u.block]]
  BY DEF Q!NumStateActions
<1>10. Is(r, "X", "4")  => v = [u EXCEPT !.units = Q!Entry(w).value]
  BY DEF Q!NumStateActions
<1>11. Is(r, "X", "5")  => v = [u EXCEPT !.units = @ * Q!power[t]]
  BY DEF Q!NumStateActions
<1>12. r[1] = "COD" => v = [u EXCEPT !.iscode = TRUE]
  BY DEF Q!NumStateActions, NumStates
<1>13. r[1] = "STOP" \/ (r[2] \in {"4", "8", "1a"} /\ r[1] # "X") \/ Is(r, "X", "2") \/ Is(r, "B", "1b") => v = u
  BY DEF Q!NumStateActions, NumStates
<1> QED BY <1>2, <1>3, <1>4, <1>5, <1>6, <1>7, <1>8, <1>9, <1>10, <1>11, <1>12, <1>13 DEF NumActs

\* The cuts after one more word.
LEMMA CutGrows ==
  ASSUME NEW p, NEW q \in Nat, NEW b, NEW m, Cut(p, q, b, m), NEW t, t = Said(p, q + 1)
  PROVE  /\ b \in 0..q /\ m \in b..q
         /\ t \notin {"TK_bill", "TK_mill"} => Cut(p, q + 1, b, m)
         /\ t = "TK_bill" /\ m = 0 => Cut(p, q + 1, q + 1, q + 1)
         /\ t = "TK_mill" /\ m = b => Cut(p, q + 1, b, q + 1)
<1>1. /\ b \in 0..q /\ m \in b..q
      /\ \A k \in 1..q : /\ Said(p, k) = "TK_bill" <=> k = b
                         /\ Said(p, k) = "TK_mill" <=> k = m /\ m > b
  BY DEF Cut
<1>2. \A k \in 1..(q + 1) : k \in 1..q \/ k = q + 1
  OBVIOUS
<1>3. t \notin {"TK_bill", "TK_mill"} => Cut(p, q + 1, b, m)
  BY <1>1, <1>2 DEF Cut
<1>4. t = "TK_bill" /\ m = 0 => Cut(p, q + 1, q + 1, q + 1)
  BY <1>1, <1>2 DEF Cut
<1>5. t = "TK_mill" /\ m = b => Cut(p, q + 1, b, q + 1)
  BY <1>1, <1>2 DEF Cut
<1> QED BY <1>1, <1>3, <1>4, <1>5

\* The amount after the cut, with one more word.
LEMMA UnitsGrow ==
  ASSUME Quarters, NEW p, NEW q \in Nat, NEW m \in 0..q, NEW t, t = Said(p, q + 1)
  PROVE  /\ Amount(p, m + 1, q) \in Int /\ Amount(p, m + 1, q + 1) \in Int
         /\ q = m => Amount(p, m + 1, q) = 0 /\ Powers(p, m + 1, q) = {}
         /\ t \notin DOMAIN Q!power => Amount(p, m + 1, q + 1) = Amount(p, m + 1, q) + Alone(p, q + 1)
         /\ t \notin DOMAIN Q!power /\ Powers(p, m + 1, q) = {} => Powers(p, m + 1, q + 1) = {}
         /\ t \in DOMAIN Q!power /\ Powers(p, m + 1, q) = {} =>
              Amount(p, m + 1, q + 1) = (IF q = m /\ t = "TK_mil" THEN 4 ELSE Amount(p, m + 1, q)) * Q!power[t]
<1>1. PICK x \in Nat \ {0}, y \in Nat : x = m + 1 /\ y = q + 1
  OBVIOUS
<1>2. x <= y /\ y - 1 = q
  BY <1>1
<1>3. Amount(p, x, q) \in Int /\ Amount(p, x, y) \in Int /\ (q < x => Amount(p, x, q) = 0)
  BY AmountInt
<1>4. q = m => Powers(p, x, q) = {}
  BY <1>1 DEF Powers
<1>5. t \notin DOMAIN Q!power =>
        Powers(p, x, y) = Powers(p, x, q) /\ Amount(p, x, y) = Amount(p, x, q) + Alone(p, y)
  <2> SUFFICES ASSUME Said(p, y) \notin DOMAIN Q!power
               PROVE  Powers(p, x, y) = Powers(p, x, q) /\ Amount(p, x, y) = Amount(p, x, q) + Alone(p, y)
    BY <1>1
  <2> QED BY <1>2, AmountPlain
<1>6. t \in DOMAIN Q!power /\ Powers(p, x, q) = {} =>
        Amount(p, x, y) = (IF y = x /\ Said(p, y) = "TK_mil" THEN 4 ELSE Amount(p, x, q)) * Q!power[Said(p, y)]
  <2> SUFFICES ASSUME Said(p, y) \in DOMAIN Q!power, Powers(p, x, y - 1) = {}
               PROVE  Amount(p, x, y) = (IF y = x /\ Said(p, y) = "TK_mil" THEN 4 ELSE Amount(p, x, y - 1)) * Q!power[Said(p, y)]
    BY <1>1, <1>2
  <2> QED BY <1>2, AmountPower
<1>7. y = x <=> q = m
  BY <1>1
<1> QED BY <1>1, <1>3, <1>4, <1>5, <1>6, <1>7

\* The registers and the place of a search after one more word, edge by edge.
\* A number of some hundreds, tens and units is added.
LEMMA ReadCounted ==
  ASSUME Quarters, NEW p, NEW q \in Nat, NEW b, NEW m, NEW s, NEW u, Reading(p, q, b, m, s, u),
         NEW t, t = Said(p, q + 1), NEW r \in NumStates, NEW v,
         s[1] \in Q!Blocks, r[1] = s[1], r[2] \in Q!Amounts, t \in Counted, Worth(p, q + 1) > 0,
         IF r[2] \in {"2", "3", "u"} THEN s[2] \in {"1", "2", "4"} ELSE s[2] \in {"5", "6", "8"},
         v = [u EXCEPT !.units = @ + Worth(p, q + 1)]
  PROVE  Reading(p, q + 1, b, m, r, v)
<1>1. b \in 0..q /\ m \in b..q /\ Cut(p, q + 1, b, m)
  BY CutGrows DEF Reading, Counted
<1>2. t \notin DOMAIN Q!power /\ Alone(p, q + 1) = Worth(p, q + 1) /\ t \notin Q!Half
  BY DEF Counted, Q!power, Alone, Q!Half
<1>3. PICK A \in Int, B \in Int : A = Amount(p, m + 1, q) /\ B = Amount(p, m + 1, q + 1)
  BY <1>1, UnitsGrow
<1>4. /\ q = m => A = 0 /\ Powers(p, m + 1, q) = {}
      /\ B = A + Worth(p, q + 1)
      /\ Powers(p, m + 1, q) = {} => Powers(p, m + 1, q + 1) = {}
  BY <1>1, <1>2, <1>3, UnitsGrow
<1>5. /\ DOMAIN u = NumFields /\ u.bilion = Amount(p, 1, b) + 0 /\ u.milion = Amount(p, b + 1, m) + 0 /\ u.units = A + 0
  BY <1>3 DEF Reading, Registers, Is, Q!Blocks
<1>6. /\ DOMAIN v = NumFields /\ v.bilion = u.bilion /\ v.milion = u.milion /\ v.units = u.units + Worth(p, q + 1)
  BY <1>5 DEF NumFields
<1>7. Registers(p, q + 1, b, m, r, v)
  BY <1>3, <1>4, <1>5, <1>6, AloneInt DEF Registers, Is, Q!Amounts, Q!Blocks
<1>8. Standing(p, q + 1, b, m, r, v)
  <2>1. r[2] \in {"2", "3", "u"} => Powers(p, m + 1, q + 1) = {} /\ v.units > 0
    <3>1. s[2] = "1" => q = m
      BY DEF Reading, Standing
    <3>2. s[2] \in {"2", "4"} => Powers(p, m + 1, q) = {} /\ u.units > 0
      BY DEF Reading, Standing
    <3> QED BY <1>3, <1>4, <1>5, <1>6, <3>1, <3>2, AloneInt
  <2>2. /\ s[1] \in {"B", "X"} => m = 0
        /\ s[1] = "M" => m = b /\ b > 0
        /\ s[1] = "S" => m > b
    BY DEF Reading, Standing
  <2> QED BY <1>1, <1>2, <2>1, <2>2 DEF Standing, Is, Q!Amounts, Q!Blocks
<1> QED BY <1>1, <1>7, <1>8 DEF Reading

\* Thousands, at most once.
LEMMA ReadThousands ==
  ASSUME Quarters, NEW p, NEW q \in Nat, NEW b, NEW m, NEW s, NEW u, Reading(p, q, b, m, s, u),
         NEW t, t = Said(p, q + 1), NEW r \in NumStates, NEW v,
         s[1] \in Q!Blocks, r[1] = s[1], r[2] = "5", t = "TK_mil", s[2] \in {"1", "2", "3", "u"},
         v = [u EXCEPT !.units = Q!Thousands(@) * Q!power[t]]
  PROVE  Reading(p, q + 1, b, m, r, v)
<1>1. b \in 0..q /\ m \in b..q /\ Cut(p, q + 1, b, m)
  BY CutGrows DEF Reading
<1>2. t \in DOMAIN Q!power /\ Q!power[t] = 1000 /\ t \notin Q!Half
  BY DEF Q!power, Q!Half
<1>3. PICK A \in Int, B \in Int : A = Amount(p, m + 1, q) /\ B = Amount(p, m + 1, q + 1)
  BY <1>1, UnitsGrow
<1>4. /\ q = m => A = 0 /\ Powers(p, m + 1, q) = {}
      /\ Powers(p, m + 1, q) = {} => B = (IF q = m /\ t = "TK_mil" THEN 4 ELSE A) * Q!power[t]
  BY <1>1, <1>2, <1>3, UnitsGrow
<1>5. /\ DOMAIN u = NumFields /\ u.bilion = Amount(p, 1, b) + 0 /\ u.milion = Amount(p, b + 1, m) + 0 /\ u.units = A + 0
  BY <1>3 DEF Reading, Registers, Is, Q!Blocks
<1>6. /\ s[2] = "1" => q = m
      /\ s[2] # "1" => Powers(p, m + 1, q) = {} /\ u.units > 0
  BY DEF Reading, Standing
<1>7. Q!Thousands(u.units) = IF q = m THEN 4 ELSE A
  BY <1>3, <1>4, <1>5, <1>6 DEF Q!Thousands
<1>8. B = (IF q = m THEN 4 ELSE A) * 1000
  BY <1>2, <1>4, <1>6
<1>9. DOMAIN v = NumFields /\ v.bilion = u.bilion /\ v.milion = u.milion /\ v.units = B
  BY <1>2, <1>5, <1>7, <1>8 DEF NumFields
<1>10. Registers(p, q + 1, b, m, r, v)
  BY <1>3, <1>5, <1>9 DEF Registers, Is, Q!Blocks
<1>11. Standing(p, q + 1, b, m, r, v)
  <2>1. /\ s[1] \in {"B", "X"} => m = 0
        /\ s[1] = "M" => m = b /\ b > 0
        /\ s[1] = "S" => m > b
    BY DEF Reading, Standing
  <2> QED BY <1>1, <1>2, <2>1 DEF Standing, Is, Q!Blocks
<1> QED BY <1>1, <1>10, <1>11 DEF Reading

\* "y" says nothing itself.
LEMMA ReadAnd ==
  ASSUME Quarters, NEW p, NEW q \in Nat, NEW b, NEW m, NEW s, NEW u, Reading(p, q, b, m, s, u),
         NEW t, t = Said(p, q + 1), NEW r \in NumStates, NEW v,
         s[1] \in Q!Blocks, r[1] = s[1], t = "TK_wy", v = u,
         \/ s[2] = "3" /\ r[2] = "4"
         \/ s[2] = "7" /\ r[2] = "8"
         \/ s[2] = "1" /\ r[2] = "1a" /\ s[1] \in {"M", "S"}
  PROVE  Reading(p, q + 1, b, m, r, v)
<1>1. b \in 0..q /\ m \in b..q /\ Cut(p, q + 1, b, m)
  BY CutGrows DEF Reading
<1>2. t \notin DOMAIN Q!power /\ Alone(p, q + 1) = 0 /\ t \notin Q!Half
  BY DEF Counted, Q!power, Alone, Q!Half
<1>3. PICK A \in Int, B \in Int : A = Amount(p, m + 1, q) /\ B = Amount(p, m + 1, q + 1)
  BY <1>1, UnitsGrow
<1>4. /\ B = A + 0
      /\ Powers(p, m + 1, q) = {} => Powers(p, m + 1, q + 1) = {}
  BY <1>1, <1>2, <1>3, UnitsGrow
<1>5. /\ DOMAIN u = NumFields /\ u.bilion = Amount(p, 1, b) + 0 /\ u.milion = Amount(p, b + 1, m) + 0 /\ u.units = A + 0
  BY <1>3 DEF Reading, Registers, Is, Q!Blocks
<1>6. Registers(p, q + 1, b, m, r, v)
  BY <1>3, <1>4, <1>5 DEF Registers, Is, Q!Blocks
<1>7. Standing(p, q + 1, b, m, r, v)
  <2>1. /\ s[1] \in {"B", "X"} => m = 0
        /\ s[1] = "M" => m = b /\ b > 0
        /\ s[1] = "S" => m > b
        /\ s[2] = "1" => q = m
        /\ s[2] = "3" => Powers(p, m + 1, q) = {} /\ u.units > 0
    BY DEF Reading, Standing
  <2>2. m \in Nat /\ b \in Nat /\ (s[1] \in {"M", "S"} => m > 0)
    BY <1>1, <2>1
  <2> QED BY <1>1, <1>2, <1>4, <2>1, <2>2 DEF Standing, Is, Q!Blocks, Q!Complete, Q!Amounts
<1> QED BY <1>1, <1>6, <1>7 DEF Reading

\* "y medio" after "billones" or "millones".
LEMMA ReadHalf ==
  ASSUME Quarters, NEW p, NEW q \in Nat, NEW b, NEW m, NEW s, NEW u, Reading(p, q, b, m, s, u),
         NEW t, t = Said(p, q + 1), NEW r \in NumStates, NEW v,
         s[1] \in {"M", "S"}, r[1] = s[1], s[2] = "1a", r[2] = "1b", t \in Q!Half,
         s[1] = "M" => v = [u EXCEPT !.bilion = @ + Worth(p, q + 1)],
         s[1] = "S" => v = [u EXCEPT !.milion = @ + Worth(p, q + 1)]
  PROVE  Reading(p, q + 1, b, m, r, v)
<1>1. b \in 0..q /\ m \in b..q /\ Cut(p, q + 1, b, m)
  BY CutGrows DEF Reading, Q!Half
<1>2. q = m + 1 /\ m > 0 /\ Said(p, q) = "TK_wy"
  BY DEF Reading, Standing, Q!Blocks
<1>3. t \notin DOMAIN Q!power /\ Alone(p, q + 1) = 0
  <2>1. t \notin DOMAIN Q!power /\ t \notin Counted
    BY DEF Counted, Q!power, Q!Half
  <2>2. q + 1 # 1
    BY <1>1, <1>2
  <2> QED BY <2>1, <2>2 DEF Alone
<1>4. PICK A \in Int, B \in Int : A = Amount(p, m + 1, q) /\ B = Amount(p, m + 1, q + 1)
  BY <1>1, UnitsGrow
<1>5. B = A + 0
  BY <1>1, <1>3, <1>4, UnitsGrow
<1>6. /\ DOMAIN u = NumFields /\ u.bilion = Amount(p, 1, b) + 0 /\ u.milion = Amount(p, b + 1, m) + 0 /\ u.units = A + 0
  BY <1>4 DEF Reading, Registers, Is, Q!Blocks
<1>7. PICK x \in Nat \ {0} : x = b + 1
  BY <1>1
<1>8. Amount(p, 1, b) \in Int /\ Amount(p, x, m) \in Int
  BY <1>1, AmountInt
<1>9. Registers(p, q + 1, b, m, r, v)
  BY <1>4, <1>5, <1>6, <1>7, <1>8, AloneInt DEF Registers, Is, NumFields
<1>10. Standing(p, q + 1, b, m, r, v)
  <2>1. /\ s[1] = "M" => m = b /\ b > 0
        /\ s[1] = "S" => m > b
    BY DEF Reading, Standing
  <2> QED BY <1>1, <1>2, <2>1 DEF Standing, Is, Q!Blocks, Q!Complete, Q!Amounts
<1> QED BY <1>1, <1>9, <1>10 DEF Reading

\* "billones".
LEMMA ReadBill ==
  ASSUME Quarters, NEW p, NEW q \in Nat, NEW b, NEW m, NEW s, NEW u, Reading(p, q, b, m, s, u),
         NEW t, t = Said(p, q + 1), NEW r \in NumStates, NEW v,
         (s[1] = "B" /\ s[2] \in Q!Complete) \/ Is(s, "X", "4"),
         t = "TK_bill", Is(r, "M", "1"), v = [u EXCEPT !.bilion = u.units, !.units = 0]
  PROVE  Reading(p, q + 1, q + 1, q + 1, r, v)
<1>1. m = 0 /\ b = 0 /\ Cut(p, q + 1, q + 1, q + 1)
  <2>1. m = 0
    BY DEF Reading, Standing, Is
  <2> QED BY <2>1, CutGrows DEF Reading
<1>2. t \notin DOMAIN Q!power /\ Alone(p, q + 1) = 0
  BY DEF Counted, Q!power, Alone, Q!Half
<1>3. PICK A \in Int, B \in Int : A = Amount(p, 1, q) /\ B = Amount(p, 1, q + 1)
  <2>1. 1 = m + 1
    BY <1>1
  <2> QED BY <1>1, <2>1, UnitsGrow
<1>4. B = A + 0
  <2>1. 1 = m + 1
    BY <1>1
  <2> QED BY <1>1, <1>2, <1>3, <2>1, UnitsGrow
<1>5. DOMAIN u = NumFields /\ u.milion = Amount(p, 1, 0) + 0 /\ u.units = A + 0
  <2>1. b + 1 = 1 /\ m + 1 = 1
    BY <1>1
  <2> QED BY <1>1, <1>3, <2>1 DEF Reading, Registers, Is
<1>6. PICK x \in Nat \ {0}, y \in Nat : x = q + 2 /\ y = q + 1 /\ y + 1 = x
  OBVIOUS
<1>7. Amount(p, 1, 0) = 0 /\ Amount(p, x, y) = 0
  BY <1>6, AmountInt
<1>8. DOMAIN v = NumFields /\ v.bilion = A /\ v.milion = 0 /\ v.units = 0
  BY <1>5, <1>7 DEF NumFields
<1>9. Registers(p, y, y, y, r, v)
  BY <1>3, <1>4, <1>6, <1>7, <1>8 DEF Registers, Is
<1>10. Standing(p, y, y, y, r, v)
  BY <1>6 DEF Standing, Is, Q!Blocks, Q!Complete, Q!Amounts
<1> QED BY <1>1, <1>6, <1>9, <1>10 DEF Reading

\* "millones".
LEMMA ReadMill ==
  ASSUME Quarters, NEW p, NEW q \in Nat, NEW b, NEW m, NEW s, NEW u, Reading(p, q, b, m, s, u),
         NEW t, t = Said(p, q + 1), NEW r \in NumStates, NEW v,
         (s[1] \in {"B", "M"} /\ s[2] \in Q!Complete) \/ Is(s, "X", "4"),
         t = "TK_mill", Is(r, "S", "1"), v = [u EXCEPT !.milion = u.units, !.units = 0]
  PROVE  Reading(p, q + 1, b, q + 1, r, v)
<1>1. m = b /\ b \in 0..q /\ Cut(p, q + 1, b, q + 1)
  <2>1. m = b
    BY DEF Reading, Standing, Is, Cut
  <2> QED BY <2>1, CutGrows DEF Reading
<1>2. t \notin DOMAIN Q!power /\ Alone(p, q + 1) = 0
  BY DEF Counted, Q!power, Alone, Q!Half
<1>3. PICK A \in Int, B \in Int : A = Amount(p, b + 1, q) /\ B = Amount(p, b + 1, q + 1)
  BY <1>1, UnitsGrow
<1>4. B = A + 0
  BY <1>1, <1>2, <1>3, UnitsGrow
<1>5. DOMAIN u = NumFields /\ u.bilion = Amount(p, 1, b) + 0 /\ u.units = A + 0
  BY <1>1, <1>3 DEF Reading, Registers, Is, Q!Complete, Q!Amounts
<1>6. PICK x \in Nat \ {0}, y \in Nat : x = q + 2 /\ y = q + 1 /\ y + 1 = x
  OBVIOUS
<1>7. Amount(p, x, y) = 0
  BY <1>6, AmountInt
<1>8. DOMAIN v = NumFields /\ v.bilion = u.bilion /\ v.milion = A /\ v.units = 0
  BY <1>5 DEF NumFields
<1>9. Registers(p, y, b, y, r, v)
  BY <1>3, <1>4, <1>5, <1>6, <1>7, <1>8 DEF Registers, Is
<1>10. Standing(p, y, b, y, r, v)
  BY <1>1, <1>6 DEF Standing, Is, Q!Blocks, Q!Complete, Q!Amounts
<1> QED BY <1>1, <1>6, <1>9, <1>10 DEF Reading

\* Dozens, hundreds and the like, after a number or after "media".
LEMMA ReadCollective ==
  ASSUME Quarters, NEW p, NEW q \in Nat, NEW b, NEW m, NEW s, NEW u, Reading(p, q, b, m, s, u),
         NEW t, t = Said(p, q + 1), NEW r \in NumStates, NEW v,
         t \in Q!Collective, (Is(s, "B", "u") /\ Is(r, "X", "1")) \/ (Is(s, "X", "4") /\ Is(r, "X", "5")),
         DOMAIN v = NumFields, v.bilion = u.bilion, v.milion = u.milion, v.units = u.units * Q!power[t],
         Is(r, "X", "1") => v.block = t
  PROVE  Reading(p, q + 1, b, m, r, v)
<1>1. m = 0 /\ b \in 0..q /\ m \in b..q /\ Cut(p, q + 1, b, m)
  <2>1. t \notin {"TK_bill", "TK_mill"}
    BY DEF Q!Collective
  <2> QED BY <2>1, CutGrows DEF Reading, Standing, Is
<1>2. t \in DOMAIN Q!power /\ t # "TK_mil" /\ Q!power[t] \in Int
  BY DEF Q!power, Q!Collective
<1>3. PICK A \in Int, B \in Int : A = Amount(p, m + 1, q) /\ B = Amount(p, m + 1, q + 1)
  <2>1. m \in 0..q
    BY <1>1
  <2> QED BY <2>1, UnitsGrow
<1>4. Powers(p, m + 1, q) = {}
  <2>1. Is(s, "B", "u") => Powers(p, m + 1, q) = {}
    BY DEF Reading, Standing, Is, Q!Blocks
  <2>2. Is(s, "X", "4") => Powers(p, 1, q) = {} /\ m + 1 = 1
    BY <1>1 DEF Reading, Standing, Is
  <2> QED BY <2>1, <2>2
<1>5. B = A * Q!power[t]
  <2>1. m \in 0..q /\ t \in DOMAIN Q!power
    BY <1>1, <1>2
  <2>2. B = (IF q = m /\ t = "TK_mil" THEN 4 ELSE A) * Q!power[t]
    BY <1>3, <1>4, <2>1, UnitsGrow
  <2> QED BY <1>2, <2>2
<1>6. /\ DOMAIN u = NumFields /\ u.bilion = Amount(p, 1, b) + 0 /\ u.milion = Amount(p, b + 1, m) + 0 /\ u.units = A + 0
  BY <1>3 DEF Reading, Registers, Is
<1>7. /\ DOMAIN v = NumFields /\ v.bilion = u.bilion /\ v.milion = u.milion /\ v.units = B + 0
      /\ Is(s, "B", "u") => v.block = t
  <2>1. u.units * Q!power[t] = B + 0
    BY <1>3, <1>5, <1>6
  <2>2. Is(s, "B", "u") => v.block = t
    BY DEF Is
  <2> QED BY <2>1, <2>2
<1>8. Registers(p, q + 1, b, m, r, v)
  BY <1>3, <1>6, <1>7 DEF Registers, Is
<1>9. Standing(p, q + 1, b, m, r, v)
  <2>1. r[1] = "X" /\ r[2] \in {"1", "5"}
    BY DEF Is
  <2>2. r[2] = "5" => q + 1 = 2
    BY DEF Reading, Standing, Is
  <2>3. r[2] = "1" => v.block = t
    BY <1>7 DEF Is
  <2> QED BY <1>1, <2>1, <2>2, <2>3 DEF Standing, Is, Q!Blocks
<1> QED BY <1>1, <1>8, <1>9 DEF Reading

\* "y" after one of these, and the half of it.
LEMMA ReadPart ==
  ASSUME Quarters, NEW p, NEW q \in Nat, NEW b, NEW m, NEW s, NEW u, Reading(p, q, b, m, s, u),
         NEW t, t = Said(p, q + 1), NEW r \in NumStates, NEW v,
         \/ Is(s, "X", "1") /\ t = "TK_wy" /\ Is(r, "X", "2") /\ v = u
         \/ /\ Is(s, "X", "2") /\ t \in Q!Half /\ Is(r, "X", "3")
            /\ v = [u EXCEPT !.units = @ + Worth(p, q + 1) * Q!power[u.block]]
  PROVE  Reading(p, q + 1, b, m, r, v)
<1>1. m = 0 /\ b \in 0..q /\ m \in b..q /\ Cut(p, q + 1, b, m) /\ q > 0 /\ u.block \in Q!Collective
  <2>1. t \notin {"TK_bill", "TK_mill"}
    BY DEF Q!Half
  <2>2. m = 0 /\ q > 0 /\ u.block \in Q!Collective
    BY DEF Reading, Standing, Is
  <2> QED BY <2>1, <2>2, CutGrows DEF Reading
<1>2. t \notin DOMAIN Q!power /\ Alone(p, q + 1) = 0
  <2>1. t \notin DOMAIN Q!power /\ t \notin Counted
    BY DEF Counted, Q!power, Q!Half
  <2>2. q + 1 # 1
    BY <1>1
  <2> QED BY <2>1, <2>2 DEF Alone
<1>3. PICK A \in Int, B \in Int : A = Amount(p, m + 1, q) /\ B = Amount(p, m + 1, q + 1)
  <2>1. m \in 0..q
    BY <1>1
  <2> QED BY <2>1, UnitsGrow
<1>4. B = A + 0
  BY <1>1, <1>2, <1>3, UnitsGrow
<1>5. /\ DOMAIN u = NumFields /\ u.bilion = Amount(p, 1, b) + 0 /\ u.milion = Amount(p, b + 1, m) + 0 /\ u.units = A + 0
  BY <1>3 DEF Reading, Registers, Is
<1>6. PICK h \in Int : h = Worth(p, q + 1) * Q!power[u.block]
  <2>1. Q!power[u.block] \in Int
    BY <1>1 DEF Q!power, Q!Collective
  <2> QED BY <2>1, AloneInt
<1>7. /\ DOMAIN v = NumFields /\ v.bilion = u.bilion /\ v.milion = u.milion /\ v.block = u.block
      /\ v.units = B + IF Is(r, "X", "3") THEN h ELSE 0
  <2>1. CASE Is(r, "X", "2")
    BY <1>3, <1>4, <1>5, <2>1 DEF Is
  <2>2. CASE Is(r, "X", "3")
    <3>1. v = [u EXCEPT !.units = @ + h]
      BY <1>6, <2>2 DEF Is
    <3> QED BY <1>3, <1>4, <1>5, <2>2, <3>1 DEF NumFields
  <2> QED BY <2>1, <2>2
<1>8. Registers(p, q + 1, b, m, r, v)
  BY <1>3, <1>5, <1>6, <1>7 DEF Registers, Is
<1>9. Standing(p, q + 1, b, m, r, v)
  <2>1. /\ Is(s, "X", "1") => u.block = Said(p, q)
        /\ Is(s, "X", "2") => q > 1 /\ u.block = Said(p, q - 1) /\ Said(p, q) = "TK_wy"
    BY DEF Reading, Standing
  <2>2. q + 1 - 1 = q /\ q + 1 - 2 = q - 1
    OBVIOUS
  <2> QED BY <1>1, <1>7, <2>1, <2>2 DEF Standing, Is, Q!Blocks
<1> QED BY <1>1, <1>8, <1>9 DEF Reading

\* "media" as the first word.
LEMMA ReadFirst ==
  ASSUME Quarters, NEW p, NEW q \in Nat, NEW b, NEW m, NEW s, NEW u, Reading(p, q, b, m, s, u),
         NEW t, t = Said(p, q + 1), NEW r \in NumStates, NEW v,
         Is(s, "B", "1"), t = "TK_wmedio", Is(r, "X", "4"), v = [u EXCEPT !.units = Worth(p, q + 1)]
  PROVE  Reading(p, q + 1, b, m, r, v)
<1>1. m = 0 /\ q = 0 /\ b \in 0..q /\ m \in b..q /\ Cut(p, q + 1, b, m)
  <2>1. m = 0 /\ q = m
    BY DEF Reading, Standing, Is, Q!Blocks
  <2> QED BY <2>1, CutGrows DEF Reading
<1>2. t \notin DOMAIN Q!power /\ Alone(p, q + 1) = Worth(p, q + 1)
  BY <1>1 DEF Counted, Q!power, Alone, Q!Half
<1>3. PICK A \in Int, B \in Int : A = Amount(p, m + 1, q) /\ B = Amount(p, m + 1, q + 1)
  <2>1. m \in 0..q
    BY <1>1
  <2> QED BY <2>1, UnitsGrow
<1>4. A = 0 /\ B = A + Worth(p, q + 1) /\ Powers(p, m + 1, q + 1) = {}
  <2>1. A = 0 /\ Powers(p, m + 1, q) = {}
    BY <1>1, <1>3, UnitsGrow
  <2>2. m \in 0..q
    BY <1>1
  <2>3. B = A + Alone(p, q + 1)
    BY <1>2, <1>3, <2>2, UnitsGrow
  <2>4. Powers(p, m + 1, q + 1) = {}
    BY <1>2, <2>1, <2>2, UnitsGrow
  <2> QED BY <1>2, <2>1, <2>3, <2>4
<1>5. /\ DOMAIN u = NumFields /\ u.bilion = Amount(p, 1, b) + 0 /\ u.milion = Amount(p, b + 1, m) + 0
  BY DEF Reading, Registers, Is
<1>6. /\ DOMAIN v = NumFields /\ v.bilion = u.bilion /\ v.milion = u.milion /\ v.units = Worth(p, q + 1)
  BY <1>5 DEF NumFields
<1>7. Registers(p, q + 1, b, m, r, v)
  BY <1>3, <1>4, <1>5, <1>6, AloneInt DEF Registers, Is
<1>8. Standing(p, q + 1, b, m, r, v)
  <2>1. m + 1 = 1 /\ q + 1 = 1
    BY <1>1
  <2> QED BY <1>1, <1>4, <2>1 DEF Standing, Is, Q!Blocks
<1> QED BY <1>1, <1>7, <1>8 DEF Reading

\* A search that is not over has read a code or a number.
ReadOn(p, q, r, u, v) ==
  \/ r[1] = "STOP"
  \/ r[1] = "COD" /\ v = [u EXCEPT !.iscode = TRUE]
  \/ \E b, m : Reading(p, q, b, m, r, v)

\* One word more, whatever it is.
LEMMA ReadNext ==
  ASSUME Quarters, NEW p, NEW q \in Nat, NEW b, NEW m, NEW s, NEW u, Reading(p, q, b, m, s, u),
         NEW t, t = Said(p, q + 1), NEW r \in NumStates, NEW v,
         r = Q!NumTrans(s, t), NEW w, w = p[q + 1], v = Q!NumStateActions(r, t, w, u),
         t \in Counted => Worth(p, q + 1) > 0
  PROVE  ReadOn(p, q + 1, r, u, v)
<1>1. NumEdge(s, t, r)
  <2>1. s \in NumStates
    BY DEF Reading, Standing
  <2> QED BY <2>1, NumEdges
<1>2. Worth(p, q + 1) = Q!Entry(w).value
  BY DEF Worth
<1>3. NumActs(r, t, w, u, v)
  BY NumActions
<1>4. CASE Is(r, "STOP", "-")
  BY <1>4 DEF Is, ReadOn
<1>5. CASE /\ s[1] \in Q!Blocks /\ r[1] = s[1] /\ r[2] \in Q!Amounts /\ t \in Counted
           /\ IF r[2] \in {"2", "3", "u"} THEN s[2] \in {"1", "2", "4"} ELSE s[2] \in {"5", "6", "8"}
  <2>1. v = [u EXCEPT !.units = @ + Worth(p, q + 1)]
    BY <1>2, <1>5, <1>3 DEF NumActs
  <2>2. Reading(p, q + 1, b, m, r, v)
    BY <1>5, <2>1, ReadCounted
  <2> QED BY <2>2 DEF ReadOn
<1>6. CASE s[1] \in Q!Blocks /\ r[1] = s[1] /\ r[2] = "5" /\ t = "TK_mil" /\ s[2] \in {"1", "2", "3", "u"}
  <2>1. v = [u EXCEPT !.units = Q!Thousands(@) * Q!power[t]]
    BY <1>6, <1>3 DEF NumActs
  <2>2. Reading(p, q + 1, b, m, r, v)
    BY <1>6, <2>1, ReadThousands
  <2> QED BY <2>2 DEF ReadOn
<1>7. CASE /\ s[1] \in Q!Blocks /\ r[1] = s[1] /\ t = "TK_wy"
           /\ \/ s[2] = "3" /\ r[2] = "4"
              \/ s[2] = "7" /\ r[2] = "8"
              \/ s[2] = "1" /\ r[2] = "1a" /\ s[1] \in {"M", "S"}
  <2>1. v = u
    BY <1>7, <1>3 DEF NumActs, Q!Blocks
  <2>2. Reading(p, q + 1, b, m, r, v)
    BY <1>7, <2>1, ReadAnd
  <2> QED BY <2>2 DEF ReadOn
<1>8. CASE s[1] \in Q!Blocks /\ s[2] = "1a" /\ t \in Q!Half /\ r[1] = s[1] /\ r[2] = "1b"
  <2>1. s[1] \in {"M", "S"}
    <3>1. s[1] = "B" => m = 0 /\ m > 0
      BY <1>8 DEF Reading, Standing, Q!Blocks
    <3> QED BY <1>8, <3>1 DEF Q!Blocks
  <2>2. /\ s[1] = "M" => v = [u EXCEPT !.bilion = @ + Worth(p, q + 1)]
        /\ s[1] = "S" => v = [u EXCEPT !.milion = @ + Worth(p, q + 1)]
    BY <1>2, <1>8, <1>3 DEF NumActs, Is
  <2>3. Reading(p, q + 1, b, m, r, v)
    BY <1>8, <2>1, <2>2, ReadHalf
  <2> QED BY <2>3 DEF ReadOn
<1>9. CASE ((s[1] = "B" /\ s[2] \in Q!Complete) \/ Is(s, "X", "4")) /\ t = "TK_bill" /\ Is(r, "M", "1")
  <2>1. v = [u EXCEPT !.bilion = u.units, !.units = 0]
    BY <1>9, <1>3 DEF NumActs
  <2>2. Reading(p, q + 1, q + 1, q + 1, r, v)
    BY <1>9, <2>1, ReadBill
  <2> QED BY <2>2 DEF ReadOn
<1>10. CASE ((s[1] \in {"B", "M"} /\ s[2] \in Q!Complete) \/ Is(s, "X", "4")) /\ t = "TK_mill" /\ Is(r, "S", "1")
  <2>1. v = [u EXCEPT !.milion = u.units, !.units = 0]
    BY <1>10, <1>3 DEF NumActs
  <2>2. Reading(p, q + 1, b, q + 1, r, v)
    BY <1>10, <2>1, ReadMill
  <2> QED BY <2>2 DEF ReadOn
<1>11. CASE Is(r, "COD", "-")
  BY <1>11, <1>3 DEF ReadOn, NumActs, Is
<1>12. CASE t \in Q!Collective /\ ((Is(s, "B", "u") /\ Is(r, "X", "1")) \/ (Is(s, "X", "4") /\ Is(r, "X", "5")))
  <2>1. Is(r, "X", "1") => v = [u EXCEPT !.units = @ * Q!power[t], !.block = t]
    BY <1>3 DEF NumActs
  <2>2. Is(r, "X", "5") => v = [u EXCEPT !.units = @ * Q!power[t]]
    BY <1>3 DEF NumActs
  <2>3. DOMAIN u = NumFields
    BY DEF Reading, Registers
  <2>4. /\ DOMAIN v = NumFields /\ v.bilion = u.bilion /\ v.milion = u.milion
        /\ v.units = u.units * Q!power[t]
        /\ Is(r, "X", "1") => v.block = t
    BY <1>12, <2>1, <2>2, <2>3 DEF NumFields
  <2>5. Reading(p, q + 1, b, m, r, v)
    BY <1>12, <2>4, ReadCollective
  <2> QED BY <2>5 DEF ReadOn
<1>13. CASE \/ Is(s, "X", "1") /\ t = "TK_wy" /\ Is(r, "X", "2")
            \/ Is(s, "X", "2") /\ t \in Q!Half /\ Is(r, "X", "3")
  <2>1. /\ Is(r, "X", "2") => v = u
        /\ Is(r, "X", "3") => v = [u EXCEPT !.units = @ + Worth(p, q + 1) * Q!power[u.block]]
    BY <1>2, <1>3 DEF NumActs
  <2>2. Reading(p, q + 1, b, m, r, v)
    BY <1>13, <2>1, ReadPart
  <2> QED BY <2>2 DEF ReadOn
<1>14. CASE Is(s, "B", "1") /\ t = "TK_wmedio" /\ Is(r, "X", "4")
  <2>1. v = [u EXCEPT !.units = Worth(p, q + 1)]
    BY <1>2, <1>14, <1>3 DEF NumActs
  <2>2. Reading(p, q + 1, b, m, r, v)
    BY <1>14, <2>1, ReadFirst
  <2> QED BY <2>2 DEF ReadOn
<1> QED BY <1>1, <1>4, <1>5, <1>6, <1>7, <1>8, <1>9, <1>10, <1>11, <1>12, <1>13, <1>14 DEF NumEdge

\* Only the words read matter.
LEMMA ReadingSame ==
  ASSUME Quarters, NEW P, NEW p, NEW q \in Nat, NEW b, NEW m, NEW s, NEW u, Reading(P, q, b, m, s, u),
         \A k \in 1..q : p[k] = P[k]
  PROVE  Reading(p, q, b, m, s, u)
<1>1. b \in 0..q /\ m \in b..q
  BY DEF Reading, Cut
<1>2. \A k \in 1..q : Said(p, k) = Said(P, k) /\ Worth(p, k) = Worth(P, k)
  BY DEF Said, Worth
<1>3. PICK x \in Nat \ {0}, y \in Nat \ {0} : x = b + 1 /\ y = m + 1
  BY <1>1
<1>4. Amount(p, 1, b) = Amount(P, 1, b) /\ Amount(p, x, m) = Amount(P, x, m) /\ Amount(p, y, q) = Amount(P, y, q)
  <2>1. ASSUME NEW f \in Nat \ {0}, NEW l \in Nat, l <= q PROVE Amount(p, f, l) = Amount(P, f, l)
    <3>1. \A k \in f..l : p[k] = P[k]
      BY <2>1
    <3> QED BY <3>1, AmountSame
  <2> QED BY <1>1, <2>1
<1>5. Powers(p, y, q) = Powers(P, y, q) /\ (q = 1 => Powers(p, 1, q) = Powers(P, 1, q))
  <2>1. \A k \in y..q : k \in 1..q
    BY <1>3
  <2> QED BY <1>2, <2>1 DEF Powers
<1>6. Cut(p, q, b, m)
  BY <1>2 DEF Reading, Cut
<1>7. /\ Is(s, "M", "1b") \/ Is(s, "S", "1b") => q > 1
      /\ Is(s, "X", "1") \/ Is(s, "X", "2") \/ Is(s, "X", "3") \/ Is(s, "X", "5") => q > 0
  BY <1>1 DEF Reading, Standing, Is, Q!Blocks
<1>8. Registers(p, q, b, m, s, u)
  <2>1. Is(s, "M", "1b") \/ Is(s, "S", "1b") \/ Is(s, "X", "3") => Worth(p, q) = Worth(P, q)
    BY <1>2, <1>7
  <2> QED BY <1>3, <1>4, <2>1 DEF Reading, Registers
<1>9. Standing(p, q, b, m, s, u)
  <2>1. q > 0 => Said(p, q) = Said(P, q)
    BY <1>2
  <2>2. q > 1 => Said(p, q - 1) = Said(P, q - 1)
    BY <1>2
  <2>3. q > 2 => Said(p, q - 2) = Said(P, q - 2)
    BY <1>2
  <2>4. q = m + 2 => Said(p, m + 1) = Said(P, m + 1)
    BY <1>1, <1>2
  <2>5. Standing(P, q, b, m, s, u)
    BY DEF Reading
  <2>6. \/ q > 0
        \/ s[1] \notin Q!Blocks \/ s[2] \notin Q!Complete \cup {"4", "8", "1a", "1b"}
    BY <1>1, <2>5 DEF Standing
  <2> QED BY <1>1, <1>3, <1>5, <1>7, <2>1, <2>2, <2>3, <2>4, <2>5, <2>6 DEF Standing, Is
<1> QED BY <1>6, <1>8, <1>9 DEF Reading

\* Where the words of the cuts are found.
LEMMA WhereCut ==
  ASSUME NEW p, NEW q \in Nat, NEW b, NEW m, Cut(p, q, b, m), DOMAIN p = 1..q
  PROVE  Where(p, "TK_bill", 0) = b /\ Where(p, "TK_mill", b) = m
<1>1. /\ b \in 0..q /\ m \in b..q
      /\ \A k \in 1..q : /\ Said(p, k) = "TK_bill" <=> k = b
                         /\ Said(p, k) = "TK_mill" <=> k = m /\ m > b
  BY DEF Cut
<1>2. ASSUME NEW k \in 1..q PROVE Min({k}) = k
  BY LeastIs
<1>3. Where(p, "TK_bill", 0) = b
  <2>1. PICK found : found = {k \in DOMAIN p : Said(p, k) = "TK_bill"}
    OBVIOUS
  <2>2. IF b = 0 THEN found = {} ELSE found = {b} /\ b \in 1..q
    BY <1>1, <2>1
  <2> QED BY <1>2, <2>1, <2>2 DEF Where
<1>4. Where(p, "TK_mill", b) = m
  <2>1. PICK found : found = {k \in DOMAIN p : Said(p, k) = "TK_mill"}
    OBVIOUS
  <2>2. IF m = b THEN found = {} ELSE found = {m} /\ m \in 1..q
    BY <1>1, <2>1
  <2> QED BY <1>2, <2>1, <2>2 DEF Where
<1> QED BY <1>3, <1>4

\* A state that a number may end in.
LEMMA FinalIs ==
  ASSUME NEW s, s \in Q!NumFinal
  PROVE  \/ s[1] \in Q!Blocks /\ s[2] \in Q!Complete \cup {"1", "1b"}
         \/ s[1] = "X" /\ s[2] \in {"1", "3", "5"}
         \/ s[1] = "COD"
<1>1. \/ s \in Q!Blocks \X Q!Complete
      \/ s \in {"M", "S"} \X {"1", "1b"}
      \/ s \in {"X"} \X {"1", "3", "5"}
      \/ s \in {"COD"} \X {"-"}
  BY DEF Q!NumFinal
<1> QED BY <1>1 DEF Q!Blocks

\* In such a state the registers are what the words say.
LEMMA FinalSays ==
  ASSUME Quarters, NEW p, NEW q \in Nat, NEW b, NEW m, NEW s, NEW u, Reading(p, q, b, m, s, u),
         s \in Q!NumFinal, DOMAIN p = 1..q, Len(p) = q
  PROVE  NumberSaid(p) = Q!NumValue(u)
<1>1. b \in 0..q /\ m \in b..q /\ Where(p, "TK_bill", 0) = b /\ Where(p, "TK_mill", b) = m
  BY WhereCut DEF Reading, Cut
<1>2. /\ b > 0 => Said(p, b) = "TK_bill"
      /\ m > b => Said(p, m) = "TK_mill"
  BY <1>1 DEF Reading, Cut
<1>3. \/ s[1] \in Q!Blocks /\ s[2] \in Q!Complete \cup {"1", "1b"}
      \/ s[1] = "X" /\ s[2] \in {"1", "3", "5"}
  <2>1. s[1] # "COD"
    BY DEF Reading, Standing, Q!Blocks
  <2> QED BY <2>1, FinalIs
<1>4. Standing(p, q, b, m, s, u) /\ Registers(p, q, b, m, s, u)
  BY DEF Reading
<1>5. "TK_bill" \notin Q!Half /\ "TK_mill" \notin Q!Half /\ "TK_mill" # "TK_wy" /\ Q!Half \cap Q!Collective = {}
  BY DEF Q!Half, Q!Collective
<1>6. q > 0 /\ Said(p, q) \in Q!Half => q > m /\ (Is(s, "M", "1b") \/ Is(s, "S", "1b") \/ Is(s, "X", "3"))
  <2>1. CASE s[1] \in Q!Blocks
    <3>1. s[1] = "B" => m = 0 /\ s[2] # "1b"
      BY <1>1, <1>4, <2>1 DEF Standing, Q!Blocks
    <3>2. s[2] = "1" => q = m
      BY <1>4, <2>1 DEF Standing
    <3>3. m > 0 => Said(p, m) \in {"TK_bill", "TK_mill"}
      BY <1>1, <1>2
    <3>4. s[2] \in Q!Complete => Said(p, q) \notin Q!Half
      BY <1>4, <2>1 DEF Standing
    <3>5. s[2] = "1b" => q = m + 2
      BY <1>4, <2>1 DEF Standing
    <3> QED BY <1>1, <1>3, <1>5, <2>1, <3>1, <3>2, <3>3, <3>4, <3>5 DEF Is, Q!Blocks
  <2>2. CASE s[1] = "X"
    BY <1>1, <1>3, <1>4, <1>5, <2>2 DEF Standing, Is
  <2> QED BY <1>3, <2>1, <2>2
<1>7. Added(p, b) = IF Is(s, "M", "1b") THEN Worth(p, q) ELSE 0
  <2>1. CASE Is(s, "M", "1b")
    <3>1. q = m + 2 /\ m = b /\ b > 0 /\ Said(p, m + 1) = "TK_wy" /\ Said(p, q) \in Q!Half
      BY <1>4, <2>1 DEF Standing, Is, Q!Blocks
    <3> QED BY <2>1, <3>1 DEF Added
  <2>2. CASE ~Is(s, "M", "1b")
    <3> SUFFICES ASSUME b > 0, q = b + 2, Said(p, b + 1) = "TK_wy", Said(p, b + 2) \in Q!Half PROVE FALSE
      BY <2>2 DEF Added
    <3>1. q > m /\ (Is(s, "S", "1b") \/ Is(s, "X", "3"))
      <4>1. q > 0 /\ Said(p, q) \in Q!Half
        BY <1>1
      <4> QED BY <1>6, <2>2, <4>1
    <3>2. s[1] = "S" => m > b
      BY <1>4 DEF Standing
    <3>3. s[1] = "X" => m = 0
      BY <1>4 DEF Standing
    <3>4. m > b /\ m = b + 1
      BY <1>1, <3>1, <3>2, <3>3 DEF Is
    <3> QED BY <1>2, <1>5, <3>4
  <2> QED BY <2>1, <2>2
<1>8. (IF m > b THEN Added(p, m) ELSE 0) = IF Is(s, "S", "1b") THEN Worth(p, q) ELSE 0
  <2>1. CASE Is(s, "S", "1b")
    <3>1. q = m + 2 /\ m > b /\ m > 0 /\ Said(p, m + 1) = "TK_wy" /\ Said(p, q) \in Q!Half
      BY <1>4, <2>1 DEF Standing, Is, Q!Blocks
    <3> QED BY <2>1, <3>1 DEF Added
  <2>2. CASE ~Is(s, "S", "1b")
    <3> SUFFICES ASSUME m > b, q = m + 2, Said(p, m + 2) \in Q!Half PROVE FALSE
      BY <2>2 DEF Added
    <3>1. Is(s, "M", "1b") \/ Is(s, "X", "3")
      BY <1>1, <1>6, <2>2
    <3> QED BY <1>1, <1>4, <3>1 DEF Standing, Is
  <2> QED BY <2>1, <2>2
<1>9. AmountBetween(p, 1, b) = Amount(p, 1, b) + 0
  <2>1. 1 <= b - 2 => Added(p, b - 2) = 0
    BY <1>1, <1>2, <1>5 DEF Added
  <2> QED BY <1>1, <2>1 DEF AmountBetween, Q!power
<1>10. AmountBetween(p, b + 1, m) = Amount(p, b + 1, m) + 0
  <2>1. b + 1 <= m - 2 => Added(p, m - 2) = 0
    BY <1>1, <1>2, <1>5 DEF Added
  <2> QED BY <1>1, <2>1 DEF AmountBetween, Q!power
<1>11. AmountBetween(p, m + 1, q) = Amount(p, m + 1, q) + IF Is(s, "X", "3") THEN Worth(p, q) * Q!power[u.block] ELSE 0
  <2>1. CASE Is(s, "X", "3")
    <3>1. /\ q > 2 /\ m = 0 /\ u.block = Said(p, q - 2) /\ u.block \in Q!Collective
          /\ Said(p, q - 1) = "TK_wy" /\ Said(p, q) \in Q!Half
      BY <1>4, <2>1 DEF Standing, Is
    <3>2. u.block \in DOMAIN Q!power
      BY <3>1 DEF Q!Collective, Q!power
    <3>3. Added(p, q - 2) = Worth(p, q)
      <4>1. q - 2 + 2 = q /\ q - 2 + 1 = q - 1
        OBVIOUS
      <4> QED BY <3>1, <4>1 DEF Added
    <3>4. m + 1 <= q - 2
      BY <3>1
    <3> QED BY <2>1, <3>1, <3>2, <3>3, <3>4 DEF AmountBetween
  <2>2. CASE ~Is(s, "X", "3")
    <3>1. m + 1 <= q - 2 => Added(p, q - 2) = 0
      <4> SUFFICES ASSUME m + 1 <= q - 2, Said(p, q - 2 + 2) \in Q!Half PROVE FALSE
        BY DEF Added
      <4>1. q > 0 /\ q - 2 + 2 = q
        BY <1>1
      <4>2. Is(s, "M", "1b") \/ Is(s, "S", "1b")
        BY <1>6, <2>2, <4>1
      <4>3. q = m + 2
        BY <1>4, <4>2 DEF Standing, Is, Q!Blocks
      <4> QED BY <1>1, <4>3
    <3> QED BY <1>1, <2>2, <3>1 DEF AmountBetween, Q!power
  <2> QED BY <2>1, <2>2
<1>12. PICK x \in Nat \ {0}, y \in Nat \ {0} : x = b + 1 /\ y = m + 1
  BY <1>1
<1>13. Amount(p, 1, b) \in Int /\ Amount(p, x, m) \in Int /\ Amount(p, y, q) \in Int
  BY <1>1, AmountInt
<1>14. /\ AmountBetween(p, 1, b) + Added(p, b) = u.bilion
       /\ AmountBetween(p, b + 1, m) + (IF m > b THEN Added(p, m) ELSE 0) = u.milion
       /\ AmountBetween(p, m + 1, q) = u.units
  BY <1>4, <1>7, <1>8, <1>9, <1>10, <1>11, <1>12, <1>13, AloneInt DEF Registers
<1>15. NumberSaid(p) = [bilion |-> u.bilion, milion |-> u.milion, units |-> u.units]
  BY <1>1, <1>14 DEF NumberSaid
<1> QED BY <1>15 DEF Q!NumValue

-----------------------------------------------------------------------------
\* The words from where the search starts.
Ahead == [k \in 1..(Size - i + 1) |-> se[i + k - 1].word]

\* None of the first q words counts nothing.
Counts(p, q) == \A k \in 1..q : Said(p, k) \in Counted => Worth(p, k) > 0

\* What a search of numbers has read, and that what it has matched is what its
\* registers still hold.
NumScan ==
  /\ state \in NumStates
  /\ Is(state, "B", "1") => eMatch = 0
  /\ Counts(Ahead, j - i) => \/ state[1] \in {"STOP", "COD"}
                             \/ \E b, m : Reading(Ahead, j - i, b, m, state, st)
  /\ eMatch # 0 => \/ st.iscode = TRUE
                   \/ Counts(Ahead, eMatch - i + 1) => NumberSaid(Words) = Q!NumValue(st)

\* The tables of numbers, as the automaton sees them.
LEMMA NumbersIs ==
  ASSUME AsMaco
  PROVE  /\ initialState("numbers") = <<"B", "1">> /\ stopState("numbers") = <<"STOP", "-">>
         /\ Final("numbers") = Q!NumFinal /\ Fresh("numbers") = Q!NumFresh
         /\ \A s, t : trans("numbers", s, t) = Q!NumTrans(s, t)
         /\ \A s, k, e, u : ComputeToken("numbers", s, k, e, u) = Q!Entry(e[k].word).num
         /\ \A o, s, t, k, e, u :
              StateActions("numbers", o, s, t, k, e, u) = Q!NumStateActions(s, t, e[k].word, u)
  BY DEF AsMaco, InitialStateOf, StopStateOf, FinalOf, FreshOf, TransOf, TokenOf, StatusAfter,
         Q!NumInitialState, Q!NumStopState, Q!NumComputeToken

\* A state that is not final leaves the registers as they are, but for the first.
LEMMA NotFinal ==
  ASSUME NEW s \in NumStates, NEW t, NEW r, r = Q!NumTrans(s, t), r \notin Q!NumFinal,
         NEW w, NEW u, NEW v, v = Q!NumStateActions(r, t, w, u), ~Is(s, "B", "1")
  PROVE  v = u
<1>1. r \in NumStates /\ NumEdge(s, t, r)
  BY NumEdges
<1>2. NumActs(r, t, w, u, v)
  BY <1>1, NumActions
<1>3. r = <<r[1], r[2]>>
  BY <1>1, PairIs
<1>4. /\ ~(r[1] \in Q!Blocks /\ r[2] \in Q!Complete)
      /\ ~(r[1] \in {"M", "S"} /\ r[2] \in {"1", "1b"})
      /\ ~(r[1] = "X" /\ r[2] \in {"1", "3", "5"})
      /\ ~(r[1] = "COD" /\ r[2] = "-")
  <2>1. r[1] \in Q!Blocks /\ r[2] \in Q!Complete => r \in Q!NumFinal
    BY <1>3 DEF Q!NumFinal
  <2>2. r[1] \in {"M", "S"} /\ r[2] \in {"1", "1b"} => r \in Q!NumFinal
    BY <1>3 DEF Q!NumFinal
  <2>3. r[1] = "X" /\ r[2] \in {"1", "3", "5"} => r \in Q!NumFinal
    BY <1>3 DEF Q!NumFinal
  <2>4. r[1] = "COD" /\ r[2] = "-" => r \in Q!NumFinal
    BY <1>3 DEF Q!NumFinal
  <2> QED BY <2>1, <2>2, <2>3, <2>4
<1>5. \/ r[1] = "STOP" \/ (r[2] \in {"4", "8", "1a"} /\ r[1] # "X") \/ Is(r, "X", "2") \/ Is(r, "B", "1b")
  BY <1>1, <1>4 DEF NumEdge, Is, Q!Blocks, Q!Complete
<1> QED BY <1>2, <1>5 DEF NumActs

\* A turn of the loop reads one word more.
LEMMA NumScanStep ==
  ASSUME AsMaco, Quarters, Sequence, Inside, Self = "numbers", NumScan, Scan
  PROVE  NumScan'
<1>1. /\ at = "scan" /\ state # <<"STOP", "-">> /\ j \in i..Size /\ i \in Nat \ {0} /\ Size \in Nat
      /\ se' = se /\ i' = i /\ j' = j + 1 /\ eMatch \in Nat /\ eMatch < j
  <2>1. at = "scan" /\ state # stopState("numbers") /\ ~(j > Len(se)) /\ se' = se /\ i' = i /\ j' = j + 1
    BY DEF Scan, Stopped
  <2> QED BY <2>1, NumbersIs DEF Size, Sequence, Inside
<1>2. PICK P, q : P = Ahead /\ q = j - i /\ q \in Nat
  BY <1>1
<1>3. PICK w : w = se[j].word
  OBVIOUS
<1>4. PICK t : t = Q!Entry(w).num
  OBVIOUS
<1>5. PICK r : r = Q!NumTrans(state, t)
  OBVIOUS
<1>6. PICK v : v = Q!NumStateActions(r, t, w, st)
  OBVIOUS
<1>7. state' = r /\ st' = v /\ IF r \in Q!NumFinal THEN eMatch' = j ELSE eMatch' = eMatch
  <2>1. /\ state' = trans("numbers", state, ComputeToken("numbers", state, j, se, st))
        /\ st' = StateActions("numbers", state, state', ComputeToken("numbers", state, j, se, st), j, se, st)
        /\ IF state' \in Final("numbers") THEN eMatch' = j ELSE eMatch' = eMatch
    BY DEF Scan, Remember
  <2>2. ComputeToken("numbers", state, j, se, st) = t
    BY <1>3, <1>4, NumbersIs
  <2>3. state' = r
    BY <1>5, <2>1, <2>2, NumbersIs
  <2>4. st' = v
    BY <1>3, <1>6, <2>1, <2>2, <2>3, NumbersIs
  <2> QED BY <2>1, <2>3, <2>4, NumbersIs
<1>8. /\ P = [k \in 1..(Size - i + 1) |-> se[i + k - 1].word]
      /\ Ahead' = P /\ j' - i' = q + 1
  <2>1. Size' = Size
    BY <1>1 DEF Size
  <2> QED BY <1>1, <1>2, <2>1 DEF Ahead
<1>9. q + 1 \in 1..(Size - i + 1) /\ P[q + 1] = w /\ Said(P, q + 1) = t
  <2>1. q + 1 \in 1..(Size - i + 1) /\ i + (q + 1) - 1 = j
    BY <1>1, <1>2
  <2>2. P[q + 1] = w
    BY <1>3, <1>8, <2>1
  <2> QED BY <1>4, <2>1, <2>2 DEF Said
<1>10. r \in NumStates /\ NumEdge(state, t, r)
  BY <1>5, NumEdges DEF NumScan
<1>11. ~Is(r, "B", "1")
  BY <1>10 DEF NumEdge, Is, Q!Blocks, Q!Amounts
<1>12. ASSUME Counts(P, q + 1)
       PROVE  \/ r[1] = "STOP"
              \/ r[1] = "COD" /\ v.iscode = TRUE
              \/ \E b, m : Reading(P, q + 1, b, m, r, v)
  <2>1. Counts(P, q) /\ (t \in Counted => Worth(P, q + 1) > 0)
    BY <1>2, <1>9, <1>12 DEF Counts
  <2>2. state[1] # "STOP"
    <3>1. state = <<state[1], state[2]>>
      BY PairIs DEF NumScan
    <3>2. state[1] = "STOP" => state[2] = "-"
      BY <3>1 DEF NumScan, NumStates, Q!Blocks
    <3> QED BY <1>1, <3>1, <3>2
  <2>3. CASE state[1] = "COD"
    BY <1>10, <2>3 DEF NumEdge, Is, Q!Blocks
  <2>4. CASE state[1] # "COD"
    <3>1. PICK b, m : Reading(P, q, b, m, state, st)
      BY <1>2, <2>1, <2>2, <2>4 DEF NumScan
    <3>2. ReadOn(P, q + 1, r, st, v)
      <4>1. PICK x, y : x = t /\ y = w /\ x = Said(P, q + 1) /\ y = P[q + 1]
        BY <1>9
      <4> QED BY <1>2, <1>5, <1>6, <1>10, <2>1, <3>1, <4>1, ReadNext
    <3>3. r[1] = "COD" /\ v = [st EXCEPT !.iscode = TRUE] => v.iscode = TRUE
      <4>1. DOMAIN st = NumFields
        BY <3>1 DEF Reading, Registers
      <4> QED BY <4>1 DEF NumFields
    <3> QED BY <3>2, <3>3 DEF ReadOn
  <2> QED BY <2>3, <2>4
<1>13. ASSUME eMatch' # 0
       PROVE  \/ v.iscode = TRUE
              \/ Counts(P, eMatch' - i + 1) => NumberSaid(Words') = Q!NumValue(v)
  <2>1. CASE r \in Q!NumFinal
    <3>1. eMatch' = j /\ eMatch' - i + 1 = q + 1
      BY <1>1, <1>2, <1>7, <2>1
    <3>2. PICK p, n : p = Words' /\ n = q + 1 /\ n \in Nat
      BY <1>2
    <3>3. p = [k \in 1..n |-> se[i + k - 1].word]
      BY <1>1, <3>1, <3>2 DEF Words
    <3>4. p = [k \in 1..n |-> p[k]] /\ \A k \in 1..n : p[k] = P[k]
      <4>1. \A k \in 1..n : k \in 1..(Size - i + 1)
        BY <1>1, <1>9, <3>2
      <4>2. \A k \in 1..n : p[k] = P[k]
        BY <1>8, <3>3, <4>1
      <4> QED BY <3>3, <4>2
    <3>5. Len(p) = n /\ DOMAIN p = 1..n
      BY <3>2, <3>4, LenOf
    <3> SUFFICES ASSUME Counts(P, n), v.iscode # TRUE PROVE NumberSaid(p) = Q!NumValue(v)
      BY <3>1, <3>2
    <3>6. r[1] # "STOP"
      BY <2>1, FinalIs DEF Q!Blocks
    <3>7. PICK b, m : Reading(P, n, b, m, r, v)
      BY <1>12, <3>2, <3>6
    <3>8. Reading(p, n, b, m, r, v)
      BY <3>2, <3>4, <3>7, ReadingSame
    <3> QED BY <2>1, <3>5, <3>8, FinalSays
  <2>2. CASE r \notin Q!NumFinal
    <3>1. eMatch' = eMatch /\ eMatch # 0
      BY <1>7, <1>13, <2>2
    <3>2. Words' = Words
      BY <1>1, <3>1 DEF Words
    <3>3. ~Is(state, "B", "1")
      BY <3>1 DEF NumScan
    <3>4. v = st
      BY <1>5, <1>6, <2>2, <3>3, NotFinal DEF NumScan
    <3> QED BY <1>2, <3>1, <3>2, <3>4 DEF NumScan
  <2> QED BY <2>1, <2>2
<1> QED BY <1>1, <1>7, <1>8, <1>10, <1>11, <1>12, <1>13 DEF NumScan

\* The lemma of a number says what its words say.
NumberRight(w) ==
  IsNumber(w) /\ "units" \in DOMAIN w.value /\ Positive(w.parts) => w.value = NumberSaid(w.parts)

\* The numbers of the sentence, and the search at work.
NumInv == /\ \A n \in 1..Size : NumberRight(se[n].word)
          /\ at = "scan" /\ Self = "numbers" => NumScan

\* What is matched is a code, that numbers nothing.
IsCode(u) == u.iscode = TRUE

\* Only numbers make words whose value has units.
LEMMA UnitsOfNumbers ==
  ASSUME NEW c \in {"numbers", "dates", "locutions", "np"}, NEW p, NEW s, NEW u, NEW w, w = NewWord(c, p, s, u)
  PROVE  /\ c # "numbers" => "units" \notin DOMAIN w.value
         /\ c = "numbers" => w.value = Q!NumValue(u) /\ (IsNumber(w) => ~IsCode(u))
<1>1. w.value = CASE c = "numbers" -> Q!NumValue(u) [] c = "dates" -> D!DateValue(u) [] OTHER -> NoValue
  BY DEF NewWord
<1>2. "units" \notin DOMAIN NoValue
  BY DEF NoValue
<1>3. "units" \notin DOMAIN D!DateValue(u)
  BY DEF D!DateValue
<1>4. ASSUME c = "numbers", IsNumber(w) PROVE ~IsCode(u)
  <2>1. w.analyses = Q!NumAnalyses(s, u)
    BY <1>4 DEF NewWord, AnalysesOf
  <2>2. PICK l, g : w.analyses = <<[lemma |-> l, tag |-> g]>> /\ l = IF u.iscode THEN "<code>" ELSE "<number>"
    BY <2>1 DEF Q!NumAnalyses
  <2>3. Range(w.analyses) = {[lemma |-> l, tag |-> g]}
    BY <2>2 DEF Range
  <2>4. l = "<number>"
    BY <1>4, <2>3 DEF IsNumber
  <2> QED BY <2>2, <2>4 DEF IsCode
<1> QED BY <1>1, <1>2, <1>3, <1>4

\* A match of numbers says what its words say.
LEMMA NumberBuilt ==
  ASSUME AsMaco, IInv, NamesInv, NumInv, Build, NEW w, w = NewWord(Self, Words, fstate, st)
  PROVE  NumberRight(w)
<1>1. at = "scan" /\ eMatch # 0 /\ Sequence /\ Inside /\ stage \in 1..4
  BY DEF Build, Found, IInv, NamesInv
<1>2. PICK c \in {"numbers", "dates", "locutions", "np"} : c = Self
  BY <1>1, SelfIs
<1>3. w.parts = Words
  BY Built
<1>4. PICK p, s, u : p = Words /\ s = fstate /\ u = st
  OBVIOUS
<1>5. /\ c # "numbers" => "units" \notin DOMAIN w.value
      /\ c = "numbers" => w.value = Q!NumValue(u) /\ (IsNumber(w) => ~IsCode(u))
  <2>1. w = NewWord(c, p, s, u)
    BY <1>2, <1>4
  <2> QED BY <2>1, UnitsOfNumbers
<1>6. CASE c = "numbers" /\ IsNumber(w) /\ Positive(w.parts)
  <2>1. NumScan
    BY <1>1, <1>2, <1>6 DEF NumInv
  <2>2. PICK n : n = eMatch - i + 1
    OBVIOUS
  <2>3. n \in 1..(Size - i + 1) /\ DOMAIN p = 1..n /\ \A k \in 1..n : p[k] = se[i + k - 1].word
    <3>1. eMatch \in i..Size /\ i \in Nat \ {0} /\ Size \in Nat
      BY <1>1, WordsMatched DEF Inside, Sequence
    <3>2. DOMAIN p = 1..n /\ \A k \in 1..n : p[k] = se[i + k - 1].word
      BY <1>1, <1>4, <2>2, WordsMatched
    <3> QED BY <2>2, <3>1, <3>2
  <2>4. Counts(Ahead, n)
    <3> SUFFICES ASSUME NEW k \in 1..n, Said(Ahead, k) \in Counted PROVE Worth(Ahead, k) > 0
      BY DEF Counts
    <3>1. k \in 1..(Size - i + 1)
      BY <1>1, <2>3 DEF Inside, Sequence
    <3>2. Ahead[k] = p[k]
      BY <2>3, <3>1 DEF Ahead
    <3>3. Said(p, k) \in Counted /\ Said(p, k) = Said(Ahead, k) /\ Worth(p, k) = Worth(Ahead, k)
      BY <3>2 DEF Said, Worth
    <3> QED BY <1>3, <1>4, <1>6, <2>3, <3>3 DEF Positive
  <2> QED BY <1>1, <1>3, <1>4, <1>5, <1>6, <2>1, <2>2, <2>4 DEF NumScan, NumberRight, IsCode
<1> QED BY <1>5, <1>6 DEF NumberRight

\* No word of the sentence received is a number.
LEMMA NumInit ==
  ASSUME Init
  PROVE  NumInv
<1>1. PICK V \in Vocabularies, n \in 1..MaxLength :
        /\ text \in [1..n -> V]
        /\ se = [k \in 1..n |-> [from |-> k, to |-> k, word |-> text[k]]]
  BY DEF Init
<1>2. n \in Nat /\ Size = n
  <2>1. n \in Nat
    OBVIOUS
  <2> QED BY <1>1, <2>1, LenOf DEF Size
<1>3. \A k \in 1..n : ~IsNumber(se[k].word)
  BY <1>1, WordsAssumption
<1> QED BY <1>2, <1>3 DEF NumInv, NumberRight, Init

\* A search that has read nothing stands at the initial state, its registers empty.
LEMMA NothingRead ==
  ASSUME Quarters, NEW p, NEW u, u = Q!NumFresh
  PROVE  Reading(p, 0, 0, 0, <<"B", "1">>, u)
<1>1. PICK s : s = <<"B", "1">>
  OBVIOUS
<1>2. s[1] = "B" /\ s[2] = "1" /\ s \in NumStates
  BY <1>1 DEF NumStates, Q!Blocks, Steps
<1>3. PICK x \in Nat \ {0}, y \in Nat : x = 1 /\ y = 0
  OBVIOUS
<1>4. Amount(p, x, y) = 0
  BY <1>3, AmountInt
<1>5. Cut(p, 0, 0, 0)
  BY DEF Cut
<1>6. Registers(p, 0, 0, 0, s, u)
  BY <1>2, <1>3, <1>4 DEF Registers, NumFields, Is, Q!NumFresh
<1>7. Standing(p, 0, 0, 0, s, u)
  <2>1. s[1] \in Q!Blocks /\ s[2] \notin Q!Complete \cup {"1a", "1b", "2", "3", "4", "8", "u"}
    BY <1>2 DEF Q!Blocks, Q!Complete, Q!Amounts
  <2> QED BY <1>2, <2>1 DEF Standing, Is
<1> QED BY <1>1, <1>5, <1>6, <1>7 DEF Reading

\* Only Build makes numbers, and only Scan moves the search.
LEMMA NumNext ==
  ASSUME AsMaco, Quarters, IInv, NamesInv, NumInv, [Next]_vars
  PROVE  NumInv'
<1>1. Sequence /\ Inside /\ i \in Nat \ {0} /\ stage \in 1..4
  BY DEF IInv, Inside, NamesInv
<1>2. ASSUME se' = se PROVE \A n \in 1..Size' : NumberRight(se'[n].word)
  BY <1>2 DEF NumInv, Size
<1>3. CASE Start
  <2>1. /\ se' = se /\ i' = i /\ j' = i /\ state' = initialState(Self) /\ st' = Fresh(Self)
        /\ Self' = Self /\ eMatch' = 0
    BY <1>3 DEF Start, Self
  <2>2. ASSUME Self = "numbers" PROVE NumScan'
    <3>1. PICK P, s, u : P = Ahead' /\ s = <<"B", "1">> /\ u = Q!NumFresh
      OBVIOUS
    <3>2. state' = s /\ st' = u /\ eMatch' = 0 /\ j' - i' = 0
      BY <1>1, <2>1, <2>2, <3>1, NumbersIs
    <3>3. Reading(P, 0, 0, 0, s, u)
      BY <3>1, NothingRead
    <3>4. s \in NumStates
      BY <3>3 DEF Reading, Standing
    <3> QED BY <3>1, <3>2, <3>3, <3>4 DEF NumScan
  <2> QED BY <1>2, <2>1, <2>2 DEF NumInv
<1>4. CASE Scan
  <2>1. at = "scan" /\ Self' = Self /\ se' = se
    BY <1>4 DEF Scan, Self
  <2>2. Self = "numbers" => NumScan'
    BY <1>1, <1>4, <2>1, NumScanStep DEF NumInv
  <2> QED BY <1>2, <2>1, <2>2 DEF NumInv
<1>5. CASE Build
  <2> DEFINE w == NewWord(Self, Words, fstate, st)
  <2>1. NumberRight(w)
    BY <1>5, NumberBuilt
  <2>2. /\ i \in 1..Size'
        /\ \A k \in 1..Size' : k < i => k \in 1..Size /\ se'[k] = se[k]
        /\ se'[i].word = w
        /\ \A k \in 1..Size' : k > i => k + (eMatch - i) \in 1..Size /\ se'[k] = se[k + (eMatch - i)]
    BY <1>1, <1>5, Merged
  <2> HIDE DEF w
  <2>3. ASSUME NEW n \in 1..Size' PROVE NumberRight(se'[n].word)
    <3>1. n < i \/ n = i \/ n > i
      BY <1>1, <2>2 DEF Sequence
    <3> QED BY <2>1, <2>2, <3>1 DEF NumInv
  <2>4. at' = "next"
    BY <1>5 DEF Build, EndSearch
  <2> QED BY <2>3, <2>4 DEF NumInv
<1>6. CASE Skip \/ Reject \/ NoMatch \/ EndModule
  <2>1. at' # "scan" /\ se' = se
    BY <1>6 DEF Skip, Reject, NoMatch, EndModule, EndSearch
  <2> QED BY <1>2, <2>1 DEF NumInv
<1>7. CASE UNCHANGED vars
  <2>1. se' = se /\ i' = i /\ j' = j /\ state' = state /\ eMatch' = eMatch /\ st' = st /\ at' = at /\ Self' = Self
    BY <1>7 DEF vars, Self
  <2>2. Ahead' = Ahead /\ Words' = Words
    BY <2>1 DEF Ahead, Words, Size
  <2>3. NumScan => NumScan'
    BY <2>1, <2>2 DEF NumScan
  <2> QED BY <1>2, <2>1, <2>3 DEF NumInv
<1> QED BY <1>3, <1>4, <1>5, <1>6, <1>7 DEF Next

\* Of any sentence whose words are worth whole numbers of quarters, the three
\* registers that a search sums a number up in say what the words it matched say,
\* up to "billones", up to "millones" and after, whatever words it read after its
\* last final state: no register is left from the block before, and no thousand or
\* half counts twice.
THEOREM NumbersSaid ==
  ASSUME AsMaco, Quarters
  PROVE  Spec => []NumberValue
<1>1. Init => IInv /\ NamesInv /\ NumInv
  BY InitInv, NamesInit, NumInit
<1>2. IInv /\ NamesInv /\ NumInv /\ [Next]_vars => (IInv /\ NamesInv /\ NumInv)'
  BY NextInv, NamesNext, NumNext
<1>3. IInv /\ NamesInv /\ NumInv => NumberValue
  <2>1. IInv => DOMAIN se = 1..Size
    BY DEF IInv, Sequence
  <2> QED BY <2>1 DEF NumInv, NumberRight, NumberValue
<1> QED BY <1>1, <1>2, <1>3, PTL DEF Spec
=============================================================================
