----------------------------- MODULE ProperNouns -----------------------------
(***************************************************************************)
(* The functions that np.cc and ner_module.cc supply to automat<T>: the    *)
(* recognizer of proper nouns.  The regular expressions on tags are the    *)
(* sets of tags they find; of a word's capitals its shape is kept.         *)
(* ner_module's own BuildMultiword takes one argument more than the        *)
(* virtual function of automat<T>, hence never runs, and with it neither   *)
(* does the splitting of names.                                            *)
(***************************************************************************)
EXTENDS SequencesExt, Integers

CONSTANTS func, punct, names, prefixes, suffixes,    \* sections of the file: forms, but tags in punct
          ignore_words, ignore_tags,                 \* functions to 1 (strict) or 0
          RE_NounAdj, RE_Closed, RE_DateNumPunct,    \* sets of tags
          NE_tag, Title_length

NpInitialState == "ST_IN"
NpStopState    == "ST_STOP"

\* Fault: a function word may end a name.
FinalFunction == {"ST_NP", "ST_SUF", "ST_FUN"}

NpFinal == {"ST_NP", "ST_SUF"}

\* Fault: a capitalized word does not continue a name.
RowMissing(state, token) ==
  CASE state = "ST_IN" /\ token \in {"TK_sUnkUpp", "TK_sNounUpp", "TK_mUpper"} -> "ST_NP"
    [] state \in {"ST_IN", "ST_PREF"} /\ token = "TK_mPref"                    -> "ST_PREF"
    [] state \in {"ST_PREF", "ST_FUN"} /\ token = "TK_mUpper"                  -> "ST_NP"
    [] state \in {"ST_NP", "ST_FUN"} /\ token = "TK_mFun"                      -> "ST_FUN"
    [] state \in {"ST_NP", "ST_SUF"} /\ token = "TK_mSuf"                      -> "ST_SUF"
    [] OTHER                                                                   -> "ST_STOP"

NpTrans(state, token) ==
  CASE state = "ST_IN" /\ token \in {"TK_sUnkUpp", "TK_sNounUpp", "TK_mUpper"} -> "ST_NP"
    [] state \in {"ST_IN", "ST_PREF"} /\ token = "TK_mPref"                    -> "ST_PREF"
    [] state \in {"ST_PREF", "ST_NP", "ST_FUN"} /\ token = "TK_mUpper"         -> "ST_NP"
    [] state \in {"ST_NP", "ST_FUN"} /\ token = "TK_mFun"                      -> "ST_FUN"
    [] state \in {"ST_NP", "ST_SUF"} /\ token = "TK_mSuf"                      -> "ST_SUF"
    [] OTHER                                                                   -> "ST_STOP"

Tags(w) == {a.tag : a \in Range(w.analyses)}
Capitalized(w) == w.shape \in {"Capital", "CAPS", "I", "A_B"}

\* First word of the sentence, or after a listed punctuation sign.
SentenceBegin(j, se) == j = 1 \/ Tags(se[j - 1].word) \cap punct # {}

\* 0: not ignorable, 1: ignored without capitalized neighbours, 2: always.
\* A listed form decides; otherwise the first analysis with a listed tag.
Ignore(w) ==
  LET listed == {n \in DOMAIN w.analyses : w.analyses[n].tag \in DOMAIN ignore_tags}
  IN IF w.form \in DOMAIN ignore_words THEN ignore_words[w.form] + 1
     ELSE IF listed # {} THEN ignore_tags[w.analyses[Min(listed)].tag] + 1
     ELSE 0

\* An ignorable word, which is not so strictly.
IgnorableToken(state, j, se) ==
  CASE state = "ST_NP" -> "TK_mUpper"
    [] state # "ST_NP" /\ j < Len(se) /\ Capitalized(se[j + 1].word) ->
         IF SentenceBegin(j, se) THEN "TK_sNounUpp" ELSE "TK_mUpper"
    [] OTHER -> "TK_other"

\* A word that begins a sentence.
BeginToken(w) ==
  CASE w.shape = "CAPS" -> "TK_sNounUpp"
    [] /\ w.shape # "CAPS" /\ ~w.locked /\ Capitalized(w) /\ w.form \notin func
       /\ ~w.mw /\ Tags(w) \cap RE_DateNumPunct = {} ->
         IF w.analyses = <<>> THEN "TK_sUnkUpp"
         ELSE IF /\ Tags(w) \cap RE_Closed = {}
                 /\ Tags(w) \cap RE_NounAdj # {} \/ w.form \in names THEN "TK_sNounUpp"
         ELSE "TK_other"
    [] OTHER -> "TK_other"

\* A word inside a sentence that is not locked.
InnerToken(w) ==
  IF Capitalized(w) /\ Tags(w) \cap RE_DateNumPunct = {} THEN "TK_mUpper"
  ELSE IF w.form \in func THEN "TK_mFun"
  ELSE IF w.form \in prefixes THEN "TK_mPref"
  ELSE IF w.form \in suffixes THEN "TK_mSuf"
  ELSE "TK_other"

NpComputeToken(state, j, se) ==
  LET w == se[j].word IN
  CASE Ignore(w) = 1 -> IgnorableToken(state, j, se)
    [] Ignore(w) = 2 -> "TK_other"
    [] Ignore(w) = 0 /\ SentenceBegin(j, se) -> BeginToken(w)
    [] Ignore(w) = 0 /\ ~SentenceBegin(j, se) /\ ~w.locked -> InnerToken(w)
    [] OTHER -> "TK_other"

\* ResetActions.
NpFresh == [initialNoun |-> FALSE]

\* Fault: the flag is set again in every state.
SetAlways(newstate, token, st) == [initialNoun |-> token = "TK_sNounUpp"]

NpStateActions(newstate, token, st) ==
  IF newstate = "ST_NP" THEN [initialNoun |-> token = "TK_sNounUpp"] ELSE st

HasLowercase(w) == w.shape \in {"lower", "Capital"}

\* Is it not a title?
NpValidMultiWord(words) ==
  Title_length > 0 /\ Len(words) >= Title_length => \E k \in DOMAIN words : HasLowercase(words[k])

\* The analyses of the new word: those of a lone noun are kept.
Analyses(words, st) ==
  Append(IF st.initialNoun /\ Len(words) = 1 THEN words[1].analyses ELSE <<>>,
         [lemma |-> "<name>", tag |-> NE_tag])
=============================================================================
