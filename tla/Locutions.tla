------------------------------ MODULE Locutions ------------------------------
(***************************************************************************)
(* The functions that locutions.cc supplies to automat<T>: the recognizer  *)
(* of the multiwords listed in a file.  A form joined with "_" is the      *)
(* sequence of its parts, so that joining is concatenation; what a part    *)
(* matches (a form, a lemma in angle brackets or a tag) is told by its     *)
(* spelling.  Of a new word's analyses the tags are kept: its lemma is     *)
(* copied from the entry or from a component and read by no module here.   *)
(* The A/I flag of an entry, which is only stored in the word, is left out.*)
(***************************************************************************)
EXTENDS SequencesExt, Integers

CONSTANTS Locut  \* the entries in the order of the map: key, a sequence of parts, and data, the
                 \* tags in order; a tag is given, or taken from component of, if one is in tags

Keys        == {e.key : e \in Range(Locut)}
KeyPrefixes == UNION {Prefixes(k) \ {k} : k \in Keys}

LocInitialState == "ST_P"
LocStopState    == "ST_STOP"
LocFinal        == {"ST_M"}
LocTrans(state, token) == CASE token = "TK_mw"   -> "ST_M"
                            [] token = "TK_pref" -> "ST_P"
                            [] OTHER             -> "ST_STOP"

\* A word has a sequence of analyses.
Tags(w) == {a.tag : a \in Range(w.analyses)}

\* What a word offers to a pattern: its form, and lemma and tag of each analysis.
Readings(w) == {w.form} \cup {<<a.lemma>> : a \in Range(w.analyses)} \cup {<<t>> : t \in Tags(w)}

\* Status: acc are the keys and prefixes the words so far spell, longest the
\* keys that the longest match so far spells.
LocFresh == [acc |-> {}, longest |-> {}]

\* Fault: each accumulated prefix is tried with the form of the word only.
FormsOnly(w, st) == IF st.acc = {} THEN Readings(w) ELSE {s \o w.form : s \in st.acc}

Spelt(w, st) == IF st.acc = {} THEN Readings(w)
                ELSE {s \o r : s \in st.acc, r \in Readings(w)}

\* check, of all patterns: a key counts as such even when it is a prefix too.
LocComputeToken(w, st) == IF Spelt(w, st) \cap Keys # {} THEN "TK_mw"
                          ELSE IF Spelt(w, st) \cap KeyPrefixes # {} THEN "TK_pref"
                          ELSE "TK_other"

\* What ComputeToken does to the status.  ValidMultiWord passes over the
\* prefixes that the code's longest_mw also holds.
Accumulate(w, st) ==
  LET keys == Spelt(w, st) \cap Keys IN
  [acc |-> Spelt(w, st) \cap (Keys \cup KeyPrefixes), longest |-> IF keys # {} THEN keys ELSE st.longest]

\* The tags an item of an entry's data gives to a multiword of these words.
TagsOf(item, words) == IF item.of = 0 THEN item.tags ELSE Tags(words[item.of]) \cap item.tags

\* The data of all entries matched, in order.
Items(st) == FlattenSeq([n \in DOMAIN Locut |-> IF Locut[n].key \in st.longest THEN Locut[n].data ELSE <<>>])

\* Each item overwrites the verdict: the last one decides.
LocValidMultiWord(words, st) == TagsOf(Last(Items(st)), words) # {}

\* The analyses of the new word.
Analyses(words, st) ==
  SetToSeq({[lemma |-> "<locution>", tag |-> t] : t \in UNION {TagsOf(m, words) : m \in Range(Items(st))}})
=============================================================================
