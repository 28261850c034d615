------------------------------ MODULE PrefixTree ------------------------------
(***************************************************************************)
(* The prefix tree of a database of type DB_PREFTREE (prefTree.cc).  Each  *)
(* letter of a word leads to a record, named here by the letters that lead *)
(* to it; one that ends a word is of the kind that has a value.            *)
(***************************************************************************)
EXTENDS Integers, SequencesExt

CONSTANTS Letters, Items,
          Keys,   \* words
          Data    \* what is added to them

ASSUME KeysAssumption == Keys \subseteq Seq(Letters) \ {<<>>}
ASSUME DataAssumption == Data \subseteq Seq(Items) \ {<<>>}

VARIABLE tree

NULL == <<>>

Paths(word) == {SubSeq(word, 1, n) : n \in 1..Len(word)}

\* A word is found when each letter leads on, to a record that may have a value.
find(t, word) == Paths(word) \subseteq DOMAIN t /\ t[word].isData

\* Fault: the letters after the word go with the record that gives way.
PushOver(t, word) ==
  [p \in {q \in DOMAIN t : ~IsPrefix(word, q)} \cup Paths(word) |->
    IF p = word THEN [isData |-> TRUE, value |-> NULL]
    ELSE IF p \in DOMAIN t THEN t[p] ELSE [isData |-> FALSE, value |-> NULL]]

\* push for each letter: a record that is there stays, but at the end of the word
\* it gives way to one that has a value, with the letters after it.
push(t, word) ==
  [p \in DOMAIN t \cup Paths(word) |->
    IF p = word THEN [isData |-> TRUE, value |-> NULL]
    ELSE IF p \in DOMAIN t THEN t[p] ELSE [isData |-> FALSE, value |-> NULL]]

addWord(t, word, data) ==
  LET u == IF find(t, word) THEN t ELSE push(t, word)
  IN [u EXCEPT ![word] = [isData |-> TRUE, value |-> u[word].value \o data]]

deleteWord(t, word) ==
  IF find(t, word) THEN [t EXCEPT ![word] = [isData |-> TRUE, value |-> NULL]] ELSE t

accessTree(t, word) == IF find(t, word) THEN t[word].value ELSE NULL

InitTree == tree = [p \in {} |-> NULL]

AddWord    == \E word \in Keys, data \in Data : tree' = addWord(tree, word, data)
DeleteWord == \E word \in Keys : tree' = deleteWord(tree, word)

SpecTree == InitTree /\ [][AddWord \/ DeleteWord]_tree

-----------------------------------------------------------------------------
\* The words of the tree, and what is kept for them.
Entries  == {word \in DOMAIN tree : tree[word].value # NULL}
Contents == [word \in Entries |-> tree[word].value]

Map == INSTANCE Database WITH db <- Contents

\* A prefix tree is as good as a map: each word keeps its own data, whatever other
\* words begin with it, are added after it or go.
MapImplemented == Map!Spec
=============================================================================
