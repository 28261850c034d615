--------------------------- MODULE DictionaryProofs ---------------------------
(***************************************************************************)
(* For any set of words, with any of them the beginnings of others, and    *)
(* any data: the prefix tree is as good as a map.  For any dictionary file *)
(* with words in lower case, any additions and removals, and either kind   *)
(* of index: the database of forms and the inverse one agree.  For any     *)
(* text the words of contractions stand in their places.                   *)
(***************************************************************************)
EXTENDS DictionarySearch, Flattening

Word      == Seq(Letters) \ {<<>>}
Record(S) == [isData : BOOLEAN, value : Seq(S)]

\* A record is reached by records for all beginnings of its word, so that whatever
\* has a value, of elements of S, is found; one that ends no word has none.
WellKept(t, S) == /\ t \in [DOMAIN t -> Record(S)]
                  /\ DOMAIN t \subseteq Word
                  /\ \A p \in DOMAIN t : Paths(p) \subseteq DOMAIN t
                  /\ \A p \in DOMAIN t : t[p].value # NULL => t[p].isData

\* A word is the last of its paths, and theirs are among its own.
LEMMA PathsOfWord ==
  ASSUME NEW word \in Word
  PROVE  /\ word \in Paths(word) /\ Paths(word) \subseteq Word
         /\ \A p \in Paths(word) : Paths(p) \subseteq Paths(word)
  <1>1. word \in Seq(Letters) /\ Len(word) \in Nat /\ Len(word) \in 1..Len(word)
    BY DEF Word
  <1>2. ASSUME NEW n \in 1..Len(word)
        PROVE  SubSeq(word, 1, n) \in Seq(Letters) /\ Len(SubSeq(word, 1, n)) = n
    <2>1. \A i \in 1..n : word[i] \in Letters
      BY <1>1
    <2> QED BY <1>1, <1>2, <2>1, SubSeqProperties
  <1>3. word = SubSeq(word, 1, Len(word))
    BY <1>1, SubSeqFull
  <1>4. word \in Paths(word)
    <2>1. \E n \in 1..Len(word) : word = SubSeq(word, 1, n)
      BY <1>1, <1>3
    <2> QED BY <2>1 DEF Paths
  <1>5. Paths(word) \subseteq Word
    BY <1>1, <1>2 DEF Paths, Word
  <1>6. ASSUME NEW p \in Paths(word) PROVE Paths(p) \subseteq Paths(word)
    <2>1. PICK n \in 1..Len(word) : p = SubSeq(word, 1, n)
      BY DEF Paths
    <2>2. Len(p) = n
      BY <1>2, <2>1
    <2>3. ASSUME NEW m \in 1..n PROVE SubSeq(p, 1, m) \in Paths(word)
      <3>1. 1 \in 1..Len(word) /\ m \in 1..(n - 1 + 1) /\ 1 \in 1..(n - 1 + 1) /\ m \in 1..Len(word)
        BY <1>1
      <3>2. SubSeq(p, 1, m) = SubSeq(word, 1 + 1 - 1, 1 + m - 1)
        BY <1>1, <2>1, <3>1, SubSeqOfSubSeq
      <3>3. SubSeq(p, 1, m) = SubSeq(word, 1, m)
        BY <3>2
      <3> QED BY <3>1, <3>3 DEF Paths
    <2> QED BY <2>2, <2>3 DEF Paths
  <1> QED BY <1>4, <1>5, <1>6

LEMMA KeyIsWord == ASSUME NEW word \in Keys PROVE word \in Word
  BY KeysAssumption DEF Word

\* A word with a value is found.
LEMMA EntryIsFound ==
  ASSUME NEW S, NEW t, WellKept(t, S), NEW word \in Word
  PROVE  /\ accessTree(t, word) = IF word \in DOMAIN t THEN t[word].value ELSE NULL
         /\ accessTree(t, word) \in Seq(S)
  <1>1. word \in Paths(word)
    BY PathsOfWord
  <1>2. NULL \in Seq(S)
    BY DEF NULL
  <1>3. word \in DOMAIN t => t[word].value \in Seq(S)
    BY DEF WellKept, Record
  <1> QED BY <1>1, <1>2, <1>3 DEF WellKept, accessTree, find

\* In u the word has a record with no value, and the others are as in t.
Grown(u, t, word, S) ==
  /\ u \in [DOMAIN u -> Record(S)] /\ DOMAIN u = DOMAIN t \cup Paths(word)
  /\ u[word].value = NULL
  /\ \A p \in DOMAIN u \ {word} :
       IF p \in DOMAIN t THEN u[p] = t[p] ELSE u[p].value = NULL /\ u[p] \in Record(S)

\* In u the word has data behind what it had in t, and the others have the same.
HasMore(u, t, word, data) ==
  \A v \in Word : accessTree(u, v) =
    IF v = word THEN accessTree(t, word) \o data ELSE accessTree(t, v)

\* In u the word has nothing, and the others what they had.
HasNone(u, t, word) ==
  \A v \in Word : accessTree(u, v) = IF v = word THEN NULL ELSE accessTree(t, v)

\* What pushing a word adds has no value, and takes none away.
LEMMA Pushed ==
  ASSUME NEW S, NEW t, WellKept(t, S), NEW word \in Word, ~find(t, word)
  PROVE  Grown(push(t, word), t, word, S)
  <1>1. NULL \in Seq(S)
    BY DEF NULL
  <1>2. word \in Paths(word)
    BY PathsOfWord
  <1> QED BY <1>1, <1>2 DEF push, WellKept, Record, Grown

\* addWord puts data behind what a word has, and leaves the others theirs.
LEMMA AddKeeps ==
  ASSUME NEW S, NEW t, WellKept(t, S), NEW word \in Word, NEW data \in Seq(S)
  PROVE  /\ WellKept(addWord(t, word, data), S)
         /\ HasMore(addWord(t, word, data), t, word, data)
  <1> DEFINE u == IF find(t, word) THEN t ELSE push(t, word)
             new == [isData |-> TRUE, value |-> u[word].value \o data]
             r == addWord(t, word, data)
  <1>1. word \in Paths(word) /\ Paths(word) \subseteq Word
        /\ \A p \in Paths(word) : Paths(p) \subseteq Paths(word)
    BY PathsOfWord
  <1>2. /\ u \in [DOMAIN u -> Record(S)] /\ DOMAIN u = DOMAIN t \cup Paths(word)
        /\ u[word].value = accessTree(t, word)
        /\ \A p \in DOMAIN u \ {word} :
             IF p \in DOMAIN t THEN u[p] = t[p] ELSE u[p].value = NULL /\ u[p] \in Record(S)
    <2>1. CASE find(t, word)
      <3>1. u = t /\ Paths(word) \subseteq DOMAIN t /\ word \in DOMAIN t
        BY <1>1, <2>1 DEF find
      <3>2. accessTree(t, word) = t[word].value
        BY <2>1 DEF accessTree
      <3> QED BY <3>1, <3>2 DEF WellKept
    <2>2. CASE ~find(t, word)
      <3>1. accessTree(t, word) = NULL
        BY <2>2 DEF accessTree
      <3>2. u = push(t, word)
        BY <2>2
      <3>3. Grown(u, t, word, S)
        BY <2>2, <3>2, Pushed
      <3> HIDE DEF u
      <3> QED BY <3>1, <3>3 DEF Grown
    <2> QED BY <2>1, <2>2
  <1>3. r = [u EXCEPT ![word] = new]
    BY DEF addWord
  <1>4. new \in Record(S) /\ new.isData /\ new.value = accessTree(t, word) \o data
    <2>1. u[word].value \in Seq(S)
      BY <1>1, <1>2 DEF Record
    <2>2. u[word].value \o data \in Seq(S)
      BY <2>1, ConcatProperties
    <2> QED BY <1>2, <2>2 DEF Record
  <1> HIDE DEF u, new, r
  <1>5. /\ r \in [DOMAIN u -> Record(S)] /\ DOMAIN r = DOMAIN u /\ r[word] = new
        /\ \A p \in DOMAIN u \ {word} : r[p] = u[p]
    BY <1>1, <1>2, <1>3, <1>4
  <1>6. WellKept(r, S)
    <2>1. r \in [DOMAIN r -> Record(S)] /\ DOMAIN r \subseteq Word
      BY <1>1, <1>2, <1>5 DEF WellKept
    <2>2. \A p \in DOMAIN r : Paths(p) \subseteq DOMAIN r
      BY <1>1, <1>2, <1>5 DEF WellKept
    <2>3. \A p \in DOMAIN r : r[p].value # NULL => r[p].isData
      BY <1>2, <1>4, <1>5 DEF WellKept
    <2> QED BY <2>1, <2>2, <2>3 DEF WellKept
  <1>7. ASSUME NEW v \in Word
        PROVE  accessTree(r, v) = IF v = word THEN accessTree(t, word) \o data ELSE accessTree(t, v)
    <2>1. /\ accessTree(r, v) = IF v \in DOMAIN r THEN r[v].value ELSE NULL
          /\ accessTree(t, v) = IF v \in DOMAIN t THEN t[v].value ELSE NULL
      BY <1>6, EntryIsFound
    <2>2. CASE v = word
      BY <1>1, <1>2, <1>4, <1>5, <2>1, <2>2
    <2>3. CASE v # word
      BY <1>1, <1>2, <1>5, <2>1, <2>3
    <2> QED BY <2>2, <2>3
  <1> QED BY <1>6, <1>7 DEF r, HasMore

\* deleteWord takes from a word what it has, and leaves the others theirs.
LEMMA DeleteKeeps ==
  ASSUME NEW S, NEW t, WellKept(t, S), NEW word \in Word
  PROVE  /\ WellKept(deleteWord(t, word), S)
         /\ HasNone(deleteWord(t, word), t, word)
  <1> DEFINE r == deleteWord(t, word)
             none == [isData |-> TRUE, value |-> NULL]
  <1>1. CASE find(t, word)
    <2>1. word \in DOMAIN t
      BY <1>1, PathsOfWord DEF find
    <2>2. r = [t EXCEPT ![word] = none]
      BY <1>1 DEF deleteWord
    <2>3. none \in Record(S) /\ none.value = NULL /\ none.isData
      BY DEF Record, NULL
    <2> HIDE DEF r, none
    <2>4. /\ r \in [DOMAIN t -> Record(S)] /\ DOMAIN r = DOMAIN t
          /\ r[word] = none /\ \A p \in DOMAIN t \ {word} : r[p] = t[p]
      BY <2>1, <2>2, <2>3 DEF WellKept
    <2>5. WellKept(r, S)
      BY <2>3, <2>4 DEF WellKept
    <2>6. ASSUME NEW v \in Word
          PROVE  accessTree(r, v) = IF v = word THEN NULL ELSE accessTree(t, v)
      <3>1. /\ accessTree(r, v) = IF v \in DOMAIN r THEN r[v].value ELSE NULL
            /\ accessTree(t, v) = IF v \in DOMAIN t THEN t[v].value ELSE NULL
        BY <2>5, EntryIsFound
      <3> QED BY <2>1, <2>3, <2>4, <3>1
    <2> QED BY <2>5, <2>6 DEF r, HasNone
  <1>2. CASE ~find(t, word)
    BY <1>2 DEF deleteWord, accessTree, HasNone
  <1> QED BY <1>1, <1>2

-----------------------------------------------------------------------------
\* What the tree holds are the words that it finds data for.
TreeHolds == /\ Entries = {w \in Word : accessTree(tree, w) # NULL}
             /\ Contents = [w \in Entries |-> accessTree(tree, w)]
             /\ DOMAIN Contents = Entries

LEMMA ContentsOfTree == WellKept(tree, Items) => TreeHolds
  <1> SUFFICES ASSUME WellKept(tree, Items) PROVE TreeHolds
    OBVIOUS
  <1>1. ASSUME NEW w \in Word
        PROVE  accessTree(tree, w) = IF w \in DOMAIN tree THEN tree[w].value ELSE NULL
    BY EntryIsFound
  <1>2. Entries = {w \in Word : accessTree(tree, w) # NULL}
    BY <1>1 DEF Entries, WellKept
  <1>3. \A w \in Entries : tree[w].value = accessTree(tree, w)
    BY <1>1, <1>2 DEF Entries
  <1> QED BY <1>2, <1>3 DEF Contents, TreeHolds

LEMMA InitialTree == InitTree => WellKept(tree, Items) /\ Map!Init
  <1> SUFFICES ASSUME InitTree PROVE WellKept(tree, Items) /\ Map!Init
    OBVIOUS
  <1>1. DOMAIN tree = {} /\ tree = [p \in {} |-> NULL]
    BY DEF InitTree
  <1>2. Entries = {}
    BY <1>1 DEF Entries
  <1>3. Contents = [k \in {} |-> <<>>]
    BY <1>2 DEF Contents
  <1> QED BY <1>1, <1>3 DEF WellKept, Map!Init

\* addWord is add_database on what the tree holds.
LEMMA AddStep ==
  ASSUME WellKept(tree, Items), NEW word \in Keys, NEW data \in Data,
         tree' = addWord(tree, word, data)
  PROVE  WellKept(tree, Items)' /\ Contents' = Map!added(Contents, word, data)
  <1>1. word \in Word /\ data \in Seq(Items) /\ data # <<>>
    BY KeyIsWord, DataAssumption
  <1>2. /\ WellKept(tree', Items)
        /\ \A v \in Word : accessTree(tree', v) =
             IF v = word THEN accessTree(tree, word) \o data ELSE accessTree(tree, v)
    <2>1. WellKept(tree, Items) /\ word \in Word /\ data \in Seq(Items)
      BY <1>1
    <2>2. /\ WellKept(addWord(tree, word, data), Items)
          /\ HasMore(addWord(tree, word, data), tree, word, data)
      BY <2>1, AddKeeps
    <2> QED BY <2>2 DEF HasMore
  <1>3. WellKept(tree, Items)'
    BY <1>2
  <1>4. accessTree(tree, word) \in Seq(Items) /\ accessTree(tree, word) \o data # <<>>
    <2>1. accessTree(tree, word) \in Seq(Items)
      BY <1>1, EntryIsFound
    <2> QED BY <1>1, <2>1, ConcatEqualIffEmpty
  <1>5. /\ Entries = {w \in Word : accessTree(tree, w) # NULL} /\ DOMAIN Contents = Entries
        /\ Contents = [w \in Entries |-> accessTree(tree, w)]
    BY ContentsOfTree DEF TreeHolds
  <1>6. /\ Entries' = {w \in Word : accessTree(tree', w) # NULL}
        /\ Contents' = [w \in Entries' |-> accessTree(tree', w)]
    <2>1. (WellKept(tree, Items) => TreeHolds)'
      BY ContentsOfTree, PTL
    <2> QED BY <1>3, <2>1 DEF TreeHolds
  <1>7. Entries' = Entries \cup {word}
    BY <1>1, <1>2, <1>4, <1>5, <1>6 DEF NULL
  <1>8. Map!access(Contents, word) = accessTree(tree, word)
    BY <1>1, <1>5 DEF Map!access, NULL
  <1>9. \A w \in Entries' : accessTree(tree', w) =
          IF w = word THEN Map!access(Contents, word) \o data ELSE Contents[w]
    BY <1>1, <1>2, <1>5, <1>7, <1>8
  <1> QED BY <1>3, <1>5, <1>6, <1>7, <1>9 DEF Map!added, Map!replaced

\* deleteWord is remove_database on what the tree holds.
LEMMA DeleteStep ==
  ASSUME WellKept(tree, Items), NEW word \in Keys, tree' = deleteWord(tree, word)
  PROVE  WellKept(tree, Items)' /\ Contents' = Map!removed(Contents, word)
  <1>1. word \in Word
    BY KeyIsWord
  <1>2. /\ WellKept(tree', Items)
        /\ \A v \in Word : accessTree(tree', v) = IF v = word THEN NULL ELSE accessTree(tree, v)
    BY <1>1, DeleteKeeps DEF HasNone
  <1>3. WellKept(tree, Items)'
    BY <1>2
  <1>4. /\ Entries = {w \in Word : accessTree(tree, w) # NULL} /\ DOMAIN Contents = Entries
        /\ Contents = [w \in Entries |-> accessTree(tree, w)]
    BY ContentsOfTree DEF TreeHolds
  <1>5. /\ Entries' = {w \in Word : accessTree(tree', w) # NULL}
        /\ Contents' = [w \in Entries' |-> accessTree(tree', w)]
    <2>1. (WellKept(tree, Items) => TreeHolds)'
      BY ContentsOfTree, PTL
    <2> QED BY <1>3, <2>1 DEF TreeHolds
  <1>6. Entries' = Entries \ {word}
    BY <1>1, <1>2, <1>4, <1>5
  <1>7. \A w \in Entries' : accessTree(tree', w) = Contents[w]
    BY <1>2, <1>4, <1>6
  <1> QED BY <1>3, <1>4, <1>5, <1>6, <1>7 DEF Map!removed

LEMMA TreeStep ==
  WellKept(tree, Items) /\ [AddWord \/ DeleteWord]_tree
    => WellKept(tree, Items)' /\ [Map!Next]_Contents
  <1> SUFFICES ASSUME WellKept(tree, Items), [AddWord \/ DeleteWord]_tree
               PROVE  WellKept(tree, Items)' /\ [Map!Next]_Contents
    OBVIOUS
  <1>1. CASE AddWord
    BY <1>1, AddStep DEF AddWord, Map!Next, Map!add_database
  <1>2. CASE DeleteWord
    BY <1>2, DeleteStep DEF DeleteWord, Map!Next, Map!remove_database
  <1>3. CASE UNCHANGED tree
    BY <1>3 DEF WellKept, Paths, Contents, Entries
  <1> QED BY <1>1, <1>2, <1>3

\* A database kept in a prefix tree (DB_PREFTREE) answers as one kept in a map (DB_MAP)
\* does: adding a word, or removing one, changes what is kept for that word alone,
\* whichever words begin it and whichever it begins.
THEOREM PrefixTreeImplementsMap == SpecTree => MapImplemented
  BY InitialTree, TreeStep, PTL DEF SpecTree, MapImplemented, Map!Spec

-----------------------------------------------------------------------------
(* What a line of the file, or an update, does to a list.                    *)

\* Sorting keeps a sequence one of its elements, as long as it was.
Alike(S, n) == {s \in Seq(S) : Len(s) = n}

LEMMA SwapAlike ==
  ASSUME NEW S, NEW l \in Nat, NEW s \in Alike(S, l), NEW n \in 1..(l - 1), NEW prefs
  PROVE  Swap(s, n, prefs) \in Alike(S, l)
  <1>1. s \in [1..l -> S] /\ n \in 1..l /\ n + 1 \in 1..l
    BY LenProperties DEF Alike
  <1> DEFINE t == [[s EXCEPT ![n] = s[n + 1]] EXCEPT ![n + 1] = s[n]]
  <1>2. t \in [1..l -> S]
    BY <1>1
  <1>3. Swap(s, n, prefs) = t \/ Swap(s, n, prefs) = s
    BY DEF Swap
  <1>4. t \in Seq(S) /\ Len(t) = l
    <2> HIDE DEF t
    <2> QED BY <1>2
  <1> QED BY <1>3, <1>4 DEF Alike

LEMMA PassAlike ==
  ASSUME NEW S, NEW l \in Nat, NEW s \in Alike(S, l), NEW m \in 1..l, NEW prefs
  PROVE  Pass(s, m, prefs) \in Alike(S, l)
  <1> DEFINE V == Alike(S, l)
             k == m - 1
             step == [p \in V \X (1..k) |-> Swap(p[1], p[2], prefs)]
             Defined(g) == g = [n \in 0..k |-> IF n = 0 THEN s ELSE Swap(g[n - 1], n, prefs)]
             f == CHOOSE g : Defined(g)
  <1>1. k \in Nat
    OBVIOUS
  <1>2. \A v \in V, n \in 1..k : Swap(v, n, prefs) \in V
    BY SwapAlike
  <1>3. step \in [V \X (1..k) -> V]
    BY <1>2
  <1>4. \A v \in V, n \in 1..k : step[<<v, n>>] = Swap(v, n, prefs)
    OBVIOUS
  <1>5. Pass(s, m, prefs) = f[k]
    BY DEF Pass
  <1>6. s \in V
    OBVIOUS
  <1> HIDE DEF step, V, k
  <1>7. PICK g : Recurs(g, V, s, k, step)
    BY <1>1, <1>3, <1>6, Recursion
  <1>8. Defined(g)
    <2>1. ASSUME NEW n \in 0..k PROVE g[n] = IF n = 0 THEN s ELSE Swap(g[n - 1], n, prefs)
      <3>1. n # 0 => n \in 1..k /\ n - 1 \in 0..k /\ g[n - 1] \in V
        BY <1>1, <1>7 DEF Recurs
      <3> QED BY <1>4, <1>7, <3>1 DEF Recurs
    <2>2. g = [n \in 0..k |-> g[n]]
      BY <1>7 DEF Recurs
    <2> QED BY <2>1, <2>2
  <1>9. Defined(f)
    BY <1>8
  <1> HIDE DEF f
  <1>10. f[0] = s /\ \A i \in 1..k : f[i] = Swap(f[i - 1], i, prefs)
    BY <1>1, <1>9
  <1>11. \A i \in 0..k : f[i] \in V
    BY <1>1, <1>2, <1>6, <1>10, Stays
  <1> QED BY <1>1, <1>5, <1>11 DEF V

LEMMA SortAlike ==
  ASSUME NEW S, NEW s \in Seq(S), NEW prefs
  PROVE  sort_list(s, prefs) \in Alike(S, Len(s))
  <1> DEFINE k == Len(s)
             V == Alike(S, k)
             next(v, n) == Pass(v, Len(s) + 1 - n, prefs)
             step == [p \in V \X (1..k) |-> next(p[1], p[2])]
             Defined(g) == g = [n \in 0..k |-> IF n = 0 THEN s ELSE next(g[n - 1], n)]
             f == CHOOSE g : Defined(g)
  <1>1. k \in Nat
    BY LenProperties
  <1>2. ASSUME NEW v \in V, NEW n \in 1..k PROVE next(v, n) \in V
    <2>1. Len(s) + 1 - n \in 1..k
      BY <1>1
    <2> QED BY <1>1, <2>1, PassAlike
  <1>3. step \in [V \X (1..k) -> V]
    <2>1. ASSUME NEW p \in V \X (1..k) PROVE next(p[1], p[2]) \in V
      <3>1. p[1] \in V /\ p[2] \in 1..k
        OBVIOUS
      <3> QED BY <1>2, <3>1
    <2> QED BY <2>1
  <1>4. \A v \in V, n \in 1..k : step[<<v, n>>] = next(v, n)
    OBVIOUS
  <1>5. sort_list(s, prefs) = f[k]
    BY DEF sort_list
  <1>6. s \in V
    BY DEF Alike
  <1> HIDE DEF step, V, k
  <1>7. PICK g : Recurs(g, V, s, k, step)
    BY <1>1, <1>3, <1>6, Recursion
  <1>8. Defined(g)
    <2>1. ASSUME NEW n \in 0..k PROVE g[n] = IF n = 0 THEN s ELSE next(g[n - 1], n)
      <3>1. n # 0 => n \in 1..k /\ n - 1 \in 0..k /\ g[n - 1] \in V
        BY <1>1, <1>7 DEF Recurs
      <3> QED BY <1>4, <1>7, <3>1 DEF Recurs
    <2>2. g = [n \in 0..k |-> g[n]]
      BY <1>7 DEF Recurs
    <2> QED BY <2>1, <2>2
  <1>9. Defined(f)
    BY <1>8
  <1> HIDE DEF f
  <1>10. f[0] = s /\ \A i \in 1..k : f[i] = next(f[i - 1], i)
    <2>1. ASSUME NEW i \in 0..k PROVE f[i] = IF i = 0 THEN s ELSE next(f[i - 1], i)
      BY <1>9
    <2>2. 0 \in 0..k /\ \A i \in 1..k : i \in 0..k /\ i # 0
      BY <1>1
    <2> QED BY <2>1, <2>2
  <1>11. \A i \in 0..k : f[i] \in V
    <2>1. ASSUME NEW i \in 1..k, f[i - 1] \in V PROVE f[i] \in V
      <3>1. f[i] = next(f[i - 1], i)
        BY <1>10
      <3>2. next(f[i - 1], i) \in V
        BY <1>2, <2>1
      <3> QED BY <3>1, <3>2
    <2> HIDE DEF Defined
    <2> QED BY <1>1, <1>6, <1>10, <2>1, Stays
  <1> QED BY <1>1, <1>5, <1>11 DEF V, k

LEMMA AppendIfType ==
  ASSUME NEW T, NEW s \in Seq(T), NEW e \in T, NEW wanted
  PROVE  AppendIf(s, e, wanted) \in Seq(T)
  BY AppendProperties DEF AppendIf

\* The lemmas of a line are those of its pairs.
LEMMA LemmasOfType ==
  ASSUME NEW P, NEW L, \A p \in P : p.lemma \in L, NEW pairs \in Seq(P)
  PROVE  LemmasOf(pairs) \in Seq(L)
  <1> DEFINE V == Seq(L)
             k == Len(pairs)
             next(v, n) == AppendIf(v, pairs[n].lemma, ~Contains(v, pairs[n].lemma))
             step == [p \in V \X (1..k) |-> next(p[1], p[2])]
             Defined(g) == g = [n \in 0..k |-> IF n = 0 THEN <<>> ELSE next(g[n - 1], n)]
             f == CHOOSE g : Defined(g)
  <1>1. k \in Nat
    BY LenProperties
  <1>2. ASSUME NEW v \in V, NEW n \in 1..k PROVE next(v, n) \in V
    <2>1. pairs[n].lemma \in L
      BY ElementOfSeq
    <2> QED BY <2>1, AppendIfType
  <1>3. step \in [V \X (1..k) -> V]
    <2>1. ASSUME NEW p \in V \X (1..k) PROVE next(p[1], p[2]) \in V
      <3>1. p[1] \in V /\ p[2] \in 1..k
        OBVIOUS
      <3> QED BY <1>2, <3>1
    <2> QED BY <2>1
  <1>4. \A v \in V, n \in 1..k : step[<<v, n>>] = next(v, n)
    OBVIOUS
  <1>5. LemmasOf(pairs) = f[k]
    BY DEF LemmasOf
  <1>6. <<>> \in V
    BY EmptySeq
  <1> HIDE DEF step, V, k
  <1>7. PICK g : Recurs(g, V, <<>>, k, step)
    BY <1>1, <1>3, <1>6, Recursion
  <1>8. Defined(g)
    <2>1. ASSUME NEW n \in 0..k PROVE g[n] = IF n = 0 THEN <<>> ELSE next(g[n - 1], n)
      <3>1. n # 0 => n \in 1..k /\ n - 1 \in 0..k /\ g[n - 1] \in V
        BY <1>1, <1>7 DEF Recurs
      <3> QED BY <1>4, <1>7, <3>1 DEF Recurs
    <2>2. g = [n \in 0..k |-> g[n]]
      BY <1>7 DEF Recurs
    <2> QED BY <2>1, <2>2
  <1>9. Defined(f)
    BY <1>8
  <1> HIDE DEF f
  <1>10. f[0] = <<>> /\ \A i \in 1..k : f[i] = next(f[i - 1], i)
    <2>1. ASSUME NEW i \in 0..k PROVE f[i] = IF i = 0 THEN <<>> ELSE next(f[i - 1], i)
      BY <1>9
    <2>2. 0 \in 0..k /\ \A i \in 1..k : i \in 0..k /\ i # 0
      BY <1>1
    <2> QED BY <2>1, <2>2
  <1>11. \A i \in 0..k : f[i] \in V
    <2>1. ASSUME NEW i \in 1..k, f[i - 1] \in V PROVE f[i] \in V
      <3>1. f[i] = next(f[i - 1], i)
        BY <1>10
      <3>2. next(f[i - 1], i) \in V
        BY <1>2, <2>1
      <3> QED BY <3>1, <3>2
    <2> HIDE DEF Defined
    <2> QED BY <1>1, <1>6, <1>10, <2>1, Stays
  <1> QED BY <1>1, <1>5, <1>11 DEF V

LEMMA TagsOfType ==
  ASSUME NEW P, NEW T, \A p \in P : p.tag \in T, NEW pairs \in Seq(P), NEW lemma
  PROVE  TagsOf(pairs, lemma) \in Seq(T)
  <1> DEFINE V == Seq(T)
             k == Len(pairs)
             next(v, n) == AppendIf(v, pairs[n].tag, pairs[n].lemma = lemma)
             step == [p \in V \X (1..k) |-> next(p[1], p[2])]
             Defined(g) == g = [n \in 0..k |-> IF n = 0 THEN <<>> ELSE next(g[n - 1], n)]
             f == CHOOSE g : Defined(g)
  <1>1. k \in Nat
    BY LenProperties
  <1>2. ASSUME NEW v \in V, NEW n \in 1..k PROVE next(v, n) \in V
    <2>1. pairs[n].tag \in T
      BY ElementOfSeq
    <2> QED BY <2>1, AppendIfType
  <1>3. step \in [V \X (1..k) -> V]
    <2>1. ASSUME NEW p \in V \X (1..k) PROVE next(p[1], p[2]) \in V
      <3>1. p[1] \in V /\ p[2] \in 1..k
        OBVIOUS
      <3> QED BY <1>2, <3>1
    <2> QED BY <2>1
  <1>4. \A v \in V, n \in 1..k : step[<<v, n>>] = next(v, n)
    OBVIOUS
  <1>5. TagsOf(pairs, lemma) = f[k]
    BY DEF TagsOf
  <1>6. <<>> \in V
    BY EmptySeq
  <1> HIDE DEF step, V, k
  <1>7. PICK g : Recurs(g, V, <<>>, k, step)
    BY <1>1, <1>3, <1>6, Recursion
  <1>8. Defined(g)
    <2>1. ASSUME NEW n \in 0..k PROVE g[n] = IF n = 0 THEN <<>> ELSE next(g[n - 1], n)
      <3>1. n # 0 => n \in 1..k /\ n - 1 \in 0..k /\ g[n - 1] \in V
        BY <1>1, <1>7 DEF Recurs
      <3> QED BY <1>4, <1>7, <3>1 DEF Recurs
    <2>2. g = [n \in 0..k |-> g[n]]
      BY <1>7 DEF Recurs
    <2> QED BY <2>1, <2>2
  <1>9. Defined(f)
    BY <1>8
  <1> HIDE DEF f
  <1>10. f[0] = <<>> /\ \A i \in 1..k : f[i] = next(f[i - 1], i)
    <2>1. ASSUME NEW i \in 0..k PROVE f[i] = IF i = 0 THEN <<>> ELSE next(f[i - 1], i)
      BY <1>9
    <2>2. 0 \in 0..k /\ \A i \in 1..k : i \in 0..k /\ i # 0
      BY <1>1
    <2> QED BY <2>1, <2>2
  <1>11. \A i \in 0..k : f[i] \in V
    <2>1. ASSUME NEW i \in 1..k, f[i - 1] \in V PROVE f[i] \in V
      <3>1. f[i] = next(f[i - 1], i)
        BY <1>10
      <3>2. next(f[i - 1], i) \in V
        BY <1>2, <2>1
      <3> QED BY <3>1, <3>2
    <2> HIDE DEF Defined
    <2> QED BY <1>1, <1>6, <1>10, <2>1, Stays
  <1> QED BY <1>1, <1>5, <1>11 DEF V

LEMMA ContainsAppend ==
  ASSUME NEW K, NEW s \in Seq(K), NEW e \in K, NEW x
  PROVE  Contains(Append(s, e), x) <=> e = x \/ Contains(s, x)
  <1>1. /\ Len(s) \in Nat /\ Len(Append(s, e)) = Len(s) + 1 /\ Append(s, e)[Len(s) + 1] = e
        /\ \A n \in 1..Len(s) : Append(s, e)[n] = s[n]
    BY LenProperties, AppendProperties
  <1> DEFINE t == Append(s, e)
  <1> HIDE DEF t
  <1>2. \A n \in 1..(Len(s) + 1) : n = Len(s) + 1 \/ n \in 1..Len(s)
    BY <1>1
  <1>3. \A n \in 1..Len(s) : n \in 1..(Len(s) + 1)
    BY <1>1
  <1>4. Len(s) + 1 \in 1..(Len(s) + 1)
    BY <1>1
  <1> QED BY <1>1, <1>2, <1>3, <1>4 DEF Contains, t

\* Without a form a list has the other forms that it had.
LEMMA WithoutIs ==
  ASSUME NEW K, NEW s \in Seq(K), NEW form
  PROVE  /\ Without(s, form) \in Seq(K)
         /\ \A x : Contains(Without(s, form), x) <=> x # form /\ Contains(s, x)
  <1> DEFINE V == Seq(K)
             k == Len(s)
             next(v, n) == AppendIf(v, s[n], s[n] # form)
             step == [p \in V \X (1..k) |-> next(p[1], p[2])]
             Defined(g) == g = [n \in 0..k |-> IF n = 0 THEN <<>> ELSE next(g[n - 1], n)]
             f == CHOOSE g : Defined(g)
  <1>1. k \in Nat
    BY LenProperties
  <1>2. ASSUME NEW v \in V, NEW n \in 1..k PROVE next(v, n) \in V
    <2>1. s[n] \in K
      BY ElementOfSeq
    <2> QED BY <2>1, AppendIfType
  <1>3. step \in [V \X (1..k) -> V]
    <2>1. ASSUME NEW p \in V \X (1..k) PROVE next(p[1], p[2]) \in V
      <3>1. p[1] \in V /\ p[2] \in 1..k
        OBVIOUS
      <3> QED BY <1>2, <3>1
    <2> QED BY <2>1
  <1>4. \A v \in V, n \in 1..k : step[<<v, n>>] = next(v, n)
    OBVIOUS
  <1>5. Without(s, form) = f[k]
    BY DEF Without
  <1>6. <<>> \in V
    BY EmptySeq
  <1> HIDE DEF step, V, k
  <1>7. PICK g : Recurs(g, V, <<>>, k, step)
    BY <1>1, <1>3, <1>6, Recursion
  <1>8. Defined(g)
    <2>1. ASSUME NEW n \in 0..k PROVE g[n] = IF n = 0 THEN <<>> ELSE next(g[n - 1], n)
      <3>1. n # 0 => n \in 1..k /\ n - 1 \in 0..k /\ g[n - 1] \in V
        BY <1>1, <1>7 DEF Recurs
      <3> QED BY <1>4, <1>7, <3>1 DEF Recurs
    <2>2. g = [n \in 0..k |-> g[n]]
      BY <1>7 DEF Recurs
    <2> QED BY <2>1, <2>2
  <1>9. Defined(f)
    BY <1>8
  <1> HIDE DEF f
  <1>10. f[0] = <<>> /\ \A i \in 1..k : f[i] = next(f[i - 1], i)
    <2>1. ASSUME NEW i \in 0..k PROVE f[i] = IF i = 0 THEN <<>> ELSE next(f[i - 1], i)
      BY <1>9
    <2>2. 0 \in 0..k /\ \A i \in 1..k : i \in 0..k /\ i # 0
      BY <1>1
    <2> QED BY <2>1, <2>2
  <1>11. \A i \in 0..k : f[i] \in V
    <2>1. ASSUME NEW i \in 1..k, f[i - 1] \in V PROVE f[i] \in V
      <3>1. f[i] = next(f[i - 1], i)
        BY <1>10
      <3>2. next(f[i - 1], i) \in V
        BY <1>2, <2>1
      <3> QED BY <3>1, <3>2
    <2> HIDE DEF Defined
    <2> QED BY <1>1, <1>6, <1>10, <2>1, Stays
  <1>12. ASSUME NEW x PROVE Contains(f[k], x) <=> x # form /\ Contains(s, x)
    <2> DEFINE Good(i) == Contains(f[i], x) <=> x # form /\ \E m \in 1..i : s[m] = x
               S == {i \in Nat : i <= k => Good(i)}
    <2>1. 0 \in S
      BY <1>10, EmptySeq DEF Contains
    <2>2. ASSUME NEW i \in Nat, i \in S PROVE i + 1 \in S
      <3> SUFFICES ASSUME i + 1 <= k PROVE Good(i + 1)
        OBVIOUS
      <3>1. i + 1 \in 1..k /\ (i + 1) - 1 = i /\ i \in 0..k /\ Good(i)
        BY <1>1, <2>2
      <3>2. f[i + 1] = AppendIf(f[i], s[i + 1], s[i + 1] # form)
        BY <1>10, <3>1
      <3>3. (\E m \in 1..(i + 1) : s[m] = x) <=> s[i + 1] = x \/ \E m \in 1..i : s[m] = x
        OBVIOUS
      <3>4. f[i] \in Seq(K) /\ s[i + 1] \in K
        BY <1>11, <3>1, ElementOfSeq DEF V, k
      <3>5. Contains(Append(f[i], s[i + 1]), x) <=> s[i + 1] = x \/ Contains(f[i], x)
        BY <3>4, ContainsAppend
      <3>6. CASE s[i + 1] = form
        BY <3>1, <3>2, <3>3, <3>6 DEF AppendIf
      <3>7. CASE s[i + 1] # form
        BY <3>1, <3>2, <3>3, <3>5, <3>7 DEF AppendIf
      <3> QED BY <3>6, <3>7
    <2> HIDE DEF S, Good
    <2>3. Nat \subseteq S
      BY <2>1, <2>2, Induct
    <2>4. Good(k)
      BY <1>1, <2>3 DEF S
    <2> QED BY <2>4 DEF Good, Contains, k
  <1> QED BY <1>1, <1>5, <1>11, <1>12 DEF V

-----------------------------------------------------------------------------
(* What is kept in a map: sequences of elements of E for some keys of K.     *)
Indexes(K, E) == UNION {[D -> Seq(E)] : D \in SUBSET K}

LEMMA IndexIs ==
  ASSUME NEW K, NEW E, NEW d
  PROVE  d \in Indexes(K, E) <=> DOMAIN d \subseteq K /\ d \in [DOMAIN d -> Seq(E)]
  BY DEF Indexes

LEMMA AccessType ==
  ASSUME NEW K, NEW E, NEW d \in Indexes(K, E), NEW key
  PROVE  DB!access(d, key) \in Seq(E)
  BY IndexIs, EmptySeq DEF DB!access

\* A key has other data, and the others what they had.
HasNow(u, d, key, data) ==
  \A k : DB!access(u, k) = IF k = key THEN data ELSE DB!access(d, k)

LEMMA ReplacedIs ==
  ASSUME NEW K, NEW E, NEW d \in Indexes(K, E), NEW key \in K, NEW data \in Seq(E)
  PROVE  /\ DB!replaced(d, key, data) \in Indexes(K, E)
         /\ HasNow(DB!replaced(d, key, data), d, key, data)
  <1> DEFINE u == DB!replaced(d, key, data)
  <1>1. DOMAIN d \subseteq K /\ d \in [DOMAIN d -> Seq(E)]
    BY IndexIs
  <1>2. u = [k \in DOMAIN d \cup {key} |-> IF k = key THEN data ELSE d[k]]
    BY DEF DB!replaced
  <1>3. u \in [DOMAIN d \cup {key} -> Seq(E)] /\ DOMAIN d \cup {key} \subseteq K
    BY <1>1, <1>2
  <1>4. u \in Indexes(K, E)
    BY <1>3 DEF Indexes
  <1>5. HasNow(u, d, key, data)
    BY <1>2 DEF HasNow, DB!access
  <1> QED BY <1>4, <1>5

LEMMA RemovedIs ==
  ASSUME NEW K, NEW E, NEW d \in Indexes(K, E), NEW key
  PROVE  DB!removed(d, key) \in Indexes(K, E) /\ HasNow(DB!removed(d, key), d, key, <<>>)
  <1> DEFINE u == DB!removed(d, key)
  <1>1. DOMAIN d \subseteq K /\ d \in [DOMAIN d -> Seq(E)]
    BY IndexIs
  <1>2. u = [k \in DOMAIN d \ {key} |-> d[k]]
    BY DEF DB!removed
  <1>3. u \in [DOMAIN d \ {key} -> Seq(E)] /\ DOMAIN d \ {key} \subseteq K
    BY <1>1, <1>2
  <1>4. u \in Indexes(K, E)
    BY <1>3 DEF Indexes
  <1>5. HasNow(u, d, key, <<>>)
    BY <1>2 DEF HasNow, DB!access
  <1> QED BY <1>4, <1>5

LEMMA AddedIs ==
  ASSUME NEW K, NEW E, NEW d \in Indexes(K, E), NEW key \in K, NEW data \in Seq(E)
  PROVE  /\ DB!added(d, key, data) \in Indexes(K, E)
         /\ HasNow(DB!added(d, key, data), d, key, DB!access(d, key) \o data)
  <1>1. DB!access(d, key) \o data \in Seq(E)
    BY AccessType, ConcatProperties
  <1> QED BY <1>1, ReplacedIs DEF DB!added

-----------------------------------------------------------------------------
(* The lemmas and tags that there are, and what is kept of them.             *)
Pairs     == Analyses \cup UNION {UNION {Range(l.pairs) : l \in Range(d.lines)} : d \in DictionaryFiles}
AllLemmas == {p.lemma : p \in Pairs}
AllTags   == {p.tag : p \in Pairs}
Item      == [lemma : AllLemmas, tags : Seq(AllTags)]
Analyzed  == [lemma : AllLemmas, tag : AllTags] \cup Analyses
InvKeys   == AllLemmas \X AllTags

\* The inverse database lists a form for a key.
Lists(inv, key, form) == Contains(DB!access(inv, key), form)

\* u lists a form for some keys more, or for none of them, and else lists what inv does.
ListsMore(u, inv, keys, form) ==
  \A k : \A f : Lists(u, k, f) <=> Lists(inv, k, f) \/ (f = form /\ k \in keys)
ListsLess(u, inv, keys, form) ==
  \A k : \A f : Lists(u, k, f) <=> Lists(inv, k, f) /\ ~(f = form /\ k \in keys)

LEMMA KeyOfType ==
  ASSUME NEW a \in Analyzed
  PROVE  KeyOf(a) \in InvKeys
  BY DEF Analyzed, InvKeys, KeyOf, AllLemmas, AllTags, Pairs

LEMMA ListedOnceMore ==
  ASSUME NEW inv \in Indexes(InvKeys, Keys), NEW key \in InvKeys, NEW form \in Keys
  PROVE  /\ DB!added(inv, key, <<form>>) \in Indexes(InvKeys, Keys)
         /\ ListsMore(DB!added(inv, key, <<form>>), inv, {key}, form)
  <1> DEFINE u == DB!added(inv, key, <<form>>)
             s == DB!access(inv, key)
  <1>1. s \in Seq(Keys) /\ <<form>> \in Seq(Keys)
    BY AccessType
  <1>2. u \in Indexes(InvKeys, Keys) /\ HasNow(u, inv, key, s \o <<form>>)
    BY <1>1, AddedIs
  <1>3. s \o <<form>> = Append(s, form)
    BY <1>1
  <1> HIDE DEF u, s
  <1>4. ASSUME NEW f PROVE Contains(s \o <<form>>, f) <=> form = f \/ Contains(s, f)
    <2>1. Contains(Append(s, form), f) <=> form = f \/ Contains(s, f)
      BY <1>1, ContainsAppend
    <2> QED BY <1>3, <2>1
  <1>5. ASSUME NEW k, NEW f PROVE Lists(u, k, f) <=> Lists(inv, k, f) \/ (f = form /\ k \in {key})
    <2>1. CASE k = key
      <3>1. DB!access(u, k) = s \o <<form>> /\ DB!access(inv, k) = s
        BY <1>2, <2>1 DEF HasNow, s
      <3> QED BY <1>4, <2>1, <3>1 DEF Lists
    <2>2. CASE k # key
      BY <1>2, <2>2 DEF HasNow, Lists
    <2> QED BY <2>1, <2>2
  <1> QED BY <1>2, <1>5 DEF ListsMore, u

LEMMA ListedNoMore ==
  ASSUME NEW inv \in Indexes(InvKeys, Keys), NEW a \in Analyzed, NEW form
  PROVE  /\ Dropped(inv, a, form) \in Indexes(InvKeys, Keys)
         /\ ListsLess(Dropped(inv, a, form), inv, {KeyOf(a)}, form)
  <1> DEFINE u == Dropped(inv, a, form)
             key == KeyOf(a)
             s == DB!access(inv, key)
             lf == Without(s, form)
  <1>1. key \in InvKeys /\ s \in Seq(Keys)
    BY AccessType, KeyOfType
  <1>2. lf \in Seq(Keys) /\ \A x : Contains(lf, x) <=> x # form /\ Contains(s, x)
    <2> HIDE DEF s
    <2> QED BY <1>1, WithoutIs
  <1>3. u = IF lf = <<>> THEN DB!removed(inv, key) ELSE DB!replaced(inv, key, lf)
    BY DEF Dropped
  <1> HIDE DEF lf, u
  <1>4. u \in Indexes(InvKeys, Keys) /\ HasNow(u, inv, key, lf)
    <2>1. CASE lf = <<>>
      BY <1>3, <2>1, RemovedIs
    <2>2. CASE lf # <<>>
      BY <1>1, <1>2, <1>3, <2>2, ReplacedIs
    <2> QED BY <2>1, <2>2
  <1> HIDE DEF s, key
  <1>5. ASSUME NEW k, NEW f PROVE Lists(u, k, f) <=> Lists(inv, k, f) /\ ~(f = form /\ k \in {key})
    <2>1. CASE k = key
      <3>1. DB!access(u, k) = lf /\ DB!access(inv, k) = s
        BY <1>4, <2>1 DEF HasNow, s
      <3> QED BY <1>2, <2>1, <3>1 DEF Lists
    <2>2. CASE k # key
      BY <1>4, <2>2 DEF HasNow, Lists
    <2> QED BY <2>1, <2>2
  <1> QED BY <1>4, <1>5 DEF ListsLess, u, key

\* The keys of some analyses.
KeysOf(analyses) == {KeyOf(a) : a \in Range(analyses)}

LEMMA KeysUpto ==
  ASSUME NEW A, NEW s \in Seq(A), NEW i \in Nat, i + 1 <= Len(s)
  PROVE  {KeyOf(s[m]) : m \in 1..(i + 1)} = {KeyOf(s[m]) : m \in 1..i} \cup {KeyOf(s[i + 1])}
  <1>1. 1..(i + 1) = 1..i \cup {i + 1}
    OBVIOUS
  <1> QED BY <1>1

\* What is added to the lists is the form, for each analysis.
LEMMA FormsAdded ==
  ASSUME inverdb \in Indexes(InvKeys, Keys), dict.inverse, NEW analyses \in Seq(Analyzed),
         NEW form \in Keys
  PROVE  /\ AddToForms(analyses, form) \in Indexes(InvKeys, Keys)
         /\ ListsMore(AddToForms(analyses, form), inverdb, KeysOf(analyses), form)
  <1> DEFINE V == Indexes(InvKeys, Keys)
             k == Len(analyses)
             next(v, n) == DB!added(v, KeyOf(analyses[n]), <<form>>)
             step == [p \in V \X (1..k) |-> next(p[1], p[2])]
             Defined(g) == g = [n \in 0..k |-> IF n = 0 THEN inverdb ELSE next(g[n - 1], n)]
             f == CHOOSE g : Defined(g)
  <1>1. k \in Nat
    BY LenProperties
  <1>2. ASSUME NEW v \in V, NEW n \in 1..k PROVE next(v, n) \in V
    <2>1. analyses[n] \in Analyzed
      BY ElementOfSeq
    <2> QED BY <2>1, KeyOfType, ListedOnceMore
  <1>3. step \in [V \X (1..k) -> V]
    <2>1. ASSUME NEW p \in V \X (1..k) PROVE next(p[1], p[2]) \in V
      <3>1. p[1] \in V /\ p[2] \in 1..k
        OBVIOUS
      <3> QED BY <1>2, <3>1
    <2> QED BY <2>1
  <1>4. \A v \in V, n \in 1..k : step[<<v, n>>] = next(v, n)
    OBVIOUS
  <1>5. AddToForms(analyses, form) = f[k]
    BY DEF AddToForms
  <1>6. inverdb \in V
    OBVIOUS
  <1> HIDE DEF step, V, k
  <1>7. PICK g : Recurs(g, V, inverdb, k, step)
    BY <1>1, <1>3, <1>6, Recursion
  <1>8. Defined(g)
    <2>1. ASSUME NEW n \in 0..k PROVE g[n] = IF n = 0 THEN inverdb ELSE next(g[n - 1], n)
      <3>1. n # 0 => n \in 1..k /\ n - 1 \in 0..k /\ g[n - 1] \in V
        BY <1>1, <1>7 DEF Recurs
      <3> QED BY <1>4, <1>7, <3>1 DEF Recurs
    <2>2. g = [n \in 0..k |-> g[n]]
      BY <1>7 DEF Recurs
    <2> QED BY <2>1, <2>2
  <1>9. Defined(f)
    BY <1>8
  <1> HIDE DEF f
  <1>10. f[0] = inverdb /\ \A i \in 1..k : f[i] = next(f[i - 1], i)
    <2>1. ASSUME NEW i \in 0..k PROVE f[i] = IF i = 0 THEN inverdb ELSE next(f[i - 1], i)
      BY <1>9
    <2>2. 0 \in 0..k /\ \A i \in 1..k : i \in 0..k /\ i # 0
      BY <1>1
    <2> QED BY <2>1, <2>2
  <1>11. \A i \in 0..k : f[i] \in V
    <2>1. ASSUME NEW i \in 1..k, f[i - 1] \in V PROVE f[i] \in V
      <3>1. f[i] = next(f[i - 1], i)
        BY <1>10
      <3>2. next(f[i - 1], i) \in V
        BY <1>2, <2>1
      <3> QED BY <3>1, <3>2
    <2> HIDE DEF Defined
    <2> QED BY <1>1, <1>6, <1>10, <2>1, Stays
  <1>12. ASSUME NEW i \in 1..k PROVE ListsMore(f[i], f[i - 1], {KeyOf(analyses[i])}, form)
    <2>1. i - 1 \in 0..k /\ f[i - 1] \in Indexes(InvKeys, Keys) /\ analyses[i] \in Analyzed
      BY <1>1, <1>11, ElementOfSeq DEF V, k
    <2>2. f[i] = next(f[i - 1], i)
      BY <1>10
    <2>3. ListsMore(next(f[i - 1], i), f[i - 1], {KeyOf(analyses[i])}, form)
      BY <2>1, KeyOfType, ListedOnceMore
    <2> QED BY <2>2, <2>3
  <1> DEFINE upto(i) == {KeyOf(analyses[m]) : m \in 1..i}
             S == {i \in Nat : i <= k => ListsMore(f[i], inverdb, upto(i), form)}
  <1>13. 0 \in S
    BY <1>10 DEF ListsMore
  <1>14. ASSUME NEW i \in Nat, i \in S PROVE i + 1 \in S
    <2> SUFFICES ASSUME i + 1 <= k PROVE ListsMore(f[i + 1], inverdb, upto(i + 1), form)
      OBVIOUS
    <2>1. i + 1 \in 1..k /\ (i + 1) - 1 = i /\ ListsMore(f[i], inverdb, upto(i), form)
      BY <1>1, <1>14
    <2>2. ListsMore(f[i + 1], f[(i + 1) - 1], {KeyOf(analyses[i + 1])}, form)
      BY <1>12, <2>1
    <2>3. ListsMore(f[i + 1], f[i], {KeyOf(analyses[i + 1])}, form)
      BY <2>1, <2>2
    <2>4. upto(i + 1) = upto(i) \cup {KeyOf(analyses[i + 1])}
      BY <2>1, KeysUpto DEF k
    <2> HIDE DEF upto
    <2> QED BY <2>1, <2>3, <2>4 DEF ListsMore
  <1> HIDE DEF S
  <1>15. Nat \subseteq S
    BY <1>13, <1>14, Induct
  <1>16. ListsMore(f[k], inverdb, upto(k), form)
    <2> HIDE DEF upto, k
    <2>1. k \in S /\ k <= k
      BY <1>1, <1>15
    <2> QED BY <2>1 DEF S
  <1>17. upto(k) = KeysOf(analyses)
    BY DEF KeysOf, Range, k
  <1>18. f[k] \in Indexes(InvKeys, Keys)
    BY <1>1, <1>11 DEF V
  <1> QED BY <1>5, <1>16, <1>17, <1>18

\* What goes from the lists is the form, for each analysis.
LEMMA FormsDropped ==
  ASSUME inverdb \in Indexes(InvKeys, Keys), dict.inverse, NEW analyses \in Seq(Analyzed),
         NEW form \in Keys
  PROVE  /\ DropFromForms(analyses, form) \in Indexes(InvKeys, Keys)
         /\ ListsLess(DropFromForms(analyses, form), inverdb, KeysOf(analyses), form)
  <1> DEFINE V == Indexes(InvKeys, Keys)
             k == Len(analyses)
             next(v, n) == Dropped(v, analyses[n], form)
             step == [p \in V \X (1..k) |-> next(p[1], p[2])]
             Defined(g) == g = [n \in 0..k |-> IF n = 0 THEN inverdb ELSE next(g[n - 1], n)]
             f == CHOOSE g : Defined(g)
  <1>1. k \in Nat
    BY LenProperties
  <1>2. ASSUME NEW v \in V, NEW n \in 1..k PROVE next(v, n) \in V
    <2>1. analyses[n] \in Analyzed
      BY ElementOfSeq
    <2> QED BY <2>1, KeyOfType, ListedNoMore
  <1>3. step \in [V \X (1..k) -> V]
    <2>1. ASSUME NEW p \in V \X (1..k) PROVE next(p[1], p[2]) \in V
      <3>1. p[1] \in V /\ p[2] \in 1..k
        OBVIOUS
      <3> QED BY <1>2, <3>1
    <2> QED BY <2>1
  <1>4. \A v \in V, n \in 1..k : step[<<v, n>>] = next(v, n)
    OBVIOUS
  <1>5. DropFromForms(analyses, form) = f[k]
    BY DEF DropFromForms
  <1>6. inverdb \in V
    OBVIOUS
  <1> HIDE DEF step, V, k
  <1>7. PICK g : Recurs(g, V, inverdb, k, step)
    BY <1>1, <1>3, <1>6, Recursion
  <1>8. Defined(g)
    <2>1. ASSUME NEW n \in 0..k PROVE g[n] = IF n = 0 THEN inverdb ELSE next(g[n - 1], n)
      <3>1. n # 0 => n \in 1..k /\ n - 1 \in 0..k /\ g[n - 1] \in V
        BY <1>1, <1>7 DEF Recurs
      <3> QED BY <1>4, <1>7, <3>1 DEF Recurs
    <2>2. g = [n \in 0..k |-> g[n]]
      BY <1>7 DEF Recurs
    <2> QED BY <2>1, <2>2
  <1>9. Defined(f)
    BY <1>8
  <1> HIDE DEF f
  <1>10. f[0] = inverdb /\ \A i \in 1..k : f[i] = next(f[i - 1], i)
    <2>1. ASSUME NEW i \in 0..k PROVE f[i] = IF i = 0 THEN inverdb ELSE next(f[i - 1], i)
      BY <1>9
    <2>2. 0 \in 0..k /\ \A i \in 1..k : i \in 0..k /\ i # 0
      BY <1>1
    <2> QED BY <2>1, <2>2
  <1>11. \A i \in 0..k : f[i] \in V
    <2>1. ASSUME NEW i \in 1..k, f[i - 1] \in V PROVE f[i] \in V
      <3>1. f[i] = next(f[i - 1], i)
        BY <1>10
      <3>2. next(f[i - 1], i) \in V
        BY <1>2, <2>1
      <3> QED BY <3>1, <3>2
    <2> HIDE DEF Defined
    <2> QED BY <1>1, <1>6, <1>10, <2>1, Stays
  <1>12. ASSUME NEW i \in 1..k PROVE ListsLess(f[i], f[i - 1], {KeyOf(analyses[i])}, form)
    <2>1. i - 1 \in 0..k /\ f[i - 1] \in Indexes(InvKeys, Keys) /\ analyses[i] \in Analyzed
      BY <1>1, <1>11, ElementOfSeq DEF V, k
    <2>2. f[i] = next(f[i - 1], i)
      BY <1>10
    <2>3. ListsLess(next(f[i - 1], i), f[i - 1], {KeyOf(analyses[i])}, form)
      BY <2>1, KeyOfType, ListedNoMore
    <2> QED BY <2>2, <2>3
  <1> DEFINE upto(i) == {KeyOf(analyses[m]) : m \in 1..i}
             S == {i \in Nat : i <= k => ListsLess(f[i], inverdb, upto(i), form)}
  <1>13. 0 \in S
    BY <1>10 DEF ListsLess
  <1>14. ASSUME NEW i \in Nat, i \in S PROVE i + 1 \in S
    <2> SUFFICES ASSUME i + 1 <= k PROVE ListsLess(f[i + 1], inverdb, upto(i + 1), form)
      OBVIOUS
    <2>1. i + 1 \in 1..k /\ (i + 1) - 1 = i /\ ListsLess(f[i], inverdb, upto(i), form)
      BY <1>1, <1>14
    <2>2. ListsLess(f[i + 1], f[(i + 1) - 1], {KeyOf(analyses[i + 1])}, form)
      BY <1>12, <2>1
    <2>3. ListsLess(f[i + 1], f[i], {KeyOf(analyses[i + 1])}, form)
      BY <2>1, <2>2
    <2>4. upto(i + 1) = upto(i) \cup {KeyOf(analyses[i + 1])}
      BY <2>1, KeysUpto DEF k
    <2> HIDE DEF upto
    <2> QED BY <2>1, <2>3, <2>4 DEF ListsLess
  <1> HIDE DEF S
  <1>15. Nat \subseteq S
    BY <1>13, <1>14, Induct
  <1>16. ListsLess(f[k], inverdb, upto(k), form)
    <2> HIDE DEF upto, k
    <2>1. k \in S /\ k <= k
      BY <1>1, <1>15
    <2> QED BY <2>1 DEF S
  <1>17. upto(k) = KeysOf(analyses)
    BY DEF KeysOf, Range, k
  <1>18. f[k] \in Indexes(InvKeys, Keys)
    BY <1>1, <1>11 DEF V
  <1> QED BY <1>5, <1>16, <1>17, <1>18

-----------------------------------------------------------------------------
(* The keys of the analyses that data stand for.                             *)
ItemKeys(i)   == {<<i.lemma, t>> : t \in Range(i.tags)}
AllKeys(data) == UNION {ItemKeys(i) : i \in Range(data)}

LEMMA RowSeqOf ==
  ASSUME NEW T, NEW n \in Nat, NEW s \in [1..n -> T]
  PROVE  s \in Seq(T) /\ Len(s) = n
  OBVIOUS

LEMMA ExpandKeys ==
  ASSUME NEW data \in Seq(Item)
  PROVE  Expand(data) \in Seq(Analyzed) /\ KeysOf(Expand(data)) = AllKeys(data)
  <1> DEFINE one(n) == [m \in DOMAIN data[n].tags |-> [lemma |-> data[n].lemma, tag |-> data[n].tags[m]]]
             s == [n \in DOMAIN data |-> one(n)]
  <1>1. DOMAIN data = 1..Len(data) /\ Len(data) \in Nat /\ \A n \in 1..Len(data) : data[n] \in Item
    BY LenProperties, ElementOfSeq
  <1>2. ASSUME NEW n \in 1..Len(data)
        PROVE  one(n) \in Seq(Analyzed) /\ {KeyOf(a) : a \in Range(one(n))} = ItemKeys(data[n])
    <2>1. data[n].lemma \in AllLemmas /\ data[n].tags \in Seq(AllTags)
      BY <1>1 DEF Item
    <2>2. PICK l \in AllLemmas, ts \in Seq(AllTags) : l = data[n].lemma /\ ts = data[n].tags
      BY <2>1
    <2>3. one(n) = [m \in DOMAIN ts |-> [lemma |-> l, tag |-> ts[m]]]
      BY <2>2
    <2> HIDE DEF one
    <2>4. DOMAIN ts = 1..Len(ts) /\ Len(ts) \in Nat /\ \A m \in 1..Len(ts) : ts[m] \in AllTags
      BY LenProperties, ElementOfSeq
    <2>5. one(n) \in [1..Len(ts) -> Analyzed]
      BY <2>3, <2>4 DEF Analyzed
    <2>6. one(n) \in Seq(Analyzed)
      BY <2>4, <2>5, RowSeqOf
    <2>7. {KeyOf(a) : a \in Range(one(n))} = {<<l, t>> : t \in Range(ts)}
      BY <2>3 DEF Range, KeyOf
    <2> QED BY <2>2, <2>6, <2>7 DEF ItemKeys
  <1>3. s \in [1..Len(data) -> Seq(Analyzed)] /\ \A n \in 1..Len(data) : s[n] = one(n)
    BY <1>1, <1>2
  <1>4. Expand(data) = FlattenSeq(s)
    BY DEF Expand
  <1> HIDE DEF s, one
  <1>5. s \in Seq(Seq(Analyzed)) /\ Len(s) = Len(data)
    BY <1>1, <1>3, RowSeq
  <1>6. Expand(data) \in Seq(Analyzed)
    BY <1>4, <1>5, FlattenType
  <1>7. Range(Expand(data)) = UNION {Range(s[n]) : n \in 1..Len(data)}
    BY <1>4, <1>5, FlattenRange
  <1>8. KeysOf(Expand(data)) = UNION {{KeyOf(a) : a \in Range(s[n])} : n \in 1..Len(data)}
    BY <1>7 DEF KeysOf
  <1>9. \A n \in 1..Len(data) : {KeyOf(a) : a \in Range(s[n])} = ItemKeys(data[n])
    BY <1>2, <1>3
  <1>10. KeysOf(Expand(data)) = UNION {ItemKeys(data[n]) : n \in 1..Len(data)}
    BY <1>8, <1>9
  <1>11. AllKeys(data) = UNION {ItemKeys(data[n]) : n \in 1..Len(data)}
    BY <1>1 DEF AllKeys, Range
  <1> QED BY <1>6, <1>10, <1>11

LEMMA KeysConcat ==
  ASSUME NEW data \in Seq(Item), NEW more \in Seq(Item)
  PROVE  AllKeys(data \o more) = AllKeys(data) \cup AllKeys(more)
  <1>1. Range(data \o more) = Range(data) \cup Range(more)
    BY RangeConcat
  <1> QED BY <1>1 DEF AllKeys

LEMMA NoKeys == AllKeys(<<>>) = {}
  BY DEF AllKeys, Range

\* The data of a line are of the pairs in it.
LEMMA ParsedType ==
  ASSUME NEW pairs \in Seq(Pairs)
  PROVE  parse_dict_entry(pairs) \in Seq(Item)
  <1> DEFINE ls == LemmasOf(pairs)
             sorted == sort_list(ls, dict.lemma_prefs)
             tags(n) == sort_list(TagsOf(pairs, sorted[n]), dict.pos_prefs)
             r == [n \in DOMAIN sorted |-> [lemma |-> sorted[n], tags |-> tags(n)]]
  <1>1. /\ \A p \in Pairs : p.lemma \in AllLemmas
        /\ \A p \in Pairs : p.tag \in AllTags
    BY DEF AllLemmas, AllTags
  <1>2. ls \in Seq(AllLemmas)
    BY <1>1, LemmasOfType
  <1>3. sorted \in Seq(AllLemmas)
    <2> HIDE DEF ls
    <2> QED BY <1>2, SortAlike DEF Alike
  <1>4. ASSUME NEW l PROVE sort_list(TagsOf(pairs, l), dict.pos_prefs) \in Seq(AllTags)
    <2> DEFINE ts == TagsOf(pairs, l)
    <2>1. ts \in Seq(AllTags)
      BY <1>1, TagsOfType
    <2> HIDE DEF ts
    <2>2. sort_list(ts, dict.pos_prefs) \in Seq(AllTags)
      BY <2>1, SortAlike DEF Alike
    <2> QED BY <2>2 DEF ts
  <1>5. parse_dict_entry(pairs) = r
    BY DEF parse_dict_entry
  <1>6. \A n \in DOMAIN sorted : tags(n) \in Seq(AllTags)
    BY <1>4
  <1> HIDE DEF sorted, tags
  <1>7. /\ DOMAIN sorted = 1..Len(sorted) /\ Len(sorted) \in Nat
        /\ \A n \in 1..Len(sorted) : sorted[n] \in AllLemmas
    BY <1>3, LenProperties, ElementOfSeq
  <1>8. r \in [1..Len(sorted) -> Item]
    BY <1>6, <1>7 DEF Item
  <1> QED BY <1>5, <1>7, <1>8, RowSeqOf

\* An analysis more: data with its key more, if they did not have it.
LEMMA WithAnalysisIs ==
  ASSUME NEW data \in Seq(Item), NEW a \in Analyzed
  PROVE  /\ WithAnalysis(data, a) \in Seq(Item)
         /\ AllKeys(WithAnalysis(data, a)) = AllKeys(data) \cup {KeyOf(a)}
  <1> DEFINE I == {n \in 1..Len(data) : data[n].lemma = a.lemma}
             n == SelectInSeq(data, LAMBDA d : d.lemma = a.lemma)
             new == WithAnalysis(data, a)
             one == [lemma |-> a.lemma, tags |-> <<a.tag>>]
  <1>1. DOMAIN data = 1..Len(data) /\ Len(data) \in Nat /\ \A m \in 1..Len(data) : data[m] \in Item
    BY LenProperties, ElementOfSeq
  <1>2. a.lemma \in AllLemmas /\ a.tag \in AllTags
    BY DEF Analyzed, AllLemmas, AllTags, Pairs
  <1>3. n = IF I # {} THEN Min(I) ELSE 0
    BY DEF SelectInSeq
  <1>4. n = 0 \/ (n \in I /\ n # 0)
    <2>1. CASE I = {}
      BY <1>3, <2>1
    <2>2. CASE I # {}
      <3> HIDE DEF I
      <3>1. I \in SUBSET Nat
        BY DEF I
      <3>2. \E m \in I : \A i \in I : m <= i
        BY <2>2, <3>1, Least
      <3>3. n \in I
        BY <1>3, <2>2, <3>2 DEF Min
      <3>4. n # 0
        BY <3>3 DEF I
      <3> QED BY <3>3, <3>4
    <2> QED BY <2>1, <2>2
  <1>5. new = IF n = 0 THEN Append(data, one)
              ELSE IF Contains(data[n].tags, a.tag) THEN data
              ELSE [data EXCEPT ![n].tags = Append(@, a.tag)]
    BY DEF WithAnalysis
  <1> HIDE DEF n, new
  <1>6. CASE n = 0
    <2>1. one \in Item /\ ItemKeys(one) = {KeyOf(a)}
      <3>1. one \in Item /\ one.lemma = a.lemma /\ one.tags = <<a.tag>>
        BY <1>2 DEF Item
      <3>2. Range(<<a.tag>>) = {a.tag}
        BY DEF Range
      <3> HIDE DEF one
      <3> QED BY <3>1, <3>2 DEF ItemKeys, KeyOf
    <2>2. new = Append(data, one)
      BY <1>5, <1>6
    <2> HIDE DEF one
    <2>3. new = data \o <<one>> /\ <<one>> \in Seq(Item)
      BY <2>1, <2>2
    <2>4. AllKeys(<<one>>) = {KeyOf(a)}
      <3>1. Range(<<one>>) = {one}
        BY DEF Range
      <3> QED BY <2>1, <3>1 DEF AllKeys
    <2>5. AllKeys(data \o <<one>>) = AllKeys(data) \cup AllKeys(<<one>>)
      BY <2>3, KeysConcat
    <2>6. data \o <<one>> \in Seq(Item)
      BY <2>3, ConcatProperties
    <2> QED BY <2>3, <2>4, <2>5, <2>6 DEF new
  <1>7. CASE n # 0 /\ Contains(data[n].tags, a.tag)
    <2>1. new = data
      BY <1>5, <1>7
    <2>2. n \in 1..Len(data) /\ data[n].lemma = a.lemma
      BY <1>4, <1>7
    <2>3. KeyOf(a) \in ItemKeys(data[n])
      <3>1. data[n].tags \in Seq(AllTags)
        BY <1>1, <2>2 DEF Item
      <3>2. PICK ts \in Seq(AllTags) : ts = data[n].tags
        BY <3>1
      <3>3. a.tag \in Range(ts)
        BY <1>7, <3>2 DEF Contains, Range
      <3> QED BY <2>2, <3>2, <3>3 DEF ItemKeys, KeyOf
    <2>4. data[n] \in Range(data)
      BY <1>1, <2>2 DEF Range
    <2>5. KeyOf(a) \in AllKeys(data)
      BY <2>3, <2>4 DEF AllKeys
    <2> QED BY <2>1, <2>5 DEF new
  <1>8. CASE n # 0 /\ ~Contains(data[n].tags, a.tag)
    <2>1. n \in 1..Len(data) /\ data[n].lemma = a.lemma /\ data[n] \in Item
      BY <1>1, <1>4, <1>8
    <2> DEFINE i == [data[n] EXCEPT !.tags = Append(@, a.tag)]
    <2>2. new = [data EXCEPT ![n] = i]
      BY <1>5, <1>8
    <2>3. i \in Item /\ ItemKeys(i) = ItemKeys(data[n]) \cup {KeyOf(a)}
      <3>1. PICK l \in AllLemmas, ts \in Seq(AllTags) : data[n] = [lemma |-> l, tags |-> ts]
        BY <2>1 DEF Item
      <3>2. i = [lemma |-> l, tags |-> Append(ts, a.tag)] /\ l = a.lemma
        <4>1. i = [[lemma |-> l, tags |-> ts] EXCEPT !.tags = Append(@, a.tag)]
          BY <3>1, ZenonT(80)
        <4>2. [[lemma |-> l, tags |-> ts] EXCEPT !.tags = Append(@, a.tag)]
                = [lemma |-> l, tags |-> Append(ts, a.tag)]
          <5>1. ASSUME NEW e
                PROVE  [[lemma |-> l, tags |-> ts] EXCEPT !.tags = e] = [lemma |-> l, tags |-> e]
            OBVIOUS
          <5>2. [lemma |-> l, tags |-> ts].tags = ts
            OBVIOUS
          <5> QED BY <5>1, <5>2, ZenonT(80)
        <4>3. l = a.lemma
          BY <2>1, <3>1
        <4> HIDE DEF i
        <4> QED BY <4>1, <4>2, <4>3, ZenonT(80)
      <3>3. Append(ts, a.tag) \in Seq(AllTags)
        BY <1>2, AppendProperties
      <3>4. Range(Append(ts, a.tag)) = Range(ts) \cup {a.tag}
        <4>1. Append(ts, a.tag) = ts \o <<a.tag>> /\ <<a.tag>> \in Seq(AllTags)
          BY <1>2
        <4>2. Range(<<a.tag>>) = {a.tag}
          BY DEF Range
        <4>3. Range(ts \o <<a.tag>>) = Range(ts) \cup Range(<<a.tag>>)
          BY <4>1, RangeConcat, ZenonT(80)
        <4> QED BY <4>1, <4>2, <4>3
      <3>5. i \in Item
        BY <3>2, <3>3 DEF Item
      <3>6. ItemKeys(data[n]) = {<<l, t>> : t \in Range(ts)}
        BY <3>1 DEF ItemKeys
      <3>7. ItemKeys(i) = {<<l, t>> : t \in Range(ts) \cup {a.tag}}
        BY <3>2, <3>4 DEF ItemKeys
      <3> QED BY <3>2, <3>5, <3>6, <3>7, ZenonT(80) DEF KeyOf
    <2> HIDE DEF i
    <2>4. data \in [1..Len(data) -> Item]
      BY <1>1
    <2>5. /\ new \in [1..Len(data) -> Item] /\ new[n] = i
          /\ \A m \in 1..Len(data) : m # n => new[m] = data[m]
      BY <2>1, <2>2, <2>3, <2>4
    <2>6. new \in Seq(Item)
      BY <1>1, <2>5, RowSeqOf
    <2>7. AllKeys(new) = UNION {ItemKeys(new[m]) : m \in 1..Len(data)}
          /\ AllKeys(data) = UNION {ItemKeys(data[m]) : m \in 1..Len(data)}
      BY <1>1, <2>5 DEF AllKeys, Range
    <2>8. \A m \in 1..Len(data) :
            ItemKeys(new[m]) = IF m = n THEN ItemKeys(data[m]) \cup {KeyOf(a)} ELSE ItemKeys(data[m])
      BY <2>3, <2>5
    <2>9. AllKeys(new) = AllKeys(data) \cup {KeyOf(a)}
      <3>1. UNION {ItemKeys(new[m]) : m \in 1..Len(data)}
              = (UNION {ItemKeys(data[m]) : m \in 1..Len(data)}) \cup {KeyOf(a)}
        <4>1. ASSUME NEW m \in 1..Len(data) PROVE ItemKeys(data[m]) \subseteq ItemKeys(new[m])
          BY <2>8
        <4>2. ASSUME NEW m \in 1..Len(data)
              PROVE  ItemKeys(new[m]) \subseteq ItemKeys(data[m]) \cup {KeyOf(a)}
          BY <2>8
        <4>3. KeyOf(a) \in ItemKeys(new[n])
          BY <2>1, <2>8
        <4> QED BY <2>1, <4>1, <4>2, <4>3, ZenonT(80)
      <3> QED BY <2>7, <3>1
    <2> QED BY <2>6, <2>9 DEF new
  <1> QED BY <1>6, <1>7, <1>8

-----------------------------------------------------------------------------
(* The two databases.                                                        *)

\* What the database of forms is kept in.
Stored == dbmap \in Indexes(Keys, Item) /\ WellKept(tree, Item)

\* Between the calls: each kind of index keeps analyses that there are, and so does the
\* inverse one, which agrees.
DInv == /\ dict \in DictionaryFiles /\ line \in Nat \ {0}
        /\ Stored /\ inverdb \in Indexes(InvKeys, Keys)
        /\ InverseAgrees

\* A form has data, and the others what they had.
Becomes(form, data) ==
  \A f \in Keys : access_database(f)' = IF f = form THEN data ELSE access_database(f)

LEMMA AccessDatabaseType ==
  ASSUME Stored, NEW form \in Keys
  PROVE  access_database(form) \in Seq(Item)
  BY AccessType, EntryIsFound, KeyIsWord DEF Stored, access_database

HasOfData == \A form \in Keys : Has(form) = AllKeys(access_database(form))

LEMMA HasIs == Stored => HasOfData
  BY AccessDatabaseType, ExpandKeys DEF HasOfData, Has, KeysOf

LEMMA ListedIs ==
  ASSUME NEW form, NEW k
  PROVE  k \in Listed(form) <=> Lists(inverdb, k, form)
  <1>1. ~Contains(<<>>, form)
    BY DEF Contains
  <1> QED BY <1>1 DEF Listed, Lists, DB!access

\* The same of the next state.
LEMMA InNextState ==
  ASSUME Stored', NEW form \in Keys
  PROVE  /\ Has(form)' = AllKeys(access_database(form)')
         /\ \A k : k \in Listed(form)' <=> Lists(inverdb', k, form)
  <1>1. Has(form)' = AllKeys(access_database(form)')
    <2>1. (Stored => HasOfData)'
      BY HasIs, PTL
    <2> QED BY <2>1 DEF HasOfData
  <1>2. ASSUME NEW k PROVE k \in Listed(form)' <=> Lists(inverdb', k, form)
    <2>1. ~Contains(<<>>, form)
      BY DEF Contains
    <2> QED BY <2>1 DEF Listed, Lists, DB!access
  <1> QED BY <1>1, <1>2

LEMMA AddChanges ==
  ASSUME Stored, dict \in DictionaryFiles, dict' = dict, NEW form \in Keys, NEW data \in Seq(Item),
         AddToDatabase(form, data)
  PROVE  Stored' /\ Becomes(form, access_database(form) \o data)
  <1>0. \A f \in Keys : f \in Word
    BY KeyIsWord
  <1>1. CASE dict.index = "DB_MAP"
    <2>1. dbmap' = DB!added(dbmap, form, data) /\ tree' = tree
      BY <1>1 DEF AddToDatabase
    <2>2. dbmap' \in Indexes(Keys, Item) /\ HasNow(dbmap', dbmap, form, DB!access(dbmap, form) \o data)
      BY <2>1, AddedIs DEF Stored
    <2>3. Stored'
      BY <2>1, <2>2 DEF Stored, WellKept, Paths
    <2> QED BY <1>1, <2>2, <2>3 DEF HasNow, Becomes, access_database, DB!access
  <1>2. CASE dict.index # "DB_MAP"
    <2>1. tree' = addWord(tree, form, data) /\ dbmap' = dbmap
      BY <1>2 DEF AddToDatabase
    <2>2. WellKept(tree', Item) /\ HasMore(tree', tree, form, data)
      BY <1>0, <2>1, AddKeeps DEF Stored
    <2>3. Stored'
      BY <2>1, <2>2 DEF Stored
    <2>4. \A f \in Keys : /\ access_database(f)' = accessTree(tree', f)
                          /\ access_database(f) = accessTree(tree, f)
      BY <1>2 DEF access_database
    <2> QED BY <1>0, <2>2, <2>3, <2>4 DEF HasMore, Becomes
  <1> QED BY <1>1, <1>2

LEMMA RemoveChanges ==
  ASSUME Stored, dict \in DictionaryFiles, dict' = dict, NEW form \in Keys,
         IF dict.index = "DB_MAP" THEN dbmap' = DB!removed(dbmap, form) /\ UNCHANGED tree
         ELSE tree' = deleteWord(tree, form) /\ UNCHANGED dbmap
  PROVE  Stored' /\ Becomes(form, <<>>)
  <1>0. \A f \in Keys : f \in Word
    BY KeyIsWord
  <1>1. CASE dict.index = "DB_MAP"
    <2>1. dbmap' = DB!removed(dbmap, form) /\ tree' = tree
      BY <1>1
    <2>2. dbmap' \in Indexes(Keys, Item) /\ HasNow(dbmap', dbmap, form, <<>>)
      BY <2>1, RemovedIs DEF Stored
    <2>3. Stored'
      BY <2>1, <2>2 DEF Stored, WellKept, Paths
    <2> QED BY <1>1, <2>2, <2>3 DEF HasNow, Becomes, access_database, DB!access
  <1>2. CASE dict.index # "DB_MAP"
    <2>1. tree' = deleteWord(tree, form) /\ dbmap' = dbmap
      BY <1>2
    <2>2. WellKept(tree', Item) /\ HasNone(tree', tree, form)
      BY <1>0, <2>1, DeleteKeeps DEF Stored
    <2>3. Stored'
      BY <2>1, <2>2 DEF Stored
    <2>4. \A f \in Keys : /\ access_database(f)' = accessTree(tree', f)
                          /\ access_database(f) = accessTree(tree, f)
      BY <1>2 DEF access_database
    <2> QED BY <1>0, <2>2, <2>3, <2>4 DEF HasNone, Becomes, NULL
  <1> QED BY <1>1, <1>2

\* They still agree when a form has some keys more, in both.
LEMMA AgreeWithMore ==
  ASSUME DInv, Stored', dict' = dict, dict.inverse, mode # "undefined", fresh' = fresh,
         NEW form \in Keys, NEW data, Becomes(form, data), NEW keys,
         AllKeys(data) = AllKeys(access_database(form)) \cup keys,
         ListsMore(inverdb', inverdb, keys, form)
  PROVE  InverseAgrees'
  <1>1. ASSUME NEW f \in Keys
        PROVE  /\ Has(f)' = IF f = form THEN Has(f) \cup keys ELSE Has(f)
               /\ Listed(f)' = IF f = form THEN Listed(f) \cup keys ELSE Listed(f)
    <2>1. Has(f)' = AllKeys(access_database(f)') /\ Has(f) = AllKeys(access_database(f))
      BY InNextState, HasIs DEF DInv, HasOfData
    <2>2. \A k : k \in Listed(f)' <=> Lists(inverdb', k, f)
      BY InNextState
    <2>3. \A k : k \in Listed(f) <=> Lists(inverdb, k, f)
      BY ListedIs
    <2>4. \A k : k \in Listed(f)' <=> k \in Listed(f) \/ (f = form /\ k \in keys)
      BY <2>2, <2>3 DEF ListsMore
    <2>5. access_database(f)' = IF f = form THEN data ELSE access_database(f)
      BY DEF Becomes
    <2> HIDE DEF Has, Listed, Becomes, ListsMore, DInv
    <2> QED BY <2>1, <2>4, <2>5
  <1>2. \A f \in Keys : Listed(f) \subseteq Has(f) /\ (f \notin fresh => Listed(f) = Has(f))
    BY DEF DInv, InverseAgrees
  <1>3. ASSUME NEW f \in Keys
        PROVE  Listed(f)' \subseteq Has(f)' /\ (f \notin fresh => Listed(f)' = Has(f)')
    BY <1>1, <1>2
  <1> HIDE DEF Has, Listed
  <1> QED BY <1>3 DEF InverseAgrees

-----------------------------------------------------------------------------
LEMMA InitialAgreement == InitDictionary => DInv
  <1> SUFFICES ASSUME InitDictionary PROVE DInv
    OBVIOUS
  <1>1. /\ dict \in DictionaryFiles /\ line = 1 /\ tree = [p \in {} |-> NULL]
        /\ dbmap = [k \in {} |-> <<>>] /\ inverdb = [k \in {} |-> <<>>]
    BY DEF InitDictionary, InitTree
  <1>2. dbmap \in Indexes(Keys, Item) /\ inverdb \in Indexes(InvKeys, Keys)
    BY <1>1, IndexIs
  <1>3. WellKept(tree, Item)
    BY <1>1 DEF WellKept
  <1>4. Stored
    BY <1>2, <1>3 DEF Stored
  <1>5. ASSUME NEW form \in Keys PROVE Listed(form) = {} /\ Has(form) = {}
    <2>1. Listed(form) = {}
      BY <1>1 DEF Listed
    <2>2. access_database(form) = <<>>
      <3>1. accessTree(tree, form) = <<>>
        BY <1>1, <1>3, EntryIsFound, KeyIsWord DEF NULL
      <3>2. DB!access(dbmap, form) = <<>>
        BY <1>1 DEF DB!access
      <3> QED BY <3>1, <3>2 DEF access_database
    <2>3. Has(form) = {}
      BY <1>4, <2>2, HasIs, NoKeys DEF HasOfData
    <2> QED BY <2>1, <2>3
  <1>6. InverseAgrees
    BY <1>5 DEF InverseAgrees
  <1> QED BY <1>1, <1>2, <1>4, <1>6 DEF DInv

\* Nothing that the databases are asked about changes, but maybe how far the program is.
LEMMA NothingChanges ==
  ASSUME DInv, mode # "undefined", UNCHANGED <<dict, dbmap, inverdb, tree, fresh>>
  PROVE  Stored' /\ inverdb' \in Indexes(InvKeys, Keys) /\ InverseAgrees'
  <1>1. Stored'
    BY DEF DInv, Stored, WellKept, Paths
  <1>2. InverseAgrees'
    <2>1. \A form \in Keys : Has(form)' = Has(form) /\ Listed(form)' = Listed(form)
      BY DEF Has, Listed, access_database, DB!access, accessTree, find, Paths
    <2> HIDE DEF Has, Listed
    <2> QED BY <2>1 DEF DInv, InverseAgrees
  <1> QED BY <1>1, <1>2 DEF DInv

LEMMA LoadStep ==
  ASSUME DInv, LoadLine
  PROVE  DInv'
  <1> DEFINE l == dict.lines[line]
             data == parse_dict_entry(l.pairs)
  <1>1. /\ mode = "load" /\ line \in 1..Len(dict.lines) /\ dict' = dict /\ fresh' = fresh
        /\ line' = line + 1 /\ line' \in Nat \ {0} /\ dict \in DictionaryFiles
    <2>1. Len(dict.lines) \in Nat
      BY DictionaryAssumption, LenProperties DEF DInv
    <2> QED BY <2>1 DEF LoadLine, DInv
  <1>2. l \in Range(dict.lines) /\ l.form \in Keys /\ l.pairs \in Seq(Pairs)
    <2>1. dict.lines \in Seq(Range(dict.lines))
      BY <1>1, DictionaryAssumption
    <2>2. l \in Range(dict.lines)
      BY <1>1, <2>1, ElementOfSeq
    <2>3. l.form \in Keys /\ l.pairs \in Seq(Range(l.pairs))
      BY <1>1, <2>2, DictionaryAssumption
    <2>4. Range(l.pairs) \subseteq Pairs
      BY <1>1, <2>2 DEF Pairs
    <2>5. l.pairs \in Seq(Pairs)
      <3> DEFINE ps == l.pairs
      <3>1. ps \in [1..Len(ps) -> Range(ps)] /\ Len(ps) \in Nat
        BY <2>3, LenProperties
      <3> HIDE DEF ps, l
      <3>2. ps \in [1..Len(ps) -> Pairs]
        BY <2>4, <3>1 DEF ps
      <3> QED BY <3>1, <3>2, RowSeqOf DEF ps
    <2> QED BY <2>2, <2>3, <2>5
  <1> DEFINE form == l.form
             more == Expand(data)
  <1>3. data \in Seq(Item) /\ more \in Seq(Analyzed) /\ KeysOf(more) = AllKeys(data)
    <2>1. data \in Seq(Item)
      BY <1>2, ParsedType
    <2> HIDE DEF data
    <2> QED BY <2>1, ExpandKeys
  <1>4. CASE l.bad
    BY <1>1, <1>4, NothingChanges DEF LoadLine, DInv
  <1>5. CASE ~l.bad
    <2>1. /\ AddToDatabase(form, data) /\ inverdb' = AddToForms(more, form) /\ mode' = mode
      BY <1>5 DEF LoadLine
    <2> HIDE DEF data, more, form, l
    <2>2. form \in Keys /\ Stored /\ inverdb \in Indexes(InvKeys, Keys)
      BY <1>2 DEF DInv, form
    <2>3. Stored' /\ Becomes(form, access_database(form) \o data)
      BY <1>1, <1>3, <2>1, <2>2, AddChanges
    <2>4. CASE dict.inverse
      <3>1. inverdb' \in Indexes(InvKeys, Keys) /\ ListsMore(inverdb', inverdb, AllKeys(data), form)
        BY <1>3, <2>1, <2>2, <2>4, FormsAdded
      <3>2. AllKeys(access_database(form) \o data) = AllKeys(access_database(form)) \cup AllKeys(data)
        BY <1>3, <2>2, AccessDatabaseType, KeysConcat
      <3>3. InverseAgrees'
        BY <1>1, <2>2, <2>3, <2>4, <3>1, <3>2, AgreeWithMore
      <3> QED BY <1>1, <2>3, <3>1, <3>3 DEF DInv
    <2>5. CASE ~dict.inverse
      <3>1. inverdb' = inverdb
        BY <2>1, <2>5 DEF AddToForms
      <3>2. InverseAgrees'
        BY <1>1, <2>5 DEF InverseAgrees
      <3> QED BY <1>1, <2>2, <2>3, <3>1, <3>2 DEF DInv
    <2> QED BY <2>4, <2>5
  <1> QED BY <1>4, <1>5

\* A form with no data gets an entry, of which the inverse database does not hear.
LEMMA CreateStep ==
  ASSUME DInv, mode # "undefined", dict' = dict, line' = line, inverdb' = inverdb, NEW form \in Keys,
         NEW data \in Seq(Item), access_database(form) = <<>>, AddToDatabase(form, data),
         fresh' = fresh \cup {form}
  PROVE  DInv'
  <1>1. Stored /\ dict \in DictionaryFiles
    BY DEF DInv
  <1>2. Stored' /\ Becomes(form, access_database(form) \o data)
    BY <1>1, AddChanges
  <1>3. ASSUME NEW f \in Keys
        PROVE  Listed(f)' = Listed(f) /\ Has(f) \subseteq Has(f)' /\ (f # form => Has(f)' = Has(f))
    <2>1. Has(f)' = AllKeys(access_database(f)') /\ Has(f) = AllKeys(access_database(f))
      BY <1>1, <1>2, InNextState, HasIs DEF HasOfData
    <2>2. access_database(f)' = IF f = form THEN access_database(form) \o data ELSE access_database(f)
      BY <1>2 DEF Becomes
    <2>3. AllKeys(access_database(form)) = {}
      BY NoKeys
    <2>4. Listed(f)' = Listed(f)
      BY DEF Listed
    <2> HIDE DEF Has, Listed
    <2> QED BY <2>1, <2>2, <2>3, <2>4
  <1>4. InverseAgrees'
    <2> HIDE DEF Has, Listed
    <2> QED BY <1>3 DEF DInv, InverseAgrees
  <1> QED BY <1>2, <1>4 DEF DInv

LEMMA AddAnalysisStep ==
  ASSUME DInv, NEW form \in Keys, NEW a \in Analyses, add_analysis(form, a)
  PROVE  DInv'
  <1> DEFINE data == access_database(form)
             new == WithAnalysis(data, a)
             one == <<[lemma |-> a.lemma, tags |-> <<a.tag>>]>>
  <1>1. /\ mode = "update" /\ dict' = dict /\ line' = line /\ dict \in DictionaryFiles
        /\ Stored /\ inverdb \in Indexes(InvKeys, Keys) /\ line \in Nat \ {0}
    BY DEF add_analysis, DInv
  <1>2. a \in Analyzed /\ a.lemma \in AllLemmas /\ a.tag \in AllTags
    BY DEF Analyzed, AllLemmas, AllTags, Pairs
  <1>3. data \in Seq(Item) /\ new \in Seq(Item) /\ AllKeys(new) = AllKeys(data) \cup {KeyOf(a)}
    <2>1. data \in Seq(Item)
      BY <1>1, AccessDatabaseType
    <2> HIDE DEF data
    <2> QED BY <1>2, <2>1, WithAnalysisIs
  <1>4. CASE data = <<>>
    <2>1. one \in Seq(Item)
      BY <1>2 DEF Item
    <2>2. AddToDatabase(form, one) /\ fresh' = fresh \cup {form} /\ inverdb' = inverdb
      BY <1>4 DEF add_analysis
    <2> HIDE DEF one
    <2> QED BY <1>1, <1>4, <2>1, <2>2, CreateStep
  <1>5. CASE data # <<>> /\ new = data
    <2>1. UNCHANGED <<dict, dbmap, inverdb, tree, fresh>>
      BY <1>5 DEF add_analysis
    <2> QED BY <1>1, <2>1, NothingChanges DEF DInv
  <1>6. CASE data # <<>> /\ new # data
    <2>1. /\ dbmap' = IF dict.index = "DB_MAP" THEN DB!replaced(dbmap, form, new) ELSE dbmap
          /\ mode' = IF dict.index = "DB_PREFTREE" THEN "undefined" ELSE mode
          /\ inverdb' = AddToForms(<<a>>, form) /\ fresh' = fresh /\ tree' = tree
      BY <1>6 DEF add_analysis
    <2>2. dict.inverse => /\ inverdb' \in Indexes(InvKeys, Keys)
                          /\ ListsMore(inverdb', inverdb, {KeyOf(a)}, form)
      <3>1. <<a>> \in Seq(Analyzed)
        BY <1>2
      <3>2. KeysOf(<<a>>) = {KeyOf(a)}
        BY DEF KeysOf, Range
      <3> QED BY <1>1, <2>1, <3>1, <3>2, FormsAdded
    <2>3. ~dict.inverse => inverdb' = inverdb
      BY <2>1 DEF AddToForms
    <2>4. dbmap' \in Indexes(Keys, Item) /\ (dict.index = "DB_MAP" => HasNow(dbmap', dbmap, form, new))
      BY <1>1, <1>3, <2>1, ReplacedIs DEF Stored
    <2>5. Stored'
      BY <1>1, <2>1, <2>4 DEF Stored, WellKept, Paths
    <2>6. InverseAgrees'
      <3>1. CASE dict.inverse /\ dict.index = "DB_MAP"
        <4>1. Becomes(form, new)
          BY <1>1, <2>4, <3>1 DEF HasNow, Becomes, access_database, DB!access
        <4> QED BY <1>1, <1>3, <2>1, <2>2, <2>5, <3>1, <4>1, AgreeWithMore
      <3>2. CASE ~dict.inverse
        BY <1>1, <3>2 DEF InverseAgrees
      <3>3. CASE dict.index = "DB_PREFTREE"
        BY <2>1, <3>3 DEF InverseAgrees
      <3> QED BY <1>1, <3>1, <3>2, <3>3, DictionaryAssumption
    <2> QED BY <1>1, <2>2, <2>3, <2>5, <2>6, DictionaryAssumption DEF DInv
  <1> QED BY <1>4, <1>5, <1>6

LEMMA RemoveStep ==
  ASSUME DInv, NEW form \in Keys, remove_entry(form)
  PROVE  DInv'
  <1> DEFINE data == access_database(form)
             gone == search_form(form)
  <1>1. /\ mode = "update" /\ mode' = mode /\ dict' = dict /\ line' = line /\ dict \in DictionaryFiles
        /\ Stored /\ inverdb \in Indexes(InvKeys, Keys) /\ line \in Nat \ {0}
        /\ inverdb' = DropFromForms(gone, form) /\ fresh' = fresh \ {form}
    BY DEF remove_entry, DInv
  <1>2. gone \in Seq(Analyzed) /\ KeysOf(gone) = AllKeys(data)
    <2>1. gone = Expand(data)
      BY DictionaryAssumption DEF search_form
    <2>2. data \in Seq(Item)
      BY <1>1, AccessDatabaseType
    <2> HIDE DEF gone, data
    <2> QED BY <2>1, <2>2, ExpandKeys
  <1>3. Stored' /\ Becomes(form, <<>>)
    BY <1>1, RemoveChanges DEF remove_entry
  <1> HIDE DEF gone
  <1>4. CASE dict.inverse
    <2>1. inverdb' \in Indexes(InvKeys, Keys) /\ ListsLess(inverdb', inverdb, AllKeys(data), form)
      BY <1>1, <1>2, <1>4, FormsDropped
    <2>2. \A f \in Keys : Listed(f) \subseteq Has(f) /\ (f \notin fresh => Listed(f) = Has(f))
      BY <1>1, <1>4 DEF DInv, InverseAgrees
    <2>3. ASSUME NEW f \in Keys
          PROVE  /\ Has(f)' = IF f = form THEN {} ELSE Has(f)
                 /\ Listed(f)' = IF f = form THEN {} ELSE Listed(f)
      <3>1. Has(f)' = AllKeys(access_database(f)') /\ Has(f) = AllKeys(access_database(f))
        BY <1>1, <1>3, InNextState, HasIs DEF HasOfData
      <3>2. \A k : k \in Listed(f)' <=> Lists(inverdb', k, f)
        BY <1>3, InNextState
      <3>3. \A k : k \in Listed(f) <=> Lists(inverdb, k, f)
        BY ListedIs
      <3>4. \A k : k \in Listed(f)' <=> k \in Listed(f) /\ ~(f = form /\ k \in AllKeys(data))
        BY <2>1, <3>2, <3>3 DEF ListsLess
      <3>5. access_database(f)' = IF f = form THEN <<>> ELSE access_database(f)
        BY <1>3 DEF Becomes
      <3>6. Listed(f) \subseteq Has(f)
        BY <2>2
      <3> HIDE DEF Has, Listed
      <3>7. Has(f)' = IF f = form THEN {} ELSE Has(f)
        BY <3>1, <3>5, NoKeys
      <3>8. CASE f = form
        <4>1. Has(f) = AllKeys(data)
          BY <3>1, <3>8
        <4> QED BY <3>4, <3>6, <3>7, <3>8, <4>1
      <3>9. CASE f # form
        BY <3>4, <3>7, <3>9
      <3> QED BY <3>8, <3>9
    <2>4. InverseAgrees'
      <3> HIDE DEF Has, Listed
      <3> QED BY <1>1, <2>2, <2>3 DEF InverseAgrees
    <2> QED BY <1>1, <1>3, <2>1, <2>4 DEF DInv
  <1>5. CASE ~dict.inverse
    <2>1. inverdb' = inverdb
      BY <1>1, <1>5 DEF DropFromForms
    <2>2. InverseAgrees'
      BY <1>1, <1>5 DEF InverseAgrees
    <2> QED BY <1>1, <1>3, <2>1, <2>2 DEF DInv
  <1> QED BY <1>4, <1>5

LEMMA DictionaryStep == DInv /\ [Update]_dictionary => DInv'
  <1> SUFFICES ASSUME DInv, [Update]_dictionary PROVE DInv'
    OBVIOUS
  <1>1. CASE LoadLine
    BY <1>1, LoadStep
  <1>2. CASE Loaded
    BY <1>2, NothingChanges DEF Loaded, DInv
  <1>3. ASSUME NEW form \in Keys, remove_entry(form) PROVE DInv'
    BY <1>3, RemoveStep
  <1>4. ASSUME NEW form \in Keys, NEW a \in Analyses, add_analysis(form, a) PROVE DInv'
    BY <1>4, AddAnalysisStep
  <1>5. CASE UNCHANGED dictionary
    <2>1. UNCHANGED <<dict, line, mode, dbmap, inverdb, tree, fresh>>
      BY <1>5 DEF dictionary
    <2>2. CASE mode # "undefined"
      BY <2>1, <2>2, NothingChanges DEF DInv
    <2>3. CASE mode = "undefined"
      BY <2>1, <2>3 DEF DInv, Stored, WellKept, Paths, InverseAgrees
    <2> QED BY <2>2, <2>3
  <1> QED BY <1>1, <1>2, <1>3, <1>4, <1>5 DEF Update

\* Nothing is added or removed while sentences are analyzed.
LEMMA SearchStep == DInv /\ [Next]_vars => DInv'
  <1> SUFFICES ASSUME DInv, [Next]_vars PROVE DInv'
    OBVIOUS
  <1>1. CASE UpdateStep
    BY <1>1, DictionaryStep DEF UpdateStep
  <1>2. CASE Analyze \/ AnnotateWord
    <2>1. mode # "undefined" /\ UNCHANGED <<dict, line, dbmap, inverdb, fresh, tree>>
      BY <1>2 DEF Analyze, AnnotateWord
    <2> QED BY <2>1, NothingChanges DEF DInv
  <1>3. CASE PassBy \/ Stopped \/ UNCHANGED vars
    <2>1. UNCHANGED dictionary
      BY <1>3 DEF PassBy, Stopped, vars
    <2> QED BY <2>1, DictionaryStep
  <1> QED BY <1>1, <1>2, <1>3 DEF Next

\* Whatever is loaded from the file, added and removed, in either kind of index, the
\* inverse database lists a form for just the analyses that it has, but for the first
\* analysis of a form that add_analysis created.
THEOREM DatabasesAgree == Spec => []InverseAgrees
  <1>1. DInv => InverseAgrees
    BY DEF DInv
  <1>2. Init => DInv
    BY InitialAgreement DEF Init
  <1> QED BY <1>1, <1>2, SearchStep, PTL DEF Spec

-----------------------------------------------------------------------------
(* Where the words of a contraction stand.                                   *)

\* The span of a word, in which it has at least its beginning.
Spanned(w) == /\ {"from", "to"} \subseteq DOMAIN w
              /\ w.from \in Nat /\ w.to \in Nat /\ w.from <= w.to

\* Words that lie one after the other.
InRow(s) == /\ s \in Seq(Range(s))
            /\ \A n \in 1..Len(s) : Spanned(s[n])
            /\ \A n \in 1..(Len(s) - 1) : s[n].to <= s[n + 1].from

\* What new words stand for w fills its span.
Fills(new, w) == /\ new # <<>> /\ InRow(new)
                 /\ new[1].from = w.from /\ new[Len(new)].to = w.to

\* A word begins and one ends where a word of the text does.
Reached(s, x) == /\ \E n \in 1..Len(s) : s[n].from = x.from
                 /\ \E n \in 1..Len(s) : s[n].to = x.to

\* A contraction, as the data have it, gives no more words than the span of its
\* form has places; with more, the last ones would begin past its end.
PartsFit ==
  mode = "analyze" /\ opts.RetokenizeContractions /\ pos <= Len(words) /\ ~Annotated(words[pos]) =>
    LET parts == Contraction(Searched(words[pos])) IN
    /\ parts \in Seq(Range(parts))
    /\ Len(parts) <= words[pos].to - words[pos].from + 1

\* Where the words stand, while some are replaced.
PInv == /\ pos \in Nat \ {0} /\ InRow(words)
        /\ \A m \in DOMAIN input : Reached(words, input[m])

\* The greater of two numbers.
LEMMA MaxOfTwo ==
  ASSUME NEW a \in Int, NEW b \in Int
  PROVE  Max({a, b}) = IF a >= b THEN a ELSE b
  BY DEF Max

\* The step of a span with room for m words, and the length of a word.
LEMMA StepOf ==
  ASSUME NEW d \in Nat, NEW m \in Nat \ {0}, m <= d,
         NEW q, q = Max({1, d \div m}), NEW len, len = Max({1, q - 1})
  PROVE  q \in Nat \ {0} /\ m * q <= d /\ len \in Nat \ {0} /\ len <= q
<1>1. d \div m \in Nat \ {0} /\ m * (d \div m) <= d
  OBVIOUS
<1>2. q = d \div m
  BY <1>1, MaxOfTwo
<1> QED BY <1>1, <1>2, MaxOfTwo

\* Equal steps stay within the span.
LEMMA Steps ==
  ASSUME NEW d \in Nat, NEW m \in Nat \ {0}, NEW q \in Nat \ {0}, m * q <= d, NEW n \in 1..m
  PROVE  /\ (n - 1) * q \in Nat /\ (n - 1) * q < d
         /\ ((n + 1) - 1) * q = (n - 1) * q + q
<1>1. n - 1 \in Nat /\ m - 1 \in Nat /\ n - 1 <= m - 1
  OBVIOUS
<1>2. (n - 1) * q \in Nat /\ (m - 1) * q \in Nat /\ (n - 1) * q <= (m - 1) * q
  BY <1>1
<1>3. (m - 1) * q = m * q - q
  OBVIOUS
<1>4. ((n + 1) - 1) * q = (n - 1) * q + q
  OBVIOUS
<1> QED BY <1>2, <1>3, <1>4

\* The words of a contraction fill the span of its form.
LEMMA PlacedFills ==
  ASSUME NEW w, Spanned(w), NEW lw, lw \in Seq(Range(lw)), lw # <<>>, Len(lw) <= w.to - w.from + 1
  PROVE  Fills(Placed(w, lw), w)
<1> DEFINE m == Len(lw)
           step == Max({1, (w.to - w.from + 1) \div m})
           len == Max({1, step - 1})
           p == Placed(w, lw)
<1>1. m \in Nat \ {0} /\ DOMAIN lw = 1..m /\ m <= w.to - w.from + 1
  OBVIOUS
<1>2. w.from \in Nat /\ w.to \in Nat /\ w.from <= w.to
  BY DEF Spanned
<1>3. p = [n \in 1..m |-> [form |-> lw[n].form, analyses |-> lw[n].analyses, found |-> FALSE,
                           from |-> w.from + (n - 1) * step,
                           to |-> IF n = m THEN w.to ELSE w.from + (n - 1) * step + len]]
  BY <1>1 DEF Placed
<1>4. PICK f, t : f = w.from /\ t = w.to
  OBVIOUS
<1> HIDE DEF m
<1>5. PICK st, ln : st = step /\ ln = len
  OBVIOUS
<1>6. /\ st \in Nat \ {0} /\ ln \in Nat \ {0} /\ ln <= st
      /\ \A n \in 1..m : (n - 1) * st \in Nat /\ f + (n - 1) * st <= t
      /\ \A n \in 1..(m - 1) : (n - 1) * st + st = ((n + 1) - 1) * st
  <2>1. PICK k, d : k = m /\ d = w.to - w.from + 1
    OBVIOUS
  <2>2. d \in Nat /\ k \in Nat \ {0} /\ k <= d /\ st = Max({1, d \div k}) /\ ln = Max({1, st - 1})
    BY <1>1, <1>2, <1>5, <2>1
  <2> HIDE DEF step, len
  <2>3. st \in Nat \ {0} /\ k * st <= d /\ ln \in Nat \ {0} /\ ln <= st
    BY <2>2, StepOf
  <2>4. \A n \in 1..k : (n - 1) * st \in Nat /\ (n - 1) * st < d /\ ((n + 1) - 1) * st = (n - 1) * st + st
    BY <2>2, <2>3, Steps
  <2>5. ASSUME NEW n \in 1..m PROVE (n - 1) * st \in Nat /\ f + (n - 1) * st <= t
    <3>1. PICK x : x = (n - 1) * st
      OBVIOUS
    <3>2. x \in Nat /\ x < d
      BY <2>1, <2>4, <3>1
    <3> QED BY <1>2, <1>4, <2>1, <3>1, <3>2
  <2>6. \A n \in 1..(m - 1) : n \in 1..k
    BY <1>1, <2>1
  <2> QED BY <2>3, <2>4, <2>5, <2>6
<1> HIDE DEF step, len
<1>7. p \in Seq(Range(p)) /\ Len(p) = m /\ p # <<>> /\ DOMAIN p = 1..m
  <2>1. PICK k, q : k = m /\ q = p
    OBVIOUS
  <2>2. k \in Nat \ {0} /\ q = [n \in 1..k |-> q[n]]
    BY <1>1, <1>3, <2>1
  <2>3. q \in Seq(Range(q)) /\ Len(q) = k /\ DOMAIN q = 1..k
    BY <2>2, SeqOfFunction
  <2>4. q # <<>>
    BY <2>2, <2>3
  <2> QED BY <2>1, <2>3, <2>4
<1> HIDE DEF p
<1>8. \A n \in 1..m : /\ {"from", "to"} \subseteq DOMAIN p[n]
                      /\ p[n].from = f + (n - 1) * st
                      /\ p[n].to = IF n = m THEN t ELSE f + (n - 1) * st + ln
  BY <1>3, <1>4, <1>5
<1>9. ASSUME NEW n \in 1..m PROVE Spanned(p[n]) /\ (n < m => p[n].to <= p[n + 1].from)
  <2>1. PICK x : x = (n - 1) * st
    OBVIOUS
  <2>2. x \in Nat /\ f + x <= t /\ p[n].from = f + x /\ p[n].to = IF n = m THEN t ELSE f + x + ln
    BY <1>6, <1>8, <2>1
  <2>3. Spanned(p[n])
    BY <1>2, <1>4, <1>6, <1>8, <2>2 DEF Spanned
  <2>4. ASSUME n < m PROVE p[n].to <= p[n + 1].from
    <3>1. n + 1 \in 1..m /\ n \in 1..(m - 1)
      BY <1>1, <2>4
    <3>2. p[n + 1].from = f + (x + st)
      BY <1>6, <1>8, <2>1, <3>1
    <3> QED BY <1>2, <1>4, <1>6, <2>2, <2>4, <3>2
  <2> QED BY <2>3, <2>4
<1>10. p[1].from = w.from /\ p[m].to = w.to
  <2>1. 1 \in 1..m /\ m \in 1..m /\ (1 - 1) * st = 0
    BY <1>1, <1>6
  <2> QED BY <1>2, <1>4, <1>8, <2>1
<1>11. InRow(p)
  BY <1>1, <1>7, <1>9 DEF InRow
<1> QED BY <1>7, <1>10, <1>11 DEF Fills, p

\* A word that keeps its span fills it.
LEMMA WordFills ==
  ASSUME NEW w, NEW v, Spanned(v), v.from = w.from, v.to = w.to
  PROVE  Fills(<<v>>, w)
<1>1. <<v>> \in Seq(Range(<<v>>)) /\ Len(<<v>>) = 1 /\ <<v>>[1] = v
  BY DEF Range
<1> QED BY <1>1 DEF Fills, InRow

\* What is searched and annotated is still the same place of the text.
LEMMA SameSpan ==
  ASSUME NEW w, Spanned(w)
  PROVE  /\ Spanned(Searched(w)) /\ Searched(w).from = w.from /\ Searched(w).to = w.to
         /\ Spanned(WithParts(w)) /\ WithParts(w).from = w.from /\ WithParts(w).to = w.to
<1>2. /\ Spanned(WithParts(w)) /\ WithParts(w).from = w.from /\ WithParts(w).to = w.to
  BY DEF Spanned, WithParts
<1> DEFINE la == search_form(w.form)
           fd == la # <<>>
           as == w.analyses \o [n \in DOMAIN la |-> [lemma |-> la[n].lemma, tag |-> la[n].tag, retok |-> <<>>]]
           v == [w EXCEPT !.found = la # <<>>,
                          !.analyses = @ \o [n \in DOMAIN la |-> [lemma |-> la[n].lemma, tag |-> la[n].tag, retok |-> <<>>]]]
           u == look_for_affixes(v)
<1>3. Searched(w) = IF opts.AffixAnalysis THEN [v EXCEPT !.found = u.found, !.analyses = u.analyses] ELSE v
  BY DEF Searched
<1>4. Spanned(v) /\ v.from = w.from /\ v.to = w.to
  BY DEF Spanned
<1>5. PICK x, y, z : x = u.found /\ y = u.analyses /\ z = v
  OBVIOUS
<1>6. Searched(w) = IF opts.AffixAnalysis THEN [z EXCEPT !.found = x, !.analyses = y] ELSE z
  BY <1>3, <1>5
<1>7. Spanned(z) /\ z.from = w.from /\ z.to = w.to
  BY <1>4, <1>5
<1> HIDE DEF v, u
<1>8. PICK g : g = [z EXCEPT !.found = x, !.analyses = y]
  OBVIOUS
<1>9. Spanned(g) /\ g.from = z.from /\ g.to = z.to
  BY <1>7, <1>8 DEF Spanned
<1>10. Searched(w) = g \/ Searched(w) = z
  BY <1>6, <1>8
<1> QED BY <1>2, <1>7, <1>9, <1>10

\* Two sequences in one, element by element.
LEMMA Joins ==
  ASSUME NEW X, NEW a \in Seq(X), NEW b \in Seq(X)
  PROVE  /\ a \o b \in Seq(X) /\ Len(a \o b) = Len(a) + Len(b)
         /\ \A n \in 1..Len(a) : (a \o b)[n] = a[n]
         /\ \A n \in 1..Len(b) : (a \o b)[Len(a) + n] = b[n]
<1>1. Len(a) \in Nat /\ Len(b) \in Nat /\ Len(a \o b) = Len(a) + Len(b) /\ a \o b \in Seq(X)
  BY LenProperties, ConcatProperties
<1>2. \A n \in 1..(Len(a) + Len(b)) : (a \o b)[n] = IF n <= Len(a) THEN a[n] ELSE b[n - Len(a)]
  BY ConcatProperties
<1>3. \A n \in 1..Len(a) : (a \o b)[n] = a[n]
  BY <1>1, <1>2
<1>4. ASSUME NEW n \in 1..Len(b) PROVE (a \o b)[Len(a) + n] = b[n]
  <2>1. Len(a) + n \in 1..(Len(a) + Len(b)) /\ ~(Len(a) + n <= Len(a)) /\ (Len(a) + n) - Len(a) = n
    BY <1>1
  <2> QED BY <1>2, <2>1
<1> QED BY <1>1, <1>3, <1>4

\* r is s with the words of new in place of the one at p.
Replaces(s, p, new, r) ==
  /\ r \in Seq(Range(r)) /\ Len(r) = Len(s) - 1 + Len(new)
  /\ \A n \in 1..(p - 1) : r[n] = s[n]
  /\ \A n \in 1..Len(new) : r[p - 1 + n] = new[n]
  /\ \A n \in (p + 1)..Len(s) : r[n - 1 + Len(new)] = s[n]

\* What is before a place, new words and what is behind it.
LEMMA Replaced ==
  ASSUME NEW s, s \in Seq(Range(s)), NEW p \in 1..Len(s), NEW new, new \in Seq(Range(new))
  PROVE  Replaces(s, p, new, SubSeq(s, 1, p - 1) \o new \o SubSeq(s, p + 1, Len(s)))
<1>1. PICK X : X = Range(s) \cup Range(new)
  OBVIOUS
<1>2. s \in Seq(X) /\ new \in Seq(X) /\ Len(s) \in Nat /\ Len(new) \in Nat
  BY <1>1
<1>3. \A n \in 1..Len(s) : s[n] \in X
  BY <1>2
<1>4. PICK a : a = SubSeq(s, 1, p - 1)
  OBVIOUS
<1>5. PICK b : b = SubSeq(s, p + 1, Len(s))
  OBVIOUS
<1>6. /\ a \in Seq(X) /\ Len(a) = p - 1
      /\ \A n \in 1..(p - 1) : a[n] = s[n]
  <2>1. \A n \in 1..(p - 1) : s[n] \in X
    BY <1>2, <1>3
  <2>2. 1 \in Int /\ p - 1 \in Int
    OBVIOUS
  <2>3. /\ a \in Seq(X) /\ Len(a) = (IF 1 <= p - 1 THEN (p - 1) - 1 + 1 ELSE 0)
        /\ \A n \in 1..((p - 1) - 1 + 1) : a[n] = s[1 + n - 1]
    BY <1>4, <2>1, <2>2, SubSeqProperties
  <2> QED BY <1>2, <2>3
<1>7. /\ b \in Seq(X) /\ Len(b) = Len(s) - p
      /\ \A n \in 1..(Len(s) - p) : b[n] = s[p + n]
  <2>1. \A n \in (p + 1)..Len(s) : s[n] \in X
    BY <1>2, <1>3
  <2>2. p + 1 \in Int /\ Len(s) \in Int
    BY <1>2
  <2>3. /\ b \in Seq(X) /\ Len(b) = (IF p + 1 <= Len(s) THEN Len(s) - (p + 1) + 1 ELSE 0)
        /\ \A n \in 1..(Len(s) - (p + 1) + 1) : b[n] = s[(p + 1) + n - 1]
    BY <1>5, <2>1, <2>2, SubSeqProperties
  <2> QED BY <1>2, <2>3
<1>8. PICK m, l : m = Len(new) /\ l = Len(s) /\ m \in Nat /\ l \in Nat
  BY <1>2
<1>9. PICK ab : ab = a \o new
  OBVIOUS
<1>10. /\ ab \in Seq(X) /\ Len(ab) = p - 1 + m
       /\ \A n \in 1..(p - 1) : ab[n] = a[n]
       /\ \A n \in 1..m : ab[p - 1 + n] = new[n]
  <2>1. a \in Seq(X) /\ new \in Seq(X)
    BY <1>2, <1>6
  <2>2. /\ ab \in Seq(X) /\ Len(ab) = Len(a) + Len(new)
        /\ \A n \in 1..Len(a) : ab[n] = a[n]
        /\ \A n \in 1..Len(new) : ab[Len(a) + n] = new[n]
    BY <1>9, <2>1, Joins
  <2> QED BY <1>6, <1>8, <2>2
<1>11. PICK r : r = ab \o b
  OBVIOUS
<1>12. PICK k, h : k = p - 1 + m /\ h = l - p /\ k \in Nat /\ h \in Nat
  BY <1>8
<1>13. /\ r \in Seq(X) /\ Len(r) = k + h
       /\ \A n \in 1..k : r[n] = ab[n]
       /\ \A n \in 1..h : r[k + n] = b[n]
  <2>1. ab \in Seq(X) /\ b \in Seq(X) /\ k = Len(ab) /\ h = Len(b)
    BY <1>7, <1>8, <1>10, <1>12
  <2>2. /\ r \in Seq(X) /\ Len(r) = Len(ab) + Len(b)
        /\ \A n \in 1..Len(ab) : r[n] = ab[n]
        /\ \A n \in 1..Len(b) : r[Len(ab) + n] = b[n]
    BY <1>11, <2>1, Joins
  <2> QED BY <2>1, <2>2
<1>14. \A n \in 1..(p - 1) : r[n] = s[n]
  <2>1. \A n \in 1..(p - 1) : n \in 1..k
    BY <1>8, <1>12
  <2> QED BY <1>6, <1>10, <1>13, <2>1
<1>15. ASSUME NEW n \in 1..m PROVE r[p - 1 + n] = new[n]
  <2>1. p - 1 + n \in 1..k
    BY <1>8, <1>12
  <2> QED BY <1>10, <1>13, <2>1
<1>16. ASSUME NEW n \in (p + 1)..l PROVE r[n - 1 + m] = s[n]
  <2>1. PICK x : x = n - p
    OBVIOUS
  <2>2. x \in 1..h /\ p + x = n /\ k + x = n - 1 + m
    BY <1>8, <1>12, <2>1
  <2>3. r[k + x] = b[x] /\ b[x] = s[p + x]
    BY <1>7, <1>8, <1>12, <1>13, <2>2
  <2> QED BY <2>2, <2>3
<1>17. r \in Seq(Range(r)) /\ Len(r) = l - 1 + m
  BY <1>8, <1>12, <1>13, SeqOfRange
<1>18. Replaces(s, p, new, r)
  BY <1>8, <1>14, <1>15, <1>16, <1>17 DEF Replaces
<1> QED BY <1>4, <1>5, <1>9, <1>11, <1>18

\* Words that fill the span of one word leave the row in order.
LEMMA FilledRow ==
  ASSUME NEW s, InRow(s), NEW p \in 1..Len(s), NEW new, Fills(new, s[p]), NEW r, Replaces(s, p, new, r)
  PROVE  InRow(r) /\ \A x : Reached(s, x) => Reached(r, x)
<1> DEFINE m == Len(new)
<1>1. /\ s \in Seq(Range(s)) /\ new \in Seq(Range(new)) /\ m \in Nat \ {0} /\ Len(s) \in Nat
      /\ new[1].from = s[p].from /\ new[m].to = s[p].to
  BY DEF InRow, Fills
<1>2. /\ r \in Seq(Range(r)) /\ Len(r) = Len(s) - 1 + m
      /\ \A n \in 1..(p - 1) : r[n] = s[n]
      /\ \A n \in 1..m : r[p - 1 + n] = new[n]
      /\ \A n \in (p + 1)..Len(s) : r[n - 1 + m] = s[n]
  BY DEF Replaces
<1> HIDE DEF m
<1>3. /\ \A n \in 1..m : Spanned(new[n])
      /\ \A n \in 1..(m - 1) : new[n].to <= new[n + 1].from
      /\ \A n \in 1..Len(s) : Spanned(s[n])
      /\ \A n \in 1..(Len(s) - 1) : s[n].to <= s[n + 1].from
  BY DEF Fills, InRow, m
<1>4. ASSUME NEW n \in 1..Len(r)
      PROVE  n \in 1..(p - 1) \/ (n - p + 1 \in 1..m /\ r[n] = new[n - p + 1])
             \/ (n - m + 1 \in (p + 1)..Len(s) /\ r[n] = s[n - m + 1])
  <2>1. CASE n <= p - 1
    BY <2>1
  <2>2. CASE p - 1 < n /\ n <= p - 1 + m
    <3>1. n - p + 1 \in 1..m /\ p - 1 + (n - p + 1) = n
      BY <1>1, <2>2
    <3> QED BY <1>2, <3>1
  <2>3. CASE p - 1 + m < n
    <3>1. n - m + 1 \in (p + 1)..Len(s) /\ (n - m + 1) - 1 + m = n
      BY <1>1, <1>2, <2>3
    <3> QED BY <1>2, <3>1
  <2> QED BY <1>1, <2>1, <2>2, <2>3
<1>5. \A n \in 1..Len(r) : Spanned(r[n])
  <2> SUFFICES ASSUME NEW n \in 1..Len(r) PROVE Spanned(r[n])
    OBVIOUS
  <2>1. n \in 1..(p - 1) => n \in 1..Len(s)
    BY <1>1
  <2>2. n - m + 1 \in (p + 1)..Len(s) => n - m + 1 \in 1..Len(s)
    BY <1>1
  <2> QED BY <1>2, <1>3, <1>4, <2>1, <2>2
<1>6. ASSUME NEW n \in 1..(Len(r) - 1) PROVE r[n].to <= r[n + 1].from
  <2>1. CASE n < p - 1
    <3>1. n \in 1..(p - 1) /\ n + 1 \in 1..(p - 1) /\ n \in 1..(Len(s) - 1)
      BY <1>1, <2>1
    <3> QED BY <1>2, <1>3, <3>1
  <2>2. CASE n = p - 1
    <3>1. n \in 1..(p - 1) /\ n \in 1..(Len(s) - 1) /\ 1 \in 1..m /\ n + 1 = p - 1 + 1 /\ n + 1 = p
      BY <1>1, <2>2
    <3>2. r[n + 1] = new[1]
      BY <1>2, <3>1
    <3> QED BY <1>1, <1>2, <1>3, <3>1, <3>2
  <2>3. CASE p - 1 < n /\ n < p - 1 + m
    <3>1. PICK k : k = n - p + 1
      OBVIOUS
    <3>2. k \in 1..(m - 1) /\ k \in 1..m /\ k + 1 \in 1..m /\ n = p - 1 + k /\ n + 1 = p - 1 + (k + 1)
      BY <1>1, <2>3, <3>1
    <3>3. r[n] = new[k] /\ r[n + 1] = new[k + 1]
      BY <1>2, <3>2
    <3> QED BY <1>3, <3>2, <3>3
  <2>4. CASE n = p - 1 + m
    <3>1. p + 1 \in (p + 1)..Len(s) /\ m \in 1..m /\ n + 1 = (p + 1) - 1 + m /\ p \in 1..(Len(s) - 1)
      BY <1>1, <1>2, <2>4
    <3>2. r[n] = new[m] /\ r[n + 1] = s[p + 1]
      BY <1>2, <2>4, <3>1
    <3> QED BY <1>1, <1>3, <3>1, <3>2
  <2>5. CASE p - 1 + m < n
    <3>1. PICK k : k = n - m + 1
      OBVIOUS
    <3>2. /\ k \in (p + 1)..Len(s) /\ k + 1 \in (p + 1)..Len(s) /\ k \in 1..(Len(s) - 1)
          /\ n = k - 1 + m /\ n + 1 = (k + 1) - 1 + m
      BY <1>1, <1>2, <2>5, <3>1
    <3>3. r[n] = s[k] /\ r[n + 1] = s[k + 1]
      BY <1>2, <3>2
    <3> QED BY <1>3, <3>2, <3>3
  <2> QED BY <1>1, <2>1, <2>2, <2>3, <2>4, <2>5
<1>7. ASSUME NEW n \in 1..Len(s)
      PROVE  \E a, b \in 1..Len(r) : r[a].from = s[n].from /\ r[b].to = s[n].to
  <2>1. CASE n < p
    <3>1. n \in 1..(p - 1) /\ n \in 1..Len(r)
      BY <1>1, <1>2, <2>1
    <3> QED BY <1>2, <3>1
  <2>2. CASE n = p
    <3>1. 1 \in 1..m /\ m \in 1..m /\ p - 1 + 1 \in 1..Len(r) /\ p - 1 + m \in 1..Len(r)
      BY <1>1, <1>2
    <3> QED BY <1>1, <1>2, <2>2, <3>1
  <2>3. CASE n > p
    <3>1. n \in (p + 1)..Len(s) /\ n - 1 + m \in 1..Len(r)
      BY <1>1, <1>2, <2>3
    <3> QED BY <1>2, <3>1
  <2> QED BY <1>1, <2>1, <2>2, <2>3
<1>8. InRow(r)
  BY <1>2, <1>5, <1>6 DEF InRow
<1> QED BY <1>7, <1>8 DEF Reached

\* What annotate_word puts in the place of a word fills its span.
LEMMA AnnotateFills ==
  ASSUME PInv, PartsFit, AnnotateWord
  PROVE  \/ words' = words /\ pos' = pos
         \/ \E new : /\ Fills(new, words[pos]) /\ pos' = pos + Len(new)
                     /\ words' = SubSeq(words, 1, pos - 1) \o new \o SubSeq(words, pos + 1, Len(words))
<1> DEFINE w == words[pos]
           v == Searched(w)
           parts == Contraction(v)
<1>1. mode = "analyze" /\ pos \in 1..Len(words) /\ ~Annotated(w) /\ Annotate(v)
  BY DEF AnnotateWord, PInv, InRow
<1>2. Spanned(w)
  BY <1>1 DEF PInv, InRow
<1>3. Spanned(v) /\ v.from = w.from /\ v.to = w.to
  BY <1>2, SameSpan
<1> HIDE DEF v, w
<1>4. CASE opts.RetokenizeContractions
  <2>1. Contract(v, parts)
    BY <1>1, <1>4 DEF Annotate
  <2>2. parts \in Seq(Range(parts)) /\ Len(parts) <= w.to - w.from + 1
    BY <1>1, <1>4 DEF PartsFit, v, w
  <2> HIDE DEF parts
  <2>3. parts # <<>> => Fills(Placed(v, parts), w)
    BY <1>3, <2>2, PlacedFills DEF Fills
  <2>4. Fills(<<v>>, w)
    BY <1>3, WordFills
  <2> QED BY <2>1, <2>3, <2>4 DEF Contract, GiveUp, Replace, w
<1>5. CASE ~opts.RetokenizeContractions
  <2>1. PICK u : u = WithParts(v)
    OBVIOUS
  <2>2. Keep(u)
    BY <1>1, <1>5, <2>1 DEF Annotate
  <2>3. Spanned(u) /\ u.from = w.from /\ u.to = w.to
    BY <1>3, <2>1, SameSpan
  <2>4. Fills(<<u>>, w)
    BY <2>3, WordFills
  <2> QED BY <2>2, <2>4 DEF Keep, GiveUp, Replace, w
<1> QED BY <1>4, <1>5

\* Every step keeps the words in their places.
LEMMA PartsStep ==
  ASSUME PInv, PartsFit, [Next]_vars
  PROVE  PInv'
<1>1. CASE UpdateStep \/ Stopped \/ UNCHANGED vars
  <2>1. words' = words /\ pos' = pos /\ input' = input
    BY <1>1 DEF UpdateStep, Stopped, vars, search
  <2> QED BY <2>1 DEF PInv
<1>2. CASE Analyze
  <2>1. PICK s \in Sentences : words' = s /\ input' = s /\ pos' = 1
    BY <1>2 DEF Analyze
  <2>2. CASE s = <<>>
    <3>1. InRow(s) /\ DOMAIN s = {}
      BY <2>2 DEF InRow, Range
    <3> QED BY <2>1, <3>1 DEF PInv
  <2>3. CASE s # <<>>
    <3>1. s \in Seq(Range(s)) /\ DOMAIN s = 1..Len(s) /\ Len(s) \in Nat
      <4>1. DOMAIN s # {} => s \in Seq(Range(s))
        BY SentencesAssumption
      <4>2. s \in Seq(Range(s))
        BY <2>3, <4>1
      <4> QED BY <4>2
    <3>2. \A n \in 1..Len(s) : Spanned(s[n]) /\ (n < Len(s) => s[n].to <= s[n + 1].from)
      BY <3>1, SentencesAssumption DEF Spanned
    <3>3. InRow(s)
      BY <3>1, <3>2 DEF InRow
    <3>4. \A m \in DOMAIN s : Reached(s, s[m])
      BY <3>1 DEF Reached
    <3> QED BY <2>1, <3>3, <3>4 DEF PInv
  <2> QED BY <2>2, <2>3
<1>3. CASE PassBy
  <2>1. words' = words /\ pos' = pos + 1 /\ input' = input
    BY <1>3 DEF PassBy
  <2> QED BY <2>1 DEF PInv
<1>4. CASE AnnotateWord
  <2>1. input' = input /\ pos \in 1..Len(words) /\ InRow(words)
    BY <1>4 DEF AnnotateWord, PInv, InRow
  <2>2. CASE words' = words /\ pos' = pos
    BY <2>1, <2>2 DEF PInv
  <2>3. ASSUME NEW new, Fills(new, words[pos]), pos' = pos + Len(new),
               words' = SubSeq(words, 1, pos - 1) \o new \o SubSeq(words, pos + 1, Len(words))
        PROVE  PInv'
    <3>1. InRow(words') /\ \A x : Reached(words, x) => Reached(words', x)
      <4>1. new \in Seq(Range(new)) /\ words \in Seq(Range(words))
      BY <2>1, <2>3 DEF Fills, InRow
    <4>2. Replaces(words, pos, new, words')
      BY <2>1, <2>3, <4>1, Replaced
    <4> QED BY <2>1, <2>3, <4>2, FilledRow
    <3>2. Len(new) \in Nat /\ pos' \in Nat \ {0}
      BY <2>3 DEF Fills, InRow, PInv
    <3> QED BY <2>1, <3>1, <3>2 DEF PInv
  <2> QED BY <1>4, <2>2, <2>3, AnnotateFills
<1> QED BY <1>1, <1>2, <1>3, <1>4 DEF Next

\* As long as no contraction has more words than its span has places, the words that
\* replace contractions stand in order within the text, and words begin and end where
\* those of the text did: equal steps, the last one as long as it takes.
THEOREM PartsPlaced == Spec /\ []PartsFit => []PartsInPlace
<1>1. Init => PInv
  <2>1. Init => words = <<>> /\ input = <<>> /\ pos = 1
    BY DEF Init
  <2>2. InRow(<<>>)
    BY DEF InRow, Range
  <2> QED BY <2>1, <2>2 DEF PInv
<1>2. PInv /\ PartsFit /\ [Next]_vars => PInv'
  BY PartsStep
<1>3. PInv => PartsInPlace
  BY DEF PInv, InRow, Spanned, Reached, PartsInPlace
<1> QED BY <1>1, <1>2, <1>3, PTL DEF Spec
=============================================================================
