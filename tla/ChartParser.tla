----------------------------- MODULE ChartParser -----------------------------
(***************************************************************************)
(* chart_parser::analyze on a tagged sentence: for each of the sequences   *)
(* of tags that the tagger selected a chart is loaded and filled cell by   *)
(* cell, a root is found or made, and the tree is read off and its leaves  *)
(* are given the words in order.  The grammar is the one that was read.    *)
(***************************************************************************)
EXTENDS Grammar, Words, Trees

VARIABLES at,      \* "idle", then "load", "fill", "root", "tree" for each sequence
          k,       \* the sequence
          cells,   \* the chart
          next,    \* the cell to fill
          trees    \* the trees found, in the order of the sequences

parser == <<at, k, cells, next, trees>>

C == INSTANCE Chart

size == Len(words)

IdleParser == at = "idle" /\ k = 0 /\ cells = <<>> /\ next = <<0, 0>> /\ trees = <<>>

Analyze == /\ at = "idle"
           /\ at' = "load" /\ k' = 0 /\ trees' = <<>>
           /\ UNCHANGED <<cells, next>>

load_sentence ==
  /\ at = "load" /\ k < num_kbest(words)
  /\ cells' = [c \in {<<0, n - 1>> : n \in DOMAIN words} |->
                LET w == words[c[2] + 1] IN C!WordCell(gram, w.form, Selected(w, k), c)]
  /\ next' = <<1, 0>> /\ at' = "fill"
  /\ UNCHANGED <<k, trees>>

\* By growing length, from left to right.
FillCell ==
  /\ at = "fill" /\ next[1] < size
  /\ LET l == next[1]
         i == next[2] IN
     /\ cells' = [c \in DOMAIN cells \cup {next} |->
                   IF c = next THEN C!LongCell(gram, cells, l, i) ELSE cells[c]]
     /\ next' = IF i + 1 < size - l THEN <<l, i + 1>> ELSE <<l + 1, 0>>
  /\ UNCHANGED <<at, k, trees>>

Top == <<size - 1, 0>>

\* With no valid root, a fictitious one over the best cover; the program gives up
\* when a word has no inactive edge.
FindRoot ==
  /\ at = "fill" /\ next[1] >= size
  /\ IF C!gotroot(gram, cells[Top]) THEN at' = "tree" /\ UNCHANGED cells
     ELSE \E cov \in {C!cover(gram, cells, size, size - 1, 0)} :
            IF C!NoCell \in Range(cov) THEN at' = "crash" /\ UNCHANGED cells
            ELSE /\ at' = "tree"
                 /\ cells' = [cells EXCEPT ![Top] = Append(@, C!Fictitious(gram, cells, cov))]
  /\ UNCHANGED <<k, next, trees>>

\* Fault: leaves are matched with words by their symbols.
NumberedByLabel(tree, p) ==
  SelectInSeq(Leaves(tree), LAMBDA n : n.label = NodeAt(tree, p).label)

\* Leaves are numbered in order.
LeafNumber(tree, p) == SelectInSeq(LeafPlaces(tree), LAMBDA q : q = p)

\* The n-th leaf gets the n-th word, and for a label its tag.
Associate(tree) ==
  LET WithWord(leaf, n) == [leaf EXCEPT !.word = n,
                                        !.label = [C!NoSym EXCEPT !.cat = Head(Selected(words[n], k)).tag]]
      Named[p \in Seq(Nat)] ==
        LET n == NodeAt(tree, p)
        IN IF n.kids = <<>> THEN WithWord(n, LeafNumber(tree, p))
           ELSE [n EXCEPT !.kids = [m \in DOMAIN @ |-> Named[Append(p, m)]]]
  IN Named[<<>>]

GetTree ==
  /\ at = "tree"
  /\ trees' = Append(trees,
       Associate(C!get_tree(gram, cells, Top, C!RootLabel(gram, cells[Top]))))
  /\ at' = "load" /\ k' = k + 1
  /\ UNCHANGED <<cells, next>>

Parsed == /\ at = "load" /\ k >= num_kbest(words)
          /\ at' = "done"
          /\ UNCHANGED <<k, cells, next, trees>>

Parse == Analyze \/ load_sentence \/ FillCell \/ FindRoot \/ GetTree \/ Parsed

-----------------------------------------------------------------------------
\* The leaves of a tree are the words of the sentence, one by one and in order, so
\* that each leaf is rightly given its word: the cells they stood for are those of
\* the words.  When the only edges over the sentence are hidden ones the tree is a
\* single leaf.
LeavesAreWords ==
  at = "load" => \A t \in Range(trees) : t.kids # <<>> =>
    LET L == Leaves(t) IN /\ Len(L) = size
                          /\ \A n \in 1..size : L[n].at = <<0, n - 1>> /\ L[n].word = n

\* A node other than a fictitious root has a child that is its head, just one in
\* the trees of the parser, whatever was raised: who looks for the head word of a
\* chunk finds it.
OneHead ==
  \A t \in Range(trees) : \A n \in Range(Preorder(t)) :
    n.kids # <<>> /\ n.label # gram.start =>
      LET heads == {x \in DOMAIN n.kids : n.kids[x].head} IN
      heads # {} /\ (at = "load" => Cardinality(heads) = 1)
=============================================================================
