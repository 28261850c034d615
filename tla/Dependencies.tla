----------------------------- MODULE Dependencies -----------------------------
(***************************************************************************)
(* dep_txala::analyze on a sentence with its trees: the chunks under a     *)
(* fictitious root are fused two by two, by the best rule that applies at  *)
(* each step, into one tree; from it a dependency tree is obtained, and    *)
(* its arcs get a function.  Of the rules (dep_rules.h) a condition is a   *)
(* record of kind ("node", or the labels "?", "*" and "OUT"), label,       *)
(* attributes and negation.                                                *)
(***************************************************************************)
EXTENDS ChartParser

CONSTANTS chgram,       \* completion rules, in the order of the file
          labrules,     \* labelling rules: ancestor, label and conditions
          unique,       \* labels given once under a node
          Meets(_, _, _, _)  \* is an attribute, of a type and a value, that of a form and its analysis?

VARIABLES dep,      \* "idle", "complete", "fuse", "done"; "crash" where there is no parent
          dk,       \* the sequence
          active_flags, chunks,
          deps      \* the dependency trees

dependencyParser == <<dep, dk, active_flags, chunks, deps>>

IdleDependencies == dep = "idle" /\ dk = 0 /\ active_flags = {} /\ chunks = <<>> /\ deps = <<>>

\* get_lemma and get_tag of a word are those of sequence 0, whatever tree it is in.
Has(w, type, value) ==
  Meets(type, value, words[w].form, words[w].analyses[selected_begin(words[w], 0)])

FirstHead(n) == SelectInSeq(n.kids, LAMBDA c : c.head)

HeadWord(n) ==
  LET Of[p \in Seq(Nat)] == LET x == NodeAt(n, p)
                            IN IF x.kids = <<>> THEN x.word ELSE Of[Append(p, FirstHead(x))]
  IN Of[<<>>]

match_condition(n, cond) ==
  (/\ cond.kind = "node" /\ n.label = cond.label
   /\ \A a \in cond.attrs : Has(HeadWord(n), a.type, a.value)) # cond.neg

\* Conditions from the m-th on against the chunks of one side from the n-th on, both
\* from the nearest.  A "*" takes all chunks up to the first that meets the condition
\* after it, and at least one chunk.
match_side(side, conds) ==
  LET Fits(x, c) == c.kind = "?" \/ match_condition(x, c)
      After(n, c) == IF c.kind = "OUT" THEN 1
                     ELSE SelectInSeq(SubSeq(side, n, Len(side)), LAMBDA x : Fits(x, c))
      Match[n \in 1..(Len(side) + 1), m \in 1..(Len(conds) + 1)] ==
        IF m > Len(conds) THEN TRUE
        ELSE IF n > Len(side) THEN conds[m].kind = "OUT" /\ Match[n, m + 1]
        ELSE IF conds[m].kind # "*" THEN Fits(side[n], conds[m]) /\ Match[n + 1, m + 1]
        ELSE \E x \in {After(n, conds[m + 1])} : x > 0 /\ Match[n + x, m + 2]
  IN Match[1, 1]

matching_context(c, r) ==
  (/\ match_side(Reverse(SubSeq(chunks, 1, c - 1)), Reverse(r.left))
   /\ match_side(SubSeq(chunks, c + 2, Len(chunks)), r.right)) # r.neg

enabled_rule(r) == "-" \in r.flags \/ r.flags \cap active_flags # {}

\* Places in the tree under which, or over which, the rule would hang the other one.
Matching(tree, r) == SelectSeq(Places(tree), LAMBDA p : match_condition(NodeAt(tree, p), r.matching))

matching_operation(c, r) ==
  CASE r.op \in {"last_left", "cover_last_left"} -> Matching(chunks[c], r) # <<>>
    [] r.op = "last_right"                       -> Matching(chunks[c + 1], r) # <<>>
    [] OTHER                                     -> TRUE

default == [weight |-> 0, op |-> "top_left", new1 |-> C!NoSym, new2 |-> C!NoSym, on |-> {}, off |-> {}]

\* A weight of -1 is taken for none.
Lighter(r, best) == best = default \/ best.weight = -1 \/ r.weight < best.weight

\* Of the rules that apply at chunk c the first of least weight.
Applies(r, c) ==
  /\ chunks[c].label = r.leftConds.label /\ chunks[c + 1].label = r.rightConds.label
  /\ enabled_rule(r)
  /\ match_condition(chunks[c], r.leftConds) /\ match_condition(chunks[c + 1], r.rightConds)
  /\ matching_context(c, r) /\ matching_operation(c, r)

find_grammar_rule(c) ==
  FoldLeft(LAMBDA best, r : IF Lighter(r, best) /\ Applies(r, c) THEN r ELSE best, default, chgram)

\* The first pair of chunks whose rule has the least positive weight; a rule without
\* one, as the default, yields to any of greater weight.
BestPair ==
  LET fit == [c \in 1..(Len(chunks) - 1) |-> [at |-> c, rule |-> find_grammar_rule(c)]]
      Yields(b, w) == (0 < w /\ w < b) \/ (b <= 0 /\ b < w)
      Better(best, x) == IF Yields(best.rule.weight, x.rule.weight) THEN x ELSE best
  IN FoldLeft(Better, fit[1], Tail(fit))

NoTree == <<>>

\* left and right under one root; NoTree where cover_last_left is to cover the root.
applyRule(r, left, right) ==
  LET As(n, isHead, new) == [n EXCEPT !.head = isHead, !.label = IF new = C!NoSym THEN @ ELSE new]
      Hung(n, p, child, last) == Put(n, p, hang_child(NodeAt(n, p), child, last))
      Child(n) == [n EXCEPT !.head = FALSE]
      p == Last(Matching(IF r.op = "last_right" THEN right ELSE left, r)) IN
  CASE r.op = "top_right"  -> hang_child(As(right, TRUE, r.new2), As(left, FALSE, r.new1), FALSE)
    [] r.op = "top_left"   -> hang_child(As(left, TRUE, r.new1), As(right, FALSE, r.new2), TRUE)
    [] r.op = "last_left"  -> Hung(left, p, Child(right), TRUE)
    [] r.op = "last_right" -> Hung(right, p, Child(left), FALSE)
    [] r.op = "cover_last_left" ->
         IF p = <<>> THEN NoTree
         ELSE Hung(Without(Child(left), p), Front(p),
                   hang_child([right EXCEPT !.head = TRUE], NodeAt(left, p), TRUE), TRUE)

-----------------------------------------------------------------------------
AnalyzeDeps == /\ dep = "idle"
               /\ dep' = "complete" /\ dk' = 0 /\ deps' = <<>>
               /\ UNCHANGED <<active_flags, chunks, trees>>

\* Fault: a word gets the number of the chunk before it.
NumberedLate(n, m) ==
  IF n.kids # <<>> THEN [n EXCEPT !.chunk = m]
  ELSE [n EXCEPT !.chunk = m - 1, !.head = FALSE, !.word = 0, !.kids = <<[n EXCEPT !.head = TRUE]>>]

\* The m-th chunk gets its number; one that is a word also a node of its own.
Numbered(n, m) ==
  IF n.kids # <<>> THEN [n EXCEPT !.chunk = m]
  ELSE [n EXCEPT !.chunk = m, !.head = FALSE, !.word = 0, !.kids = <<[n EXCEPT !.head = TRUE]>>]

\* Only a tree under the start symbol is completed.
TakeChunks ==
  /\ dep = "complete" /\ dk < num_kbest(words)
  /\ LET tree == trees[dk + 1]
     IN chunks' = IF tree.label # gram.start \/ tree.kids = <<>> THEN <<tree>>
                  ELSE [m \in DOMAIN tree.kids |-> Numbered(tree.kids[m], m)]
  /\ active_flags' = {"INIT"} /\ dep' = "fuse"
  /\ UNCHANGED <<dk, deps, trees>>

Fuse ==
  /\ dep = "fuse" /\ Len(chunks) > 1
  /\ \E best \in {BestPair} :
       LET r == best.rule
           c == best.at
           tree == applyRule(r, chunks[c], chunks[c + 1]) IN
       /\ active_flags' = (active_flags \cup r.on) \ r.off
       /\ IF tree = NoTree THEN dep' = "crash" /\ UNCHANGED chunks
          ELSE /\ chunks' = [RemoveAt(chunks, c + 1) EXCEPT ![c] = tree]
               /\ UNCHANGED dep
  /\ UNCHANGED <<dk, deps, trees>>

\* The dependency tree of a tree: the words of the other children depend on that of
\* the head.  A node is linked to the highest node that its word is the head of.
dependencies(tr, link) ==
  LET labels == {link} \cup {n.label : n \in Range(Preorder(tr))}
      Dep[p \in Seq(Nat), l \in labels] ==
        LET n == NodeAt(tr, p)
            h == IF FirstHead(n) = 0 THEN 1 ELSE FirstHead(n)
            own == Dep[Append(p, h), IF n.head THEN l ELSE n.label]
            Others(a, b) == [m \in 1..(b - a + 1) |-> Dep[Append(p, a + m - 1), n.kids[a + m - 1].label]]
        IN IF n.kids = <<>> THEN [word |-> n.word, link |-> l, func |-> "", chunk |-> n.chunk, kids |-> <<>>]
           ELSE [own EXCEPT !.chunk = n.chunk, !.kids = Others(1, h - 1) \o @ \o Others(h + 1, Len(n.kids))]
  IN Dep[<<>>, link]

-----------------------------------------------------------------------------
\* Nodes below n that a path of labels leads to.
parse_node_ref(path, n) ==
  FoldLeft(LAMBDA nodes, l : UNION {{s \in Range(x.kids) : s.link = l} : x \in nodes}, {n}, path)

\* A negated condition on all siblings asks for one, and the other way about.
Quantified(c) == CASE c.neg /\ c.node = "As" -> "Es" [] c.neg /\ c.node = "Es" -> "As" [] OTHER -> c.node

nodes_to_check(c, p, d) ==
  UNION {parse_node_ref(c.path, n) :
    n \in CASE c.node = "p" -> {p} [] c.node = "d" -> {d}
            [] OTHER -> {s \in Range(p.kids) : s.word # d.word}}

eval(c, n) ==
  \E v \in c.values :
    IF c.func = "label" THEN n.link = v \/ (v.star /\ IsPrefix(v.cat, n.link.cat))
    ELSE Has(n.word, c.func, v)

check_side(c, p, d) ==
  /\ c.path = <<>>
  /\ \/ <<c.node, c.values>> \in {<<"d", {"left"}>>, <<"p", {"right"}>>}
        /\ words[d.word].from < words[p.word].from
     \/ <<c.node, c.values>> \in {<<"p", {"left"}>>, <<"d", {"right"}>>}
        /\ words[d.word].from > words[p.word].from

\* False where there is no node to check, before the negation.
check(c, p, d) ==
  LET ln == nodes_to_check(c, p, d)
      all == Quantified(c) = "As" IN
  (IF c.func = "side" THEN check_side(c, p, d)
   ELSE ln # {} /\ IF all THEN \A n \in ln : eval(c, n) ELSE \E n \in ln : eval(c, n)) # c.neg

\* The function of d under p, where its siblings have got those in taken.
Function(p, d, taken) ==
  LET rules == SelectSeq(labrules, LAMBDA r : r.ancestor = p.link)
      fit == SelectSeq(rules, LAMBDA r : /\ r.label \notin unique \cap taken
                                         /\ \A m \in DOMAIN r.conds : check(r.conds[m], p, d))
  IN IF rules = <<>> THEN "modnorule" ELSE IF fit = <<>> THEN "modnomatch" ELSE fit[1].label

\* The functions of the nodes under n, from the first on; the tree with all functions.
Functions(n) == FoldLeft(LAMBDA done, d : Append(done, Function(n, d, Range(done))), <<>>, n.kids)

label(tree) ==
  LET Labelled[p \in Seq(Nat)] ==
        LET n == NodeAt(tree, p)
        IN [n EXCEPT !.kids = [m \in DOMAIN @ |-> [Labelled[Append(p, m)] EXCEPT !.func = Functions(n)[m]]]]
  IN Labelled[<<>>]

\* The tree that is left is kept as that of the sequence, and its dependencies.
GetDependencies ==
  /\ dep = "fuse" /\ Len(chunks) = 1
  /\ trees' = [trees EXCEPT ![dk + 1] = chunks[1]]
  /\ deps' = Append(deps, label([dependencies(chunks[1], chunks[1].label) EXCEPT !.func = "top"]))
  /\ dep' = "complete" /\ dk' = dk + 1
  /\ UNCHANGED <<active_flags, chunks>>

DepsDone == /\ dep = "complete" /\ dk >= num_kbest(words)
            /\ dep' = "done"
            /\ UNCHANGED <<dk, active_flags, chunks, deps, trees>>

Depend == AnalyzeDeps \/ TakeChunks \/ Fuse \/ GetDependencies \/ DepsDone

-----------------------------------------------------------------------------
\* Each word of the sentence is in the dependency tree, and once: no rule hangs a
\* chunk where it hides a word or is lost.  A tree that is a single leaf has one word.
WordsInDeps ==
  \A m \in DOMAIN deps : trees[m].kids # <<>> =>
    LET nodes == Preorder(deps[m]) IN
    /\ Len(nodes) = size
    /\ {n.word : n \in Range(nodes)} = 1..size

\* Nodes below the same node that are chunks have different numbers: the output
\* prints them by growing number, each number once.
ChunksApart ==
  \A m \in DOMAIN deps : \A n \in Range(Preorder(deps[m])) :
    \A i, j \in DOMAIN n.kids : n.kids[i].chunk = n.kids[j].chunk => i = j \/ n.kids[i].chunk = 0
=============================================================================
