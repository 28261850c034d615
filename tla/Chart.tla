-------------------------------- MODULE Chart --------------------------------
(***************************************************************************)
(* The chart of chart.cc, for the grammar g: edges, how a cell is closed   *)
(* under the rules, the cover of a sentence that no tree spans, and the    *)
(* tree that is read off.  Cell <<k, i>> holds the edges over words i..i+k,*)
(* counted from 0.                                                         *)
(***************************************************************************)
EXTENDS Integers, SequencesExt

CONSTANTS filemap

NoCond == [kind |-> "none", of |-> ""]
NoSym  == [cat |-> <<>>, star |-> FALSE, cond |-> NoCond]

is_terminal(g, sym) == sym \notin g.nonterminal

\* Lower value, higher specificity: form, lemma, tag.
get_specificity(sym) == CASE sym.cond.kind = "form" -> 0 [] sym.cond.kind = "lemma" -> 1 [] OTHER -> 2

get_priority(g, sym) == LET n == SelectInSeq(g.prior, LAMBDA s : s = sym) IN
                        IF n = 0 THEN 9999 ELSE n

Edge(r) == [head |-> r.head, matched |-> <<>>, right |-> r.right, back |-> <<>>, gov |-> r.gov]
NoEdge  == Edge([head |-> NoSym, right |-> <<>>, gov |-> 0])

active(e) == e.right # <<>>

shift(e, c) == [e EXCEPT !.matched = Append(@, Head(e.right)),
                         !.right = Tail(@), !.back = Append(@, c)]

\* A wildcard stands for the rest of the tag; the condition is met by one that is
\* equal, or by one in the file it names.
check_match(searched, found) ==
  \/ searched = found
  \/ /\ searched.star
     /\ IsPrefix(searched.cat, found.cat)
     /\ \/ searched.cond.kind = "file" /\ <<found.cond, searched.cond>> \in filemap
        \/ searched.cond.kind # "file" /\ searched.cond = found.cond

\* Of two inactive edges, is the first one better?  Of equals neither is: the first
\* in the cell is kept.
better_edge(g, e1, e2) ==
  LET h1 == e1.head
      h2 == e2.head
      t1 == is_terminal(g, h1)
      t2 == is_terminal(g, h2)
      p1 == get_priority(g, h1)
      p2 == get_priority(g, h2) IN
  \/ h1 = g.start /\ h2 # g.start
  \/ /\ (h1 = g.start) = (h2 = g.start)
     /\ \/ t1 /\ t2 /\ get_specificity(h1) < get_specificity(h2)
        \/ ~t1 /\ t2
        \/ ~t1 /\ ~t2 /\ p1 < p2
        \/ ~t1 /\ ~t2 /\ p1 = p2 /\ Len(e1.matched) > Len(e2.matched)

\* The best of a best so far and the inactive edges of a list, where only a better one
\* takes its place; the best inactive edge, NoEdge when none is better.
BestFrom(g, e, edges) ==
  LET best[n \in 0..Len(edges)] ==
        IF n = 0 THEN e
        ELSE IF ~active(edges[n]) /\ better_edge(g, edges[n], best[n - 1]) THEN edges[n] ELSE best[n - 1]
  IN best[Len(edges)]
BestEdge(g, edges) == BestFrom(g, NoEdge, edges)

\* Edges, or rules, of a list for which P holds, in their order: SelectSeq.
Those(s, P(_)) == FlattenSeq([n \in DOMAIN s |-> IF P(s[n]) THEN <<s[n]>> ELSE <<>>])

HeadsOutside(edges, S) == SelectSeq(edges, LAMBDA e : e.head \notin S)

-----------------------------------------------------------------------------
Shifted(rules, c) == [n \in DOMAIN rules |-> shift(Edge(rules[n]), c)]
Complete(edges)   == LET done == Those(edges, LAMBDA e : ~active(e))
                     IN [n \in DOMAIN done |-> done[n].head]

get_rules_right(g, sym) == Those(g.rules, LAMBDA r : Head(r.right) = sym)
get_rules_right_wildcard(g, sym) ==
  Those(g.wild, LAMBDA r : Head(Head(r.right).cat) = Head(sym.cat))

\* Edges for the rules whose right side begins with a symbol of d, for those that begin
\* with what these complete, and so on: the queue, one generation after the other.  There
\* are no more of them than non-terminals, unless these complete each other for ever.
Begun(g, d, c) ==
  LET New(syms) == FlattenSeq([n \in DOMAIN syms |-> Shifted(get_rules_right(g, syms[n]), c)])
      new[n \in 0..Cardinality(g.nonterminal)] == New(IF n = 0 THEN d ELSE Complete(new[n - 1]))
  IN FlattenSeq([n \in 1..(1 + Cardinality(g.nonterminal)) |-> new[n - 1]])

\* Fault: what the rules with wildcards complete begins no other rule.
FindOnce(g, e, c) ==
  LET wild == IF is_terminal(g, e.head)
              THEN Shifted(Those(get_rules_right_wildcard(g, e.head),
                                 LAMBDA r : check_match(Head(r.right), e.head)), c)
              ELSE <<>>
  IN wild \o Begun(g, <<e.head>>, c)

find_all_rules(g, e, c) ==
  LET wild == IF is_terminal(g, e.head)
              THEN Shifted(Those(get_rules_right_wildcard(g, e.head),
                                 LAMBDA r : check_match(Head(r.right), e.head)), c)
              ELSE <<>>
  IN wild \o Begun(g, Append(Complete(wild), e.head), c)

\* The edge e over c, and those that follow when it is complete.
With(g, e, c) == IF active(e) THEN <<e>> ELSE <<e>> \o find_all_rules(g, e, c)

\* Three terminals for each analysis that is selected: the tag, with the form, with the lemma.
WordCell(g, form, analyses, c) ==
  LET T(a, cond) == With(g, Edge([head |-> [cat |-> a.tag, star |-> FALSE, cond |-> cond],
                                  right |-> <<>>, gov |-> 0]), c)
      Of(kind, x) == [kind |-> kind, of |-> x]
  IN FlattenSeq([n \in DOMAIN analyses |->
       T(analyses[n], NoCond) \o T(analyses[n], Of("form", form))
       \o T(analyses[n], Of("lemma", analyses[n].lemma))])

can_extend(edges, sym) == \E n \in DOMAIN edges : ~active(edges[n]) /\ check_match(sym, edges[n].head)

\* Every active edge over the first words of the cell is extended by the words that are left.
LongCell(g, cells, k, i) ==
  FlattenSeq([a \in 1..k |->
    LET left == cells[<<a - 1, i>>]
        right == <<k - a, i + a>>
        use == SelectSeq(left, LAMBDA e : active(e) /\ can_extend(cells[right], Head(e.right)))
    IN FlattenSeq([n \in DOMAIN use |-> With(g, shift(use[n], right), <<k, i>>)])])

-----------------------------------------------------------------------------
NoCell == <<-1, -1>>

\* The cell of the best edge of those of a height, over b..a+b.
RowBest(g, cells, a, b, h) ==
  LET best[n \in 0..(a - h + 1)] ==
        IF n = 0 THEN NoEdge ELSE BestFrom(g, best[n - 1], cells[<<h, b + n - 1>>])
      better == {n \in 1..(a - h + 1) : best[n] # best[n - 1]}
  IN IF better = {} THEN NoCell ELSE <<h, b + Max(better) - 1>>

\* That of the highest row that has one; NoCell when no cell has an inactive edge.
Highest(g, cells, a, b) ==
  LET rows == {h \in 0..a : RowBest(g, cells, a, b, h) # NoCell}
  IN IF rows = {} THEN NoCell ELSE RowBest(g, cells, a, b, Max(rows))

\* Cells whose best edges cover the words b..a+b: a highest one, and the covers of
\* what it leaves on both sides.  The program gives up on NoCell.
cover(g, cells, size, a, b) ==
  LET Under[w \in (-1..(size - 1)) \X (0..size)] ==
        LET End(c)      == c[1] + c[2] + 1
            Covering(c) ==
              IF c = NoCell THEN <<NoCell>>
              ELSE Under[<<c[2] - w[2] - 1, w[2]>>] \o <<c>> \o Under[<<w[1] + w[2] - End(c), End(c)>>]
        IN IF w[1] < 0 \/ w[1] + w[2] >= size THEN <<>> ELSE Covering(Highest(g, cells, w[1], w[2]))
  IN Under[<<a, b>>]

\* A fictitious edge over the best edges of the cells of a cover.
Fictitious(g, cells, cov) ==
  [head |-> g.start, right |-> <<>>, gov |-> 99999, back |-> cov,
   matched |-> [n \in DOMAIN cov |-> BestEdge(g, cells[cov[n]]).head]]

\* Is there an edge over the whole sentence that may be the root?
gotroot(g, top) == BestEdge(g, HeadsOutside(top, g.notop)) # NoEdge

-----------------------------------------------------------------------------
\* A node with children kids; a leaf stands for the words of a cell.
Node(label, c, kids) ==
  [label |-> label, at |-> c, head |-> FALSE, word |-> 0, chunk |-> 0, kids |-> kids]

\* The label of the root: that of the best edge that is not hidden.
RootLabel(g, top) == BestEdge(g, HeadsOutside(top, g.hidden)).head

\* A child that is hidden, kept for the top only, or a flat one under its own label
\* is skipped: its children take its place, and its head's, if it was the head.
Raised(g, label, child) ==
  \/ child.label \in g.hidden \cup g.onlytop
  \/ child.label \in g.flat /\ label = child.label

\* Fault: the heads of children that are raised stay heads.
RaisedAsTheyAre(child, isHead) == child.kids

\* The children of a child that is raised are heads only if it was one itself.
RaisedKids(child, isHead) ==
  [x \in DOMAIN child.kids |-> IF isHead THEN child.kids[x] ELSE [child.kids[x] EXCEPT !.head = FALSE]]

\* Every label is one of an edge, or the one that is asked for.
get_tree(g, cells, top, root) ==
  LET labels == {root} \cup UNION {Range(e.matched) : e \in UNION {Range(cells[c]) : c \in DOMAIN cells}}
      Tree[c \in DOMAIN cells, label \in labels] ==
        LET Kids(child, isHead) ==
              IF Raised(g, label, child) THEN RaisedKids(child, isHead) ELSE <<[child EXCEPT !.head = isHead]>>
            Under(best) ==
              FlattenSeq([m \in DOMAIN best.matched |->
                           Kids(Tree[best.back[m], best.matched[m]], m - 1 = best.gov)])
        IN IF label # g.start /\ is_terminal(g, label) THEN Node(label, c, <<>>)
           ELSE Node(label, c, Under(BestEdge(g, Those(cells[c], LAMBDA e : e.head = label))))
  IN Tree[top, root]
=============================================================================
