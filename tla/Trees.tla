-------------------------------- MODULE Trees --------------------------------
(***************************************************************************)
(* The trees of tree.h: a node is a record with the sequence kids of its   *)
(* children, and a place in a tree is the sequence of child numbers that   *)
(* leads there from the root.                                              *)
(***************************************************************************)
EXTENDS Integers, SequencesExt

\* The node at a place.
NodeAt(t, p) ==
  LET at[m \in 0..Len(p)] == IF m = 0 THEN t ELSE at[m - 1].kids[p[m]]
  IN at[Len(p)]

\* The places of the nodes, as the preorder iterator gives them, and the nodes.
Places(t) ==
  LET Under[p \in Seq(Nat)] ==
        <<p>> \o FlattenSeq([n \in DOMAIN NodeAt(t, p).kids |-> Under[Append(p, n)]])
  IN Under[<<>>]

Nodes(t, places) == [n \in DOMAIN places |-> NodeAt(t, places[n])]
Preorder(t)      == Nodes(t, Places(t))

LeafPlaces(t) == SelectSeq(Places(t), LAMBDA p : NodeAt(t, p).kids = <<>>)
Leaves(t)     == Nodes(t, LeafPlaces(t))

\* The tree t with s at place p, from there up to the root.
Put(t, p, s) ==
  LET At(m) == SubSeq(p, 1, Len(p) - m)
      Up[m \in 0..Len(p)] ==
        IF m = 0 THEN s ELSE [NodeAt(t, At(m)) EXCEPT !.kids[Last(At(m - 1))] = Up[m - 1]]
  IN Up[Len(p)]

\* child as the last, or the first, child of t.
hang_child(t, child, last) ==
  [t EXCEPT !.kids = IF last THEN Append(@, child) ELSE <<child>> \o @]

\* Fault: the node stays where it was, too.
WithoutNone(t, p) == t

\* What hang_child leaves of a tree when the node at p goes elsewhere.
Without(t, p) == Put(t, Front(p), [NodeAt(t, Front(p)) EXCEPT !.kids = RemoveAt(@, Last(p))])
=============================================================================
