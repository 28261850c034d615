------------------------------ MODULE Derivation ------------------------------
(***************************************************************************)
(* What the chart of chart.cc is to hold: the symbols that derive some     *)
(* words of a sentence by the rules of the grammar.                        *)
(***************************************************************************)
EXTENDS Analysis

\* Does symbol s of a right side stand for one of the symbols in S?  Wildcards that
\* begin a rule are only tried on terminals, by the rules indexed for it.
Stands(s, S) == \E f \in S : C!check_match(s, f)
Begins(r, S) ==
  \/ Head(r.right) \in S
  \/ r \in Range(gram.wild) /\ \E f \in S \ gram.nonterminal : C!check_match(Head(r.right), f)

\* The symbols that derive the words i..i+l by the rules of the grammar, from the
\* terminals of each word: the definition the chart is an algorithm for.
RECURSIVE Derive(_, _, _), Spans(_, _, _), Closed(_, _)

\* Symbols of a right side that cover the words i..i+l.
Spans(s, l, i) ==
  IF s = <<>> THEN l = -1
  ELSE \E m \in 0..l : Stands(Head(s), Derive(k, m, i)) /\ Spans(Tail(s), l - m - 1, i + m + 1)

Closed(S, units) ==
  LET new == {r.head : r \in {u \in units : Begins(u, S)}} \ S
  IN IF new = {} THEN S ELSE Closed(S \cup new, units)

Derive(n, l, i) ==
  LET w == words[i + 1]
      Of(kind, x) == [kind |-> kind, of |-> x]
      terminals == IF l > 0 THEN {}
                   ELSE UNION {{[cat |-> a.tag, star |-> FALSE, cond |-> cond] :
                                  cond \in {C!NoCond, Of("form", w.form), Of("lemma", a.lemma)}} :
                               a \in Range(Selected(w, n))}
      long == {r \in Range(gram.rules) : Len(r.right) > 1 /\
                 \E m \in 0..(l - 1) : Begins(r, Derive(n, m, i))
                                       /\ Spans(Tail(r.right), l - m - 1, i + m + 1)}
      units == {r \in Range(gram.rules) : Len(r.right) = 1}
  IN Closed(terminals \cup {r.head : r \in long}, units)

Inactive(edges) == {edges[n].head : n \in {m \in DOMAIN edges : ~C!active(edges[m])}}

\* A cell has an inactive edge for a symbol just when the symbol derives its words:
\* the chart neither misses nor invents a constituent.
ChartExact ==
  at = "fill" => \A c \in DOMAIN cells : Inactive(cells[c]) = Derive(k, c[1], c[2])
===============================================================================
