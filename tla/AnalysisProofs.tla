--------------------------- MODULE AnalysisProofs ---------------------------
(***************************************************************************)
(* Of the analysis of a sentence, for every grammar file, every sentence   *)
(* and every table of probabilities: the governor that a rule gets is one  *)
(* of its own symbols; the tagger finds the best sequences of tags and     *)
(* selects analyses by them; retokenization leaves words in place; and the *)
(* parser finds an edge over every word, so that it never gives up.        *)
(***************************************************************************)
EXTENDS Analysis, Flattening

-----------------------------------------------------------------------------
(* The grammar file.                                                         *)

Sequence(s) == \E S : s \in Seq(S)

InRule == {3, 4, 5, 10}   \* states in which the right side of a rule is read

\* What a mark + has set is a symbol read so far, and it is set in the right side of
\* a rule only: a rule that is skipped takes its mark to the next one.
MarkInRule ==
  /\ \A r \in Range(gram.rules) : r.gov < Len(r.right)
  /\ havegov => stat \in InRule /\ gov \in Nat /\ gov <= Len(ls)

IInv == Sequence(ls) /\ Sequence(gram.rules) /\ (~skipped => MarkInRule)

\* Where a transition leads to it starts from one of the states that have it.
LEMMA Source ==
  ASSUME NEW n \in 1..10, To(n)
  PROVE  \E tr \in trans : tr[1] = stat /\ tr[3] = n
  <1>1. NewStat(stat, Tok.kind) = n
    BY DEF To
  <1>2. \E tr \in trans : tr[1] = stat /\ tr[2] = Tok.kind
    BY <1>1 DEF NewStat
  <1> DEFINE u == CHOOSE tr \in trans : tr[1] = stat /\ tr[2] = Tok.kind
  <1>3. u \in trans /\ u[1] = stat
    BY <1>2
  <1>4. u[3] = n
    BY <1>1, <1>2 DEF NewStat
  <1> QED BY <1>3, <1>4

\* The states from which each transition may be taken.
LEMMA Sources ==
  /\ To(1) => stat \in {1, 4, 5, 7, 9}
  /\ To(2) \/ To(6) \/ To(8) => stat = 1
  /\ To(3) => stat \in {2, 4, 5}
  /\ To(4) => stat \in {3, 10}
  /\ To(5) => stat = 4
  /\ To(7) => stat \in {6, 7}
  /\ To(9) => stat = 8
  /\ To(10) => stat = 3
  <1> DEFINE From(n) == \E tr \in trans : tr[1] = stat /\ tr[3] = n
  <1>1. \A n \in 1..10 : To(n) => From(n)
    BY Source
  <1>2. /\ From(1) => stat \in {1, 4, 5, 7, 9}
        /\ From(2) \/ From(6) \/ From(8) => stat = 1
        /\ From(3) => stat \in {2, 4, 5}
        /\ From(4) => stat \in {3, 10}
        /\ From(5) => stat = 4
        /\ From(7) => stat \in {6, 7}
        /\ From(9) => stat = 8
        /\ From(10) => stat = 3
    BY DEF trans, Directives
  <1> QED BY <1>1, <1>2

\* A sequence that grows by one.
LEMMA Appended ==
  ASSUME NEW s, Sequence(s), NEW e
  PROVE  /\ Sequence(Append(s, e)) /\ Len(s) \in Nat
         /\ Len(Append(s, e)) = Len(s) + 1
         /\ Range(Append(s, e)) = Range(s) \cup {e}
  <1>1. PICK S : s \in Seq(S)
    BY DEF Sequence
  <1>2. s \in Seq(S \cup {e})
    BY <1>1
  <1>3. /\ Append(s, e) \in Seq(S \cup {e})
        /\ Len(Append(s, e)) = Len(s) + 1
        /\ \A n \in 1..Len(s) : Append(s, e)[n] = s[n]
        /\ Append(s, e)[Len(s) + 1] = e
    BY <1>2, AppendProperties
  <1>4. Range(Append(s, e)) = Range(s) \cup {e}
    <2>1. DOMAIN s = 1..Len(s) /\ DOMAIN Append(s, e) = 1..(Len(s) + 1) /\ Len(s) \in Nat
      BY <1>2, <1>3
    <2>2. \A x \in Range(Append(s, e)) : x \in Range(s) \cup {e}
      BY <1>3, <2>1 DEF Range
    <2>3. \A x \in Range(s) \cup {e} : x \in Range(Append(s, e))
      BY <1>3, <2>1 DEF Range
    <2> QED BY <2>2, <2>3
  <1> QED BY <1>1, <1>3, <1>4 DEF Sequence

\* The empty sequence.
LEMMA Empty == Sequence(<<>>) /\ Len(<<>>) = 0 /\ Range(<<>>) = {}
  <1>1. <<>> \in Seq({})
    OBVIOUS
  <1> QED BY <1>1 DEF Sequence, Range

\* Nothing has been read when the grammar file is opened.
LEMMA InitialState == InitGrammar => IInv
  <1> SUFFICES ASSUME InitGrammar PROVE IInv
    OBVIOUS
  <1>1. ls = <<>> /\ ~havegov /\ gram.rules = <<>>
    BY DEF InitGrammar
  <1>2. Range(gram.rules) = {}
    BY <1>1, Empty
  <1> QED BY <1>1, <1>2, Empty DEF IInv, MarkInRule

\* A rule that is stored has its governor among its symbols, and leaves no mark.
LEMMA Stored ==
  ASSUME IInv, stat \in {4, 5}, StoreRule
  PROVE  /\ Sequence(gram'.rules)
         /\ ~skipped => \A r \in Range(gram'.rules) : r.gov < Len(r.right)
         /\ ~havegov'
  <1> DEFINE r0 == [head |-> head, right |-> Append(ls, categ), gov |-> Governor]
  <1>1. gram'.rules = Append(gram.rules, r0)
    BY DEF StoreRule
  <1>2. /\ Sequence(gram'.rules)
        /\ Range(gram'.rules) = Range(gram.rules) \cup {r0}
    BY <1>1, Appended, ZenonT(80) DEF IInv
  <1>3. ASSUME ~skipped PROVE r0.gov < Len(r0.right)
    <2>1. Len(ls) \in Nat /\ Len(r0.right) = Len(ls) + 1
      BY Appended DEF IInv
    <2>2. Governor \in Nat /\ Governor <= Len(ls)
      BY <1>3, <2>1 DEF IInv, MarkInRule, Governor, DEFGOV
    <2> QED BY <2>1, <2>2
  <1>4. ~skipped => \A r \in Range(gram'.rules) : r.gov < Len(r.right)
    BY <1>2, <1>3 DEF IInv, MarkInRule
  <1> QED BY <1>2, <1>4 DEF StoreRule

\* Every action of the reader keeps the marks where they belong.
LEMMA Inductive == IInv /\ [Read]_reader => IInv'
  <1> SUFFICES ASSUME IInv, [Read]_reader PROVE IInv'
    OBVIOUS
  <1> USE DEF InRule
  <1>1. CASE Error
    BY <1>1 DEF Error, IInv, Sequence
  <1>2. CASE EndRule
    <2>1. ls' = Append(ls, categ) /\ ~havegov' /\ skipped' = skipped /\ stat \in {4, 5} /\ StoreRule
      BY <1>2, Stored DEF EndRule, To
    <2>2. Sequence(ls')
      BY <2>1, Appended DEF IInv
    <2> QED BY <2>1, <2>2, Stored DEF IInv, MarkInRule, Sequence
  <1>3. CASE EndOther
    <2>1. stat \notin InRule
      BY <1>3, Sources DEF EndOther
    <2> QED BY <1>3, <2>1 DEF EndOther, To, IInv, MarkInRule, Sequence
  <1>4. CASE RuleHead
    <2>1. stat = 1 /\ gram'.rules = gram.rules
      BY <1>4, Sources DEF RuleHead
    <2> QED BY <1>4, <2>1 DEF RuleHead, To, IInv, MarkInRule, Sequence
  <1>5. CASE Arrow
    <2>1. stat = 2
      BY <1>5, Sources DEF Arrow, To, NewStat, trans, Directives
    <2> QED BY <1>5, <2>1, Empty DEF Arrow, To, IInv, MarkInRule, Sequence
  <1>6. CASE Comma
    <2>1. ls' = Append(ls, categ) /\ skipped' = skipped /\ stat' = 3 /\ UNCHANGED <<gov, havegov, gram>>
      BY <1>6 DEF Comma, To
    <2>2. Sequence(ls') /\ Len(ls') = Len(ls) + 1 /\ Len(ls) \in Nat
      BY <2>1, Appended DEF IInv
    <2> QED BY <2>1, <2>2 DEF IInv, MarkInRule, Sequence
  <1>7. CASE Bar
    <2>1. stat \in {4, 5}
      BY <1>7, Sources DEF Bar, To, NewStat, trans, Directives
    <2>2. ls' = <<>> /\ skipped' = skipped /\ StoreRule
      BY <1>7 DEF Bar, To
    <2> QED BY <2>1, <2>2, Stored, Empty DEF IInv, MarkInRule, Sequence
  <1>8. CASE RightSymbol
    BY <1>8 DEF RightSymbol, To, IInv, MarkInRule, Sequence
  <1>9. CASE Specific
    BY <1>9 DEF Specific, To, IInv, MarkInRule, Sequence
  <1>10. CASE Directive
    <2>1. stat \notin InRule
      BY <1>10, Sources DEF Directive
    <2> QED BY <1>10, <2>1 DEF Directive, To, IInv, MarkInRule, Sequence
  <1>11. CASE Listed
    <2>1. stat \notin InRule
      BY <1>11, Sources DEF Listed
    <2>2. gram'.rules = gram.rules
      <3>1. CASE gram' = [gram EXCEPT !.prior = Append(@, Category)]
        BY <3>1
      <3>2. CASE gram' = [gram EXCEPT !.hidden = @ \cup {Category}]
        BY <3>2
      <3>3. CASE gram' = [gram EXCEPT !.flat = @ \cup {Category}]
        BY <3>3
      <3>4. CASE gram' = [gram EXCEPT !.notop = @ \cup {Category}]
        BY <3>4
      <3>5. CASE gram' = [gram EXCEPT !.onlytop = @ \cup {Category}]
        BY <3>5
      <3> QED BY <1>11, <3>1, <3>2, <3>3, <3>4, <3>5 DEF Listed
    <2> QED BY <1>11, <2>1, <2>2 DEF Listed, To, IInv, MarkInRule, Sequence
  <1>12. CASE NotAllowed
    <2>1. stat \notin InRule
      BY <1>12, Sources DEF NotAllowed
    <2> QED BY <1>12, <2>1 DEF NotAllowed, To, IInv, MarkInRule, Sequence
  <1>13. CASE StartDirective
    <2>1. stat \notin InRule
      BY <1>13, Sources DEF StartDirective
    <2> QED BY <1>13, <2>1 DEF StartDirective, To, IInv, MarkInRule, Sequence
  <1>14. CASE StartSymbol
    <2>1. stat \notin InRule /\ gram'.rules = gram.rules
      BY <1>14, Sources DEF StartSymbol
    <2> QED BY <1>14, <2>1 DEF StartSymbol, To, IInv, MarkInRule, Sequence
  <1>15. CASE GovernorMark
    <2>1. Len(ls) \in Nat
      BY Appended DEF IInv
    <2> QED BY <1>15, <2>1 DEF GovernorMark, To, IInv, MarkInRule, Sequence
  <1>16. CASE UNCHANGED reader
    BY <1>16 DEF reader, IInv, MarkInRule, Sequence
  <1> QED BY <1>1, <1>2, <1>3, <1>4, <1>5, <1>6, <1>7, <1>8, <1>9, <1>10, <1>11, <1>12, <1>13,
             <1>14, <1>15, <1>16 DEF Read

\* Whatever the grammar file holds, each rule that grammar.cc stores has its governor
\* within its right side, as long as nothing was skipped: chart.cc takes the governor
\* for the position of a child, and dependencies.cc looks for the head there.
THEOREM GovernorOfRule == SpecGrammar => []GovernorInRule
  <1>1. IInv => GovernorInRule
    BY DEF IInv, MarkInRule, GovernorInRule
  <1> QED BY <1>1, InitialState, Inductive, PTL DEF SpecGrammar

-----------------------------------------------------------------------------
(* Lists of paths: the best of all that were inserted.                       *)

Logs == Int \cup {ZERO}

\* Logarithms are ordered, ZERO below all others.
LEMMA NoWorseOrders ==
  ASSUME NEW a \in Logs, NEW b \in Logs, NEW c \in Logs, ZERO \notin Int
  PROVE  /\ NoWorse(a, a)
         /\ NoWorse(a, b) \/ NoWorse(b, a)
         /\ NoWorse(a, b) /\ NoWorse(b, c) => NoWorse(a, c)
  BY DEF NoWorse, Logs

\* The sum of two logarithms is one.
LEMMA PlusType ==
  ASSUME NEW a \in Logs, NEW b \in Logs
  PROVE  Plus(a, b) \in Logs
  BY DEF Plus, Logs

\* What is no worse stays no worse when the same is added.
LEMMA PlusMonotone ==
  ASSUME NEW a \in Logs, NEW b \in Logs, NEW c \in Logs, NoWorse(a, b), ZERO \notin Int
  PROVE  NoWorse(Plus(a, c), Plus(b, c))
  <1>1. CASE b = ZERO \/ c = ZERO
    BY <1>1 DEF Plus, NoWorse
  <1>2. CASE b # ZERO /\ c # ZERO
    <2>1. a \in Int /\ b \in Int /\ c \in Int /\ a >= b /\ a # ZERO
      BY <1>2 DEF Logs, NoWorse
    <2>2. a + c \in Int /\ b + c \in Int /\ a + c >= b + c
      BY <2>1
    <2> QED BY <1>2, <2>1, <2>2 DEF Plus, NoWorse
  <1> QED BY <1>1, <1>2

\* Such a list of the paths of A: none that is left out is better than one of it.
Sorted(L)      == \A i, j \in 1..Len(L) : i <= j => NoWorse(L[i].prob, L[j].prob)
Different(L)   == \A i, j \in 1..Len(L) : L[i] = L[j] => i = j
LeftOut(L, p)  == Len(L) = opt.kbest /\ \A i \in 1..Len(L) : NoWorse(L[i].prob, p)
HasProb(e) == e.prob \in Logs

BestOf(L, A) ==
  /\ Len(L) \in Nat /\ Len(L) <= opt.kbest /\ L = [i \in 1..Len(L) |-> L[i]]
  /\ \A i \in 1..Len(L) : L[i] \in A
  /\ Sorted(L) /\ Different(L)
  /\ \A a \in A : (\E i \in 1..Len(L) : L[i] = a) \/ LeftOut(L, a.prob)

\* The place of a path is after those that are no worse.
PlaceOf(L, e, n) == n \in 0..Len(L) /\ \A m \in 1..Len(L) : m <= n <=> NoWorse(L[m].prob, e.prob)

\* A list in order has a place for every path.
LEMMA PlaceExists ==
  ASSUME NEW L, NEW e, ZERO \notin Int, Len(L) \in Nat, Sorted(L), HasProb(e),
         \A i \in 1..Len(L) : HasProb(L[i])
  PROVE  \E n : PlaceOf(L, e, n)
  <1> DEFINE S == {m \in 1..Len(L) : ~NoWorse(L[m].prob, e.prob)}
  <1>1. CASE S = {}
    <2>1. PlaceOf(L, e, Len(L))
      BY <1>1 DEF PlaceOf
    <2> QED BY <2>1
  <1>2. CASE S # {}
    <2>1. S \in SUBSET Nat
      OBVIOUS
    <2>2. PICK m \in S : \A kth \in S : m <= kth
      BY <1>2, <2>1, Least
    <2>3. ASSUME NEW kth \in 1..Len(L) PROVE kth <= m - 1 <=> NoWorse(L[kth].prob, e.prob)
      <3>1. CASE kth <= m - 1
        BY <2>2, <3>1
      <3>2. CASE ~(kth <= m - 1)
        <4>1. NoWorse(L[m].prob, L[kth].prob) /\ ~NoWorse(L[m].prob, e.prob)
          BY <2>2, <3>2 DEF Sorted
        <4>2. L[m].prob \in Logs /\ L[kth].prob \in Logs /\ e.prob \in Logs
          BY <2>2 DEF HasProb
        <4>3. ~NoWorse(L[kth].prob, e.prob)
          BY <4>1, <4>2, NoWorseOrders
        <4> QED BY <3>2, <4>3
      <3> QED BY <3>1, <3>2
    <2>4. m - 1 \in 0..Len(L)
      BY <2>2
    <2>5. PlaceOf(L, e, m - 1)
      BY <2>3, <2>4 DEF PlaceOf
    <2> QED BY <2>5
  <1> QED BY <1>1, <1>2

\* A list that a path e is put into at n + 1, of that size.
Puts(L, e, n, room, M) ==
  M = [m \in 1..room |-> IF m <= n THEN L[m] ELSE IF m = n + 1 THEN e ELSE L[m - 1]]

\* trellis::insert puts the path at its place.
LEMMA InsertPuts ==
  ASSUME NEW L, NEW e, ZERO \notin Int, L = [i \in 1..Len(L) |-> L[i]], Len(L) \in Nat, Sorted(L), HasProb(e),
         \A i \in 1..Len(L) : HasProb(L[i])
  PROVE  \E n : PlaceOf(L, e, n)
                /\ Puts(L, e, n, IF Len(L) < opt.kbest THEN Len(L) + 1 ELSE opt.kbest, Insert(L, e))
  <1> DEFINE room == IF Len(L) < opt.kbest THEN Len(L) + 1 ELSE opt.kbest
             n == CHOOSE n \in 0..Len(L) : \A m \in DOMAIN L : m <= n <=> NoWorse(L[m].prob, e.prob)
  <1>1. DOMAIN L = 1..Len(L)
    OBVIOUS
  <1>2. \E kth \in 0..Len(L) : \A m \in DOMAIN L : m <= kth <=> NoWorse(L[m].prob, e.prob)
    BY <1>1, PlaceExists DEF PlaceOf
  <1>3. n \in 0..Len(L) /\ \A m \in DOMAIN L : m <= n <=> NoWorse(L[m].prob, e.prob)
    BY <1>2
  <1>4. PlaceOf(L, e, n)
    BY <1>1, <1>3 DEF PlaceOf
  <1>5. Puts(L, e, n, room, Insert(L, e))
    BY DEF Puts, Insert, Inserted
  <1> HIDE DEF n, room
  <1> QED BY <1>4, <1>5 DEF room

\* Another path is looked at.
LEMMA InsertKeepsBest ==
  ASSUME NEW L, NEW A, NEW e, ZERO \notin Int, opt.kbest \in Nat \ {0}, \A a \in A : HasProb(a), HasProb(e),
         e \notin A, BestOf(L, A)
  PROVE  BestOf(Insert(L, e), A \cup {e})
  <1> DEFINE K == opt.kbest
             l == Len(L)
             M == Insert(L, e)
             room == IF l < K THEN l + 1 ELSE K
  <1>1. /\ l \in Nat /\ l <= K /\ K \in Nat \ {0} /\ room \in 1..K /\ room \in {l, l + 1}
        /\ L = [i \in 1..l |-> L[i]] /\ Sorted(L) /\ \A i \in 1..l : L[i] \in A /\ HasProb(L[i])
    BY DEF BestOf
  <1>2. PICK n : PlaceOf(L, e, n) /\ Puts(L, e, n, room, M)
    BY <1>1, InsertPuts
  <1> HIDE DEF M, K, l, room
  <1>3. /\ n \in 0..l /\ \A m \in 1..l : m <= n <=> NoWorse(L[m].prob, e.prob)
        /\ room = IF l < K THEN l + 1 ELSE K
    BY <1>2 DEF PlaceOf, l, room
  <1>4. M = [m \in 1..room |-> IF m <= n THEN L[m] ELSE IF m = n + 1 THEN e ELSE L[m - 1]]
    BY <1>2 DEF Puts
  <1>5. Len(M) = room /\ M = [m \in 1..room |-> M[m]]
    BY <1>1, <1>4
  <1>6. \A m \in 1..room : /\ m <= n => m \in 1..l /\ M[m] = L[m]
                           /\ m = n + 1 => M[m] = e
                           /\ m > n + 1 => m - 1 \in 1..l /\ M[m] = L[m - 1]
    BY <1>1, <1>3, <1>4
  <1>0. ASSUME NEW i \in 1..room PROVE i <= n \/ i = n + 1 \/ i > n + 1
    BY <1>1, <1>3
  <1>7. ASSUME NEW i \in 1..room PROVE M[i] \in A \cup {e} /\ HasProb(M[i])
    <2>1. CASE i = n + 1
      BY <1>6, <2>1
    <2>2. CASE i # n + 1
      <3>1. PICK m \in 1..l : M[i] = L[m]
        BY <1>0, <1>6, <2>2
      <3> QED BY <1>1, <3>1
    <2> QED BY <2>1, <2>2
  <1>8. ASSUME NEW i \in 1..l, NEW j \in 1..l PROVE (L[i] = L[j] => i = j) /\ L[i] # e
    BY <1>1 DEF BestOf, Different, l
  <1>9. ASSUME NEW i \in 1..room, NEW j \in 1..room, M[i] = M[j] PROVE i = j
    <2>2. ASSUME NEW kth \in 1..room, kth # n + 1
          PROVE  \E m \in 1..l : M[kth] = L[m] /\ (kth <= n => m = kth /\ m <= n) /\ (kth > n => m = kth - 1 /\ m > n)
      <3>1. CASE kth <= n
        <4>1. kth \in 1..l /\ M[kth] = L[kth] /\ ~(kth > n)
          BY <1>3, <1>6, <3>1
        <4> QED BY <3>1, <4>1
      <3>2. CASE kth > n + 1
        <4>1. kth - 1 \in 1..l /\ M[kth] = L[kth - 1] /\ kth > n /\ ~(kth <= n) /\ kth - 1 > n
          BY <1>3, <1>6, <3>2
        <4> QED BY <4>1
      <3> QED BY <1>0, <2>2, <3>1, <3>2
    <2>3. CASE i # n + 1 /\ j # n + 1
      <3>1. PICK m \in 1..l : M[i] = L[m] /\ (i <= n => m = i /\ m <= n) /\ (i > n => m = i - 1 /\ m > n)
        BY <2>2, <2>3
      <3>2. PICK kth \in 1..l : M[j] = L[kth] /\ (j <= n => kth = j /\ kth <= n) /\ (j > n => kth = j - 1 /\ kth > n)
        BY <2>2, <2>3
      <3>3. m = kth
        BY <1>8, <1>9, <3>1, <3>2
      <3> QED BY <1>3, <3>1, <3>2, <3>3
    <2>4. CASE i = n + 1 /\ j # n + 1
      <3>1. PICK kth \in 1..l : M[j] = L[kth]
        BY <2>2, <2>4
      <3> QED BY <1>6, <1>8, <1>9, <2>4, <3>1
    <2>5. CASE i # n + 1 /\ j = n + 1
      <3>1. PICK kth \in 1..l : M[i] = L[kth]
        BY <2>2, <2>5
      <3> QED BY <1>6, <1>8, <1>9, <2>5, <3>1
    <2> QED BY <2>3, <2>4, <2>5
  <1>10. ASSUME NEW m \in 1..l, m > n PROVE NoWorse(e.prob, L[m].prob)
    BY <1>1, <1>3, <1>10, NoWorseOrders DEF HasProb
  <1>11. ASSUME NEW i \in 1..room, NEW j \in 1..room, i <= j PROVE NoWorse(M[i].prob, M[j].prob)
    <2>1. (i <= n \/ i = n + 1 \/ i > n + 1) /\ (j <= n \/ j = n + 1 \/ j > n + 1)
      BY <1>1, <1>3
    <2>2. CASE i = j
      BY <1>7, <2>2, NoWorseOrders DEF HasProb
    <2>3. CASE i < j /\ i <= n
      <3>1. M[i] = L[i] /\ i \in 1..l
        BY <1>6, <2>3
      <3>2. CASE j = n + 1
        BY <1>3, <1>6, <2>3, <3>1, <3>2
      <3>3. CASE j <= n
        BY <1>1, <1>6, <3>1, <3>3, <1>11 DEF Sorted, l
      <3>4. CASE j > n + 1
        <4>1. j - 1 \in 1..l /\ M[j] = L[j - 1] /\ i <= j - 1
          BY <1>3, <1>6, <2>3, <3>4
        <4> QED BY <1>1, <3>1, <4>1 DEF Sorted, l
      <3> QED BY <2>1, <3>2, <3>3, <3>4
    <2>4. CASE i < j /\ i = n + 1
      <3>1. M[i] = e /\ j - 1 \in 1..l /\ M[j] = L[j - 1] /\ j - 1 > n
        BY <1>3, <1>6, <2>4
      <3> QED BY <1>10, <3>1
    <2>5. CASE i < j /\ i > n + 1
      <3>1. /\ i - 1 \in 1..l /\ M[i] = L[i - 1] /\ j - 1 \in 1..l /\ M[j] = L[j - 1] /\ i - 1 <= j - 1
        BY <1>3, <1>6, <2>5
      <3> QED BY <1>1, <3>1 DEF Sorted, l
    <2> QED BY <1>11, <2>1, <2>2, <2>3, <2>4, <2>5
  <1>12. ASSUME NEW m \in 1..l, m <= n PROVE \E i \in 1..room : M[i] = L[m]
    <2>1. m \in 1..room
      BY <1>1, <1>3, <1>12
    <2> QED BY <1>6, <1>12, <2>1
  <1>13. ASSUME NEW m \in 1..l, m > n, m + 1 \in 1..room PROVE \E i \in 1..room : M[i] = L[m]
    <2>1. M[m + 1] = L[(m + 1) - 1]
      BY <1>3, <1>6, <1>13
    <2> QED BY <1>13, <2>1
  <1>14. n + 1 \in 1..room => \E i \in 1..room : M[i] = e
    BY <1>6
  \* What does not fit in.
  <1>15. ASSUME n + 1 \notin 1..room
         PROVE  room = K /\ \A i \in 1..room : NoWorse(M[i].prob, e.prob)
    <2>1. n = l /\ l = room /\ room = K
      BY <1>1, <1>3, <1>15
    <2> QED BY <1>3, <1>6, <2>1
  <1>16. ASSUME NEW m \in 1..l, m > n, m + 1 \notin 1..room
         PROVE  room = K /\ m = l /\ \A i \in 1..room : NoWorse(M[i].prob, L[m].prob)
    <2>1. m = l /\ l = room /\ room = K
      BY <1>1, <1>3, <1>16
    <2>2. ASSUME NEW i \in 1..room PROVE NoWorse(M[i].prob, L[m].prob)
      <3>1. CASE i <= n
        BY <1>1, <1>6, <2>1, <3>1 DEF Sorted, l
      <3>2. CASE i = n + 1
        BY <1>6, <1>10, <1>16, <3>2
      <3>3. CASE i > n + 1
        <4>1. i - 1 \in 1..l /\ M[i] = L[i - 1] /\ i - 1 <= m
          BY <1>6, <2>1, <3>3
        <4> QED BY <1>1, <4>1 DEF Sorted, l
      <3> QED BY <1>3, <3>1, <3>2, <3>3
    <2> QED BY <2>1, <2>2
  <1>17. ASSUME NEW a \in A, LeftOut(L, a.prob) PROVE room = K /\ \A i \in 1..room : NoWorse(M[i].prob, a.prob)
    <2>1. l = K /\ \A i \in 1..l : NoWorse(L[i].prob, a.prob)
      BY <1>17 DEF LeftOut, l, K
    <2>2. room = K /\ l = room
      BY <1>1, <1>3, <2>1
    <2>3. ASSUME NEW i \in 1..room PROVE NoWorse(M[i].prob, a.prob)
      <3>1. CASE i <= n
        BY <1>6, <2>1, <3>1
      <3>2. CASE i > n + 1
        BY <1>6, <2>1, <3>2
      <3>3. CASE i = n + 1
        <4>1. i \in 1..l /\ i > n
          BY <2>2, <3>3, <1>3
        <4>2. NoWorse(e.prob, L[i].prob) /\ NoWorse(L[i].prob, a.prob)
          BY <1>10, <2>1, <4>1
        <4>3. HasProb(L[i]) /\ HasProb(a)
          BY <1>1, <4>1
        <4>4. NoWorse(e.prob, a.prob)
          BY <4>2, <4>3, NoWorseOrders DEF HasProb
        <4> QED BY <1>6, <3>3, <4>4
      <3> QED BY <1>3, <3>1, <3>2, <3>3
    <2> QED BY <2>2, <2>3
  <1>18. ASSUME NEW a \in A \cup {e} PROVE (\E i \in 1..room : M[i] = a) \/ LeftOut(M, a.prob)
    <2>1. CASE a = e
      BY <1>5, <1>14, <1>15, <2>1 DEF LeftOut, K
    <2>2. CASE a \in A /\ LeftOut(L, a.prob)
      BY <1>5, <1>17, <2>2 DEF LeftOut, K
    <2>3. CASE a \in A /\ ~LeftOut(L, a.prob)
      <3>1. PICK m \in 1..l : L[m] = a
        BY <2>3 DEF BestOf, l
      <3>2. CASE m <= n
        BY <1>12, <3>1, <3>2
      <3>3. CASE m > n /\ m + 1 \in 1..room
        BY <1>13, <3>1, <3>3
      <3>4. CASE m > n /\ m + 1 \notin 1..room
        BY <1>5, <1>16, <3>1, <3>4 DEF LeftOut, K
      <3> QED BY <1>3, <3>2, <3>3, <3>4
    <2> QED BY <2>1, <2>2, <2>3
  <1>19. Sorted(M) /\ Different(M)
    BY <1>5, <1>9, <1>11 DEF Sorted, Different
  <1>20. Len(M) \in Nat /\ Len(M) <= opt.kbest
    BY <1>1, <1>5 DEF K
  <1> QED BY <1>5, <1>7, <1>18, <1>19, <1>20 DEF BestOf, M

-----------------------------------------------------------------------------
(* Arrivals: the best of the paths from every state before.                  *)

\* A column that arrivals may come from: its lists for the states of R, and the
\* steps from these.
Ready(Col, R, step) ==
  /\ IsFiniteSet(R) /\ DOMAIN step = R
  /\ \A r \in R : /\ step[r] \in Logs
                  /\ Len(Col[r]) \in Nat /\ DOMAIN Col[r] = 1..Len(Col[r])
                  /\ \A kth \in 1..Len(Col[r]) : HasProb(Col[r][kth])

Arrivals(Col, R, step) == UNION {Range(Paths(Col, r, step)) : r \in R}

\* The fields of a path.
LEMMA ElementIs ==
  ASSUME NEW s, NEW kth, NEW p
  PROVE  Element(s, kth, p).state = s /\ Element(s, kth, p).kbest = kth /\ Element(s, kth, p).prob = p
  BY DEF Element

\* The paths into a state: the list before it, in its order.
LEMMA PathsAre ==
  ASSUME NEW Col, NEW R, NEW step, Ready(Col, R, step), NEW r \in R
  PROVE  /\ DOMAIN Paths(Col, r, step) = 1..Len(Col[r])
         /\ \A kth \in 1..Len(Col[r]) :
              LET e == Paths(Col, r, step)[kth] IN
              /\ e = Element(r, kth - 1, Plus(Col[r][kth].prob, step[r]))
              /\ e.state = r /\ e.kbest = kth - 1 /\ e.prob = Plus(Col[r][kth].prob, step[r]) /\ HasProb(e)
         /\ Paths(Col, r, step) \in Seq(Range(Paths(Col, r, step)))
         /\ IsInjective(Paths(Col, r, step))
  <1> DEFINE P == Paths(Col, r, step)
  <1>1. /\ DOMAIN P = 1..Len(Col[r]) /\ Len(Col[r]) \in Nat
        /\ \A kth \in 1..Len(Col[r]) : P[kth] = Element(r, kth - 1, Plus(Col[r][kth].prob, step[r]))
    BY DEF Paths, Ready
  <1>2. P = [kth \in 1..Len(Col[r]) |-> P[kth]]
    BY DEF Paths, Ready
  <1> HIDE DEF P
  <1>3. \A kth \in 1..Len(Col[r]) : /\ P[kth].state = r /\ P[kth].kbest = kth - 1
                               /\ P[kth].prob = Plus(Col[r][kth].prob, step[r])
    BY <1>1, ElementIs
  <1>4. \A kth \in 1..Len(Col[r]) : Plus(Col[r][kth].prob, step[r]) \in Logs
    BY PlusType DEF Ready, HasProb
  <1>5. P \in Seq(Range(P))
    BY <1>1, <1>2 DEF Range
  <1>6. ASSUME NEW i \in 1..Len(Col[r]), NEW j \in 1..Len(Col[r]), P[i] = P[j] PROVE i = j
    BY <1>1, <1>3, <1>6
  <1>7. IsInjective(P)
    BY <1>1, <1>6 DEF IsInjective
  <1> QED BY <1>1, <1>3, <1>4, <1>5, <1>7 DEF HasProb, P

\* They have logarithms, and tell which path each goes on from.
LEMMA PathsHave ==
  ASSUME NEW Col, NEW R, NEW step, Ready(Col, R, step), NEW r \in R, NEW e \in Range(Paths(Col, r, step))
  PROVE  \E kth \in 1..Len(Col[r]) : /\ e = Element(r, kth - 1, Plus(Col[r][kth].prob, step[r]))
                                 /\ e.state = r /\ e.kbest = kth - 1 /\ HasProb(e)
                                 /\ e.prob = Plus(Col[r][kth].prob, step[r])
  <1> DEFINE P == Paths(Col, r, step)
  <1>1. /\ DOMAIN P = 1..Len(Col[r])
        /\ \A kth \in 1..Len(Col[r]) :
             /\ P[kth] = Element(r, kth - 1, Plus(Col[r][kth].prob, step[r]))
             /\ P[kth].state = r /\ P[kth].kbest = kth - 1 /\ P[kth].prob = Plus(Col[r][kth].prob, step[r]) /\ HasProb(P[kth])
    BY PathsAre
  <1>2. e \in Range(P)
    OBVIOUS
  <1> HIDE DEF P
  <1>3. PICK kth \in 1..Len(Col[r]) : e = P[kth]
    BY <1>1, <1>2 DEF Range
  <1> QED BY <1>1, <1>3

\* What the definition of Arrive asks of its recursive function, up to n.
Fills(g, all, n) == g = [m \in 0..n |-> IF m = 0 THEN <<>> ELSE Insert(g[m - 1], all[m])]

\* The lists that the paths fill one after the other exist.
LEMMA FillsExists ==
  ASSUME NEW all, NEW n \in Nat
  PROVE  \E g : Fills(g, all, n)
  <1> DEFINE S == {m \in Nat : \E g : Fills(g, all, m)}
  <1>1. 0 \in S
    <2>1. Fills([m \in 0..0 |-> <<>>], all, 0)
      BY DEF Fills
    <2> QED BY <2>1
  <1>2. ASSUME NEW m \in Nat, m \in S PROVE m + 1 \in S
    <2>1. PICK g : Fills(g, all, m)
      BY <1>2
    <2> DEFINE last == Insert(g[m], all[m + 1])
               h == [i \in 0..(m + 1) |-> IF i <= m THEN g[i] ELSE last]
    <2>2. ASSUME NEW i \in 0..(m + 1)
          PROVE  h[i] = IF i = 0 THEN <<>> ELSE Insert(h[i - 1], all[i])
      <3>1. CASE i <= m
        <4>1. g[i] = IF i = 0 THEN <<>> ELSE Insert(g[i - 1], all[i])
          <5>1. i \in 0..m
            BY <3>1
          <5> HIDE DEF h
          <5> QED BY <2>1, <5>1 DEF Fills
        <4>2. i # 0 => h[i - 1] = g[i - 1]
          BY <3>1
        <4>3. h[i] = g[i]
          BY <3>1
        <4> HIDE DEF h
        <4> QED BY <4>1, <4>2, <4>3
      <3>2. CASE i = m + 1
        <4>1. h[i - 1] = g[m] /\ h[i] = last /\ i # 0
          BY <3>2
        <4> QED BY <3>2, <4>1
      <3> QED BY <3>1, <3>2
    <2>3. h = [i \in 0..(m + 1) |-> h[i]]
      OBVIOUS
    <2> HIDE DEF h
    <2>4. Fills(h, all, m + 1)
      BY <2>2, <2>3 DEF Fills
    <2> QED BY <2>4
  <1> HIDE DEF S
  <1>3. Nat \subseteq S
    BY <1>1, <1>2, Induct
  <1> QED BY <1>3 DEF S

\* Of different paths that come one after the other, the list that is left has the best.
LEMMA FillsBest ==
  ASSUME NEW all, NEW n \in Nat, NEW g, Fills(g, all, n), ZERO \notin Int, opt.kbest \in Nat \ {0},
         \A i \in 1..n : HasProb(all[i]), \A i, j \in 1..n : all[i] = all[j] => i = j
  PROVE  BestOf(g[n], {all[i] : i \in 1..n})
  <1> DEFINE A(m) == {all[i] : i \in 1..m}
             S == {m \in Nat : m <= n => BestOf(g[m], A(m))}
  <1>1. 0 \in S
    <2>1. g[0] = <<>>
      BY DEF Fills
    <2>2. BestOf(<<>>, A(0))
      BY DEF BestOf, Sorted, Different
    <2> QED BY <2>1, <2>2
  <1>2. ASSUME NEW m \in Nat, m \in S PROVE m + 1 \in S
    <2> SUFFICES ASSUME m + 1 <= n PROVE BestOf(g[m + 1], A(m + 1))
      OBVIOUS
    <2>1. m + 1 \in 1..n /\ m + 1 \in 0..n /\ m + 1 # 0 /\ (m + 1) - 1 = m /\ \A i \in 1..m : i \in 1..n /\ i # m + 1
      OBVIOUS
    <2>2. g[m + 1] = Insert(g[m], all[m + 1])
      BY <2>1 DEF Fills
    <2>3. BestOf(g[m], A(m))
      BY <1>2
    <2>4. all[m + 1] \notin A(m) /\ (\A a \in A(m) : HasProb(a)) /\ HasProb(all[m + 1])
      BY <2>1
    <2>5. A(m + 1) = A(m) \cup {all[m + 1]}
      OBVIOUS
    <2> HIDE DEF A
    <2> QED BY <2>2, <2>3, <2>4, <2>5, InsertKeepsBest
  <1> HIDE DEF S
  <1>3. n \in S
    BY <1>1, <1>2, Induct
  <1> QED BY <1>3 DEF S

\* What arrives at a state is the best of all that may.
LEMMA ArriveBest ==
  ASSUME NEW Col, NEW R, NEW step, Ready(Col, R, step), ZERO \notin Int, opt.kbest \in Nat \ {0}
  PROVE  BestOf(Arrive(Col, step), Arrivals(Col, R, step))
  <1> DEFINE from == SetToSeq(DOMAIN step)
             s == [m \in DOMAIN from |-> Paths(Col, from[m], step)]
             all == FlattenSeq(s)
             n == Len(all)
             T == Arrivals(Col, R, step)
             best == CHOOSE g : g = [m \in 0..n |-> IF m = 0 THEN <<>> ELSE Insert(g[m - 1], all[m])]
  <1>1. DOMAIN step = R /\ IsFiniteSet(R)
    BY DEF Ready
  <1>2. /\ from \in Seq(R) /\ Range(from) = R /\ IsInjective(from)
        /\ DOMAIN from = 1..Len(from) /\ Len(from) \in Nat
    BY <1>1, SetInOrder
  <1>3. \A m \in 1..Len(from) : from[m] \in R
    BY <1>2
  <1>4. DOMAIN s = 1..Len(from) /\ Len(s) = Len(from) /\ \A m \in 1..Len(from) : s[m] = Paths(Col, from[m], step)
    BY <1>2
  <1>5. ASSUME NEW m \in 1..Len(from) PROVE s[m] \in Seq(T) /\ IsInjective(s[m])
    <2>1. Paths(Col, from[m], step) \in Seq(Range(Paths(Col, from[m], step))) /\ IsInjective(Paths(Col, from[m], step))
      BY <1>3, PathsAre
    <2>2. Range(Paths(Col, from[m], step)) \subseteq T
      BY <1>3 DEF Arrivals
    <2> HIDE DEF T, s
    <2> QED BY <1>4, <2>1, <2>2
  <1>6. s \in Seq(Seq(T))
    <2> HIDE DEF T, from
    <2> QED BY <1>2, <1>5
  <1>7. ASSUME NEW i \in 1..Len(s), NEW j \in 1..Len(s), i # j, NEW e \in Range(s[i]) PROVE e \notin Range(s[j])
    <2>1. from[i] # from[j] /\ from[i] \in R /\ from[j] \in R
      BY <1>2, <1>3, <1>4, <1>7 DEF IsInjective
    <2>2. ASSUME NEW r \in R, NEW x \in Range(Paths(Col, r, step)) PROVE x.state = r
      BY PathsHave
    <2>3. s[i] = Paths(Col, from[i], step) /\ s[j] = Paths(Col, from[j], step)
      BY <1>4
    <2> HIDE DEF s, from
    <2> QED BY <1>7, <2>1, <2>2, <2>3
  <1> HIDE DEF s
  <1>8. AllDifferent(s)
    BY <1>4, <1>5, <1>7 DEF AllDifferent
  <1>9. IsInjective(all) /\ all \in Seq(T) /\ Range(all) = UNION {Range(s[m]) : m \in 1..Len(s)}
    BY <1>6, <1>8, FlattenDifferent, FlattenType, FlattenRange
  <1>10. Range(all) = T
    <2>1. {Range(s[m]) : m \in 1..Len(s)} = {Range(Paths(Col, r, step)) : r \in R}
      <3>1. \A m \in 1..Len(s) : from[m] \in R /\ s[m] = Paths(Col, from[m], step)
        BY <1>3, <1>4
      <3>2. \A r \in R : \E m \in 1..Len(s) : r = from[m]
        BY <1>2, <1>4 DEF Range
      <3> HIDE DEF from
      <3> QED BY <3>1, <3>2
    <2> QED BY <1>9, <2>1 DEF Arrivals
  <1>11. n \in Nat /\ DOMAIN all = 1..n
    <2> HIDE DEF all, T
    <2> QED BY <1>9
  <1>12. T = {all[i] : i \in 1..n}
    <2> HIDE DEF T, all
    <2> QED BY <1>10, <1>11 DEF Range
  <1>13. Arrive(Col, step) = best[n]
    BY DEF Arrive, s
  <1> HIDE DEF all, n
  <1>14. Fills(best, all, n)
    <2>1. \E g : Fills(g, all, n)
      BY <1>11, FillsExists
    <2> QED BY <2>1 DEF Fills
  <1>15. ASSUME NEW e \in T PROVE HasProb(e)
    <2>1. PICK r \in R : e \in Range(Paths(Col, r, step))
      BY DEF Arrivals
    <2> QED BY <2>1, PathsHave
  <1> HIDE DEF T, best
  <1>16. \A i, j \in 1..n : all[i] = all[j] => i = j
    BY <1>9, <1>11 DEF IsInjective
  <1>17. \A i \in 1..n : HasProb(all[i])
    BY <1>12, <1>15
  <1>18. BestOf(best[n], {all[i] : i \in 1..n})
    BY <1>11, <1>14, <1>16, <1>17, FillsBest
  <1> QED BY <1>12, <1>13, <1>18 DEF T

-----------------------------------------------------------------------------
(* Sequences instead of paths: merging what each state has.                  *)

\* The list L has the best of the sequences of Q, which have the probabilities v: its
\* k-th path is the sequence D[k].
KBestOf(L, D, Q, v) ==
  /\ Len(L) \in Nat /\ Len(L) <= opt.kbest /\ DOMAIN L = 1..Len(L)
  /\ D \in [1..Len(L) -> Q] /\ \A i, j \in 1..Len(L) : D[i] = D[j] => i = j
  /\ \A kth \in 1..Len(L) : L[kth].prob = v[D[kth]]
  /\ Sorted(L)
  /\ \A q \in Q : (\E kth \in 1..Len(L) : D[kth] = q) \/ LeftOut(L, v[q])

\* As many different paths as a list may have are all that it has.
HasAll(K, l, L, c) == /\ K \in Nat /\ l \in Nat /\ l <= K
                      /\ \A i, j \in 1..K : c[i] = c[j] => i = j
                      /\ \A j \in 1..K : \E i \in 1..l : L[i] = c[j]
HasNoOther(K, l, L, c) == l = K /\ \A i \in 1..l : \E j \in 1..K : L[i] = c[j]

\* Of as many different paths as a list may have, none is left out by the others.
LEMMA ListIsFull ==
  ASSUME NEW K, NEW l, NEW L, NEW c, HasAll(K, l, L, c)
  PROVE  HasNoOther(K, l, L, c)
  <1>0. /\ K \in Nat /\ l \in Nat /\ l <= K
        /\ \A i, j \in 1..K : c[i] = c[j] => i = j
        /\ \A j \in 1..K : \E i \in 1..l : L[i] = c[j]
    BY DEF HasAll
  <1> DEFINE f == [j \in 1..K |-> CHOOSE i \in 1..l : L[i] = c[j]]
  <1>1. \A j \in 1..K : f[j] \in 1..l /\ L[f[j]] = c[j]
    BY <1>0
  <1>2. f \in [1..K -> 1..l]
    BY <1>1
  <1> HIDE DEF f
  <1>3. ASSUME NEW i \in 1..K, NEW j \in 1..K, f[i] = f[j] PROVE i = j
    <2>1. L[f[i]] = c[i] /\ L[f[j]] = c[j]
      BY <1>1
    <2>2. c[i] = c[j]
      BY <1>3, <2>1
    <2> QED BY <1>0, <2>2
  <1>7. f \in Injection(1..K, 1..l)
    <2>1. DOMAIN f = 1..K
      BY <1>2
    <2> QED BY <1>2, <1>3, <2>1 DEF Injection, IsInjective
  <1>4. IsFiniteSet(1..l) /\ Cardinality(1..l) = l /\ Cardinality(1..K) = K
    BY <1>0, FS_Interval
  <1>5. K <= l /\ (K = l <=> f \in Surjection(1..K, 1..l))
    BY <1>4, <1>7, FS_Injection
  <1>6. l = K /\ f \in Surjection(1..K, 1..l)
    BY <1>0, <1>5
  <1>8. \A i \in 1..l : \E j \in 1..K : f[j] = i
    BY <1>6 DEF Surjection
  <1>9. ASSUME NEW i \in 1..l PROVE \E j \in 1..K : L[i] = c[j]
    <2>1. PICK j \in 1..K : f[j] = i
      BY <1>8
    <2>2. L[f[j]] = c[j]
      BY <1>1
    <2> QED BY <2>1, <2>2
  <1> QED BY <1>6, <1>9 DEF HasNoOther

\* Where the paths to merge come from: R, their sequences, and the step each makes.
Mergeable(Col, R, step, Q, D, v, w) ==
  /\ IsFiniteSet(R) /\ DOMAIN step = R
  /\ \A r \in R : /\ step[r] \in Logs /\ KBestOf(Col[r], D[r], Q[r], v)
                  /\ \A q \in Q[r] : v[q] \in Logs /\ w[q] = Plus(v[q], step[r])
  /\ \A r, s \in R : r # s => \A q \in Q[r] : q \notin Q[s]

\* The sequence of a path that arrives is that of the path it comes from.
From(L, D) == [kth \in 1..Len(L) |-> D[L[kth].state][L[kth].kbest + 1]]

\* The list L of paths that come from lists of the column Col has the best of E.
Merged(L, Col, R, E, Q, w) ==
  /\ KBestOf(L, E, Q, w)
  /\ \A kth \in 1..Len(L) : L[kth].state \in R /\ L[kth].kbest + 1 \in 1..Len(Col[L[kth].state])

\* The best of each state before are all that it takes to find the best of this one.
LEMMA Merge ==
  ASSUME NEW Col, NEW R, NEW step, NEW Q, NEW D, NEW v, NEW w, Mergeable(Col, R, step, Q, D, v, w),
         ZERO \notin Int, opt.kbest \in Nat \ {0}
  PROVE  LET L == Arrive(Col, step) IN Merged(L, Col, R, From(L, D), UNION {Q[r] : r \in R}, w)
  <1> DEFINE L == Arrive(Col, step)
             E == From(L, D)
             T == UNION {Q[r] : r \in R}
             K == opt.kbest
  <1>1. ASSUME NEW r \in R
        PROVE  /\ step[r] \in Logs /\ Len(Col[r]) \in Nat /\ Len(Col[r]) <= K /\ DOMAIN Col[r] = 1..Len(Col[r])
               /\ D[r] \in [1..Len(Col[r]) -> Q[r]] /\ \A i, j \in 1..Len(Col[r]) : D[r][i] = D[r][j] => i = j
               /\ \A kth \in 1..Len(Col[r]) : Col[r][kth].prob = v[D[r][kth]] /\ D[r][kth] \in Q[r] /\ Col[r][kth].prob \in Logs
               /\ \A q \in Q[r] : (\E kth \in 1..Len(Col[r]) : D[r][kth] = q) \/ LeftOut(Col[r], v[q])
    BY DEF Mergeable, KBestOf
  <1>2. Ready(Col, R, step)
    BY <1>1 DEF Mergeable, Ready, HasProb
  <1>3. BestOf(L, Arrivals(Col, R, step))
    BY <1>2, ArriveBest
  <1> HIDE DEF L, T, K
  <1>4. /\ Len(L) \in Nat /\ Len(L) <= K /\ DOMAIN L = 1..Len(L) /\ Sorted(L)
        /\ \A i, j \in 1..Len(L) : L[i] = L[j] => i = j
        /\ \A i \in 1..Len(L) : L[i] \in Arrivals(Col, R, step)
    BY <1>3 DEF BestOf, Different, K
  <1> DEFINE Comes(e, r, j) == /\ e = Element(r, j - 1, Plus(Col[r][j].prob, step[r]))
                               /\ e.state = r /\ e.kbest + 1 = j /\ HasProb(e)
                               /\ e.prob = Plus(Col[r][j].prob, step[r])
  <1>5. ASSUME NEW kth \in 1..Len(L)
        PROVE  \E r \in R : \E j \in 1..Len(Col[r]) : Comes(L[kth], r, j)
    <2>1. PICK r \in R : L[kth] \in Range(Paths(Col, r, step))
      BY <1>4 DEF Arrivals
    <2>2. PICK j \in 1..Len(Col[r]) : /\ L[kth] = Element(r, j - 1, Plus(Col[r][j].prob, step[r]))
                                    /\ L[kth].state = r /\ L[kth].kbest = j - 1 /\ HasProb(L[kth])
                                    /\ L[kth].prob = Plus(Col[r][j].prob, step[r])
      BY <1>2, <2>1, PathsHave
    <2>3. L[kth].kbest + 1 = j
      BY <2>2
    <2> QED BY <2>2, <2>3
  <1>6. ASSUME NEW kth \in 1..Len(L), NEW r \in R, NEW j \in 1..Len(Col[r]), Comes(L[kth], r, j)
        PROVE  E[kth] = D[r][j] /\ E[kth] \in Q[r] /\ L[kth].prob = w[E[kth]] /\ E[kth] \in T
    <2>1. E[kth] = D[r][j]
      BY <1>6 DEF From
    <2>2. D[r][j] \in Q[r] /\ Col[r][j].prob = v[D[r][j]]
      BY <1>1
    <2>3. w[D[r][j]] = Plus(v[D[r][j]], step[r])
      BY <2>2 DEF Mergeable
    <2> HIDE DEF E
    <2> QED BY <1>6, <2>1, <2>2, <2>3 DEF T
  <1>7. DOMAIN E = 1..Len(L) /\ E = [kth \in 1..Len(L) |-> E[kth]]
    BY DEF From
  <1> HIDE DEF E
  <1>8. E \in [1..Len(L) -> T] /\ \A kth \in 1..Len(L) : L[kth].prob = w[E[kth]]
    <2>1. ASSUME NEW kth \in 1..Len(L) PROVE E[kth] \in T /\ L[kth].prob = w[E[kth]]
      BY <1>5, <1>6
    <2> QED BY <1>7, <2>1
  <1>9. ASSUME NEW i \in 1..Len(L), NEW kth \in 1..Len(L), E[i] = E[kth] PROVE i = kth
    <2>1. PICK r \in R : \E j \in 1..Len(Col[r]) : Comes(L[i], r, j)
      BY <1>5
    <2>2. PICK j \in 1..Len(Col[r]) : Comes(L[i], r, j)
      BY <2>1
    <2>3. PICK s \in R : \E m \in 1..Len(Col[s]) : Comes(L[kth], s, m)
      BY <1>5
    <2>4. PICK m \in 1..Len(Col[s]) : Comes(L[kth], s, m)
      BY <2>3
    <2>5. E[i] = D[r][j] /\ E[i] \in Q[r] /\ E[kth] = D[s][m] /\ E[kth] \in Q[s]
      BY <1>6, <2>2, <2>4
    <2>6. r = s
      BY <1>9, <2>5 DEF Mergeable
    <2>7. j = m
      <3>1. m \in 1..Len(Col[r]) /\ D[r][j] = D[r][m]
        BY <1>9, <2>5, <2>6
      <3> QED BY <1>1, <3>1
    <2>8. L[i] = L[kth]
      BY <2>2, <2>4, <2>6, <2>7
    <2> QED BY <1>4, <2>8
  <1> DEFINE In(e) == \E i \in 1..Len(L) : L[i] = e
  <1>10. ASSUME NEW r \in R, NEW j \in 1..Len(Col[r])
         PROVE  Comes(Paths(Col, r, step)[j], r, j)
                /\ (In(Paths(Col, r, step)[j]) \/ LeftOut(L, Paths(Col, r, step)[j].prob))
    <2> DEFINE e == Paths(Col, r, step)[j]
    <2>1. /\ e = Element(r, j - 1, Plus(Col[r][j].prob, step[r])) /\ e.state = r /\ e.kbest = j - 1
          /\ e.prob = Plus(Col[r][j].prob, step[r]) /\ HasProb(e) /\ DOMAIN Paths(Col, r, step) = 1..Len(Col[r])
      BY <1>2, PathsAre
    <2>2. e \in Arrivals(Col, R, step)
      BY <2>1 DEF Arrivals, Range
    <2>3. In(e) \/ LeftOut(L, e.prob)
      BY <1>3, <2>2 DEF BestOf
    <2>4. e.kbest + 1 = j
      BY <2>1
    <2> HIDE DEF e, In
    <2> QED BY <2>1, <2>3, <2>4 DEF e
  <1>11. ASSUME NEW r \in R, NEW q \in Q[r] PROVE (\E kth \in 1..Len(L) : E[kth] = q) \/ LeftOut(L, w[q])
    <2>1. w[q] = Plus(v[q], step[r]) /\ v[q] \in Logs
      BY DEF Mergeable
    <2>2. CASE \E j \in 1..Len(Col[r]) : D[r][j] = q
      <3>1. PICK j \in 1..Len(Col[r]) : D[r][j] = q
        BY <2>2
      <3>5. PICK e : e = Paths(Col, r, step)[j]
        OBVIOUS
      <3>2. Comes(e, r, j) /\ (In(e) \/ LeftOut(L, e.prob))
        BY <1>10, <3>5
      <3>3. CASE In(e)
        <4>1. PICK kth \in 1..Len(L) : L[kth] = e
          BY <3>3
        <4>2. E[kth] = q
          BY <1>6, <3>1, <3>2, <4>1
        <4> QED BY <4>2
      <3>4. CASE LeftOut(L, e.prob)
        <4>1. e.prob = w[q]
          BY <1>1, <2>1, <3>1, <3>2
        <4> QED BY <3>4, <4>1
      <3> QED BY <3>2, <3>3, <3>4
    <2>3. CASE LeftOut(Col[r], v[q])
      <3>1. Len(Col[r]) = K /\ \A j \in 1..K : NoWorse(Col[r][j].prob, v[q])
        BY <2>3 DEF LeftOut, K
      <3>2. ASSUME NEW j \in 1..K, NEW e, e.prob = Plus(Col[r][j].prob, step[r]) PROVE NoWorse(e.prob, w[q]) /\ HasProb(e)
        <4>1. Col[r][j].prob \in Logs /\ step[r] \in Logs
          BY <1>1, <3>1
        <4> QED BY <2>1, <3>1, <3>2, <4>1, PlusMonotone, PlusType DEF HasProb
      <3> DEFINE c == [j \in 1..K |-> Paths(Col, r, step)[j]]
      <3>3. ASSUME NEW j \in 1..K PROVE Comes(c[j], r, j) /\ (In(c[j]) \/ LeftOut(L, c[j].prob))
        BY <1>10, <3>1
      <3> HIDE DEF c
      <3>4. w[q] \in Logs
        BY <1>1, <2>1, PlusType
      <3>5. CASE \A j \in 1..K : In(c[j])
        <4>1. ASSUME NEW i \in 1..K, NEW j \in 1..K, c[i] = c[j] PROVE i = j
          <5>1. c[i].kbest + 1 = i /\ c[j].kbest + 1 = j
            BY <3>3
          <5> QED BY <4>1, <5>1
        <4>2. K \in Nat
          BY DEF K
        <4>5. \A j \in 1..K : \E i \in 1..Len(L) : L[i] = c[j]
          BY <3>5
        <4> HIDE DEF In
        <4>3. Len(L) = K /\ \A i \in 1..Len(L) : \E j \in 1..K : L[i] = c[j]
          <5>1. \A i, j \in 1..K : c[i] = c[j] => i = j
            BY <4>1
          <5>2. Len(L) \in Nat /\ Len(L) <= K
            BY <1>4
          <5>3. HasAll(K, Len(L), L, c)
            BY <4>2, <4>5, <5>1, <5>2 DEF HasAll
          <5>4. HasNoOther(K, Len(L), L, c)
            BY <5>3, ListIsFull
          <5> QED BY <5>4 DEF HasNoOther
        <4>4. ASSUME NEW i \in 1..Len(L) PROVE NoWorse(L[i].prob, w[q])
          <5>1. PICK j \in 1..K : L[i] = c[j]
            BY <4>3
          <5>2. c[j].prob = Plus(Col[r][j].prob, step[r])
            BY <3>3
          <5> QED BY <3>2, <5>1, <5>2
        <4> QED BY <4>3, <4>4 DEF LeftOut, K
      <3>6. CASE \E j \in 1..K : ~In(c[j])
        <4>1. PICK j \in 1..K : LeftOut(L, c[j].prob)
          BY <3>3, <3>6
        <4>2. c[j].prob = Plus(Col[r][j].prob, step[r])
          BY <3>3
        <4>3. NoWorse(c[j].prob, w[q]) /\ c[j].prob \in Logs
          BY <3>2, <4>2 DEF HasProb
        <4>4. ASSUME NEW i \in 1..Len(L) PROVE NoWorse(L[i].prob, w[q])
          <5>1. NoWorse(L[i].prob, c[j].prob)
            BY <4>1 DEF LeftOut
          <5>2. L[i].prob \in Logs
            BY <1>5 DEF HasProb
          <5> QED BY <3>4, <4>3, <5>1, <5>2, NoWorseOrders
        <4> QED BY <4>1, <4>4 DEF LeftOut
      <3> QED BY <3>5, <3>6
    <2> QED BY <1>1, <2>2, <2>3
  <1>12. \A q \in T : (\E kth \in 1..Len(L) : E[kth] = q) \/ LeftOut(L, w[q])
    BY <1>11 DEF T
  <1>13. KBestOf(L, E, T, w)
    BY <1>4, <1>8, <1>9, <1>12 DEF KBestOf, K
  <1>14. ASSUME NEW kth \in 1..Len(L) PROVE L[kth].state \in R /\ L[kth].kbest + 1 \in 1..Len(Col[L[kth].state])
    BY <1>5
  <1>15. Merged(L, Col, R, E, T, w)
    BY <1>13, <1>14 DEF Merged
  <1> QED BY <1>15 DEF L, E, T

-----------------------------------------------------------------------------
(* Scores.                                                                   *)

\* What the definition of Score asks of its recursive function.
Sums(g, ws, s, n) == g = [m \in 0..n |-> IF m = 0 THEN 0 ELSE Plus(g[m - 1], StepProb(ws, s, m))]

\* The sums of the steps of a sequence exist.
LEMMA SumsExists ==
  ASSUME NEW ws, NEW s, NEW n \in Nat
  PROVE  \E g : Sums(g, ws, s, n)
  <1> DEFINE S == {m \in Nat : \E g : Sums(g, ws, s, m)}
  <1>1. 0 \in S
    <2>1. Sums([m \in 0..0 |-> 0], ws, s, 0)
      BY DEF Sums
    <2> QED BY <2>1
  <1>2. ASSUME NEW m \in Nat, m \in S PROVE m + 1 \in S
    <2>1. PICK g : Sums(g, ws, s, m)
      BY <1>2
    <2> DEFINE last == Plus(g[m], StepProb(ws, s, m + 1))
               h == [i \in 0..(m + 1) |-> IF i <= m THEN g[i] ELSE last]
    <2>2. ASSUME NEW i \in 0..(m + 1)
          PROVE  h[i] = IF i = 0 THEN 0 ELSE Plus(h[i - 1], StepProb(ws, s, i))
      <3>1. CASE i <= m
        <4>1. g[i] = IF i = 0 THEN 0 ELSE Plus(g[i - 1], StepProb(ws, s, i))
          <5>1. i \in 0..m
            BY <3>1
          <5> HIDE DEF h
          <5> QED BY <2>1, <5>1 DEF Sums
        <4>2. i # 0 => h[i - 1] = g[i - 1]
          BY <3>1
        <4>3. h[i] = g[i]
          BY <3>1
        <4> HIDE DEF h
        <4> QED BY <4>1, <4>2, <4>3
      <3>2. CASE i = m + 1
        <4>1. h[i - 1] = g[m] /\ h[i] = last /\ i # 0
          BY <3>2
        <4> QED BY <3>2, <4>1
      <3> QED BY <3>1, <3>2
    <2>3. h = [i \in 0..(m + 1) |-> h[i]]
      OBVIOUS
    <2> HIDE DEF h
    <2>4. Sums(h, ws, s, m + 1)
      BY <2>2, <2>3 DEF Sums
    <2> QED BY <2>4
  <1> HIDE DEF S
  <1>3. Nat \subseteq S
    BY <1>1, <1>2, Induct
  <1> QED BY <1>3 DEF S

\* Sequences that agree on the first words add up to the same.
Agree(s, u, n, kth) == \A i \in 1..n : i <= kth => s[i] = u[i]
Add(g, h, n, kth)   == \A m \in 0..n : m <= kth => g[m] = h[m]

\* Two sequences have the same sums as far as they agree.
LEMMA SumsAgree ==
  ASSUME NEW ws, NEW s, NEW u, NEW n \in Nat, NEW kth \in Nat, NEW g, NEW h,
         Sums(g, ws, s, n), Sums(h, ws, u, kth), Agree(s, u, n, kth)
  PROVE  Add(g, h, n, kth)
  <1> DEFINE S == {m \in Nat : m <= n /\ m <= kth => g[m] = h[m]}
  <1>1. 0 \in S
    <2>1. g[0] = 0 /\ h[0] = 0
      BY DEF Sums
    <2> QED BY <2>1
  <1>2. ASSUME NEW m \in Nat, m \in S PROVE m + 1 \in S
    <2> SUFFICES ASSUME m + 1 <= n, m + 1 <= kth PROVE g[m + 1] = h[m + 1]
      OBVIOUS
    <2>1. m + 1 \in 0..n /\ m + 1 \in 0..kth /\ m + 1 # 0 /\ (m + 1) - 1 = m
      OBVIOUS
    <2>2. /\ g[m + 1] = Plus(g[m], StepProb(ws, s, m + 1))
          /\ h[m + 1] = Plus(h[m], StepProb(ws, u, m + 1))
      BY <2>1 DEF Sums
    <2>3. g[m] = h[m]
      BY <1>2
    <2>4. /\ s[m + 1] = u[m + 1]
          /\ m + 1 # 1 => s[(m + 1) - 1] = u[(m + 1) - 1]
          /\ m + 1 # 1 /\ (m + 1) - 1 # 1 => s[((m + 1) - 1) - 1] = u[((m + 1) - 1) - 1]
      BY DEF Agree
    <2>5. /\ StateIn(s, m + 1) = StateIn(u, m + 1)
          /\ m + 1 # 1 => StateIn(s, (m + 1) - 1) = StateIn(u, (m + 1) - 1)
      BY <2>4 DEF StateIn
    <2>6. StepProb(ws, s, m + 1) = StepProb(ws, u, m + 1)
      <3>1. m + 1 = 1 => s[1] = u[1]
        BY <2>4
      <3> QED BY <2>4, <2>5, <3>1 DEF StepProb
    <2> QED BY <2>2, <2>3, <2>6
  <1> HIDE DEF S
  <1>3. Nat \subseteq S
    BY <1>1, <1>2, Induct
  <1> QED BY <1>3 DEF S, Add

\* The score of a sequence is its last sum.
LEMMA ScoreIs ==
  ASSUME NEW ws, NEW s, NEW n \in Nat
  PROVE  \E g : Sums(g, ws, s, n) /\ g[n] = Score(ws, s, n)
  <1> DEFINE f == CHOOSE f : f = [m \in 0..n |-> IF m = 0 THEN 0 ELSE Plus(f[m - 1], StepProb(ws, s, m))]
  <1>1. \E g : Sums(g, ws, s, n)
    BY SumsExists
  <1>2. Sums(f, ws, s, n)
    BY <1>1 DEF Sums
  <1>3. Score(ws, s, n) = f[n]
    BY DEF Score
  <1> QED BY <1>2, <1>3

\* Nothing has been added of no words.
LEMMA ScoreZero ==
  ASSUME NEW ws, NEW s
  PROVE  Score(ws, s, 0) = 0
  <1>1. PICK g : Sums(g, ws, s, 0) /\ g[0] = Score(ws, s, 0)
    BY ScoreIs
  <1> QED BY <1>1 DEF Sums

\* The score of one word more.
LEMMA ScoreNext ==
  ASSUME NEW ws, NEW s, NEW n \in Nat, NEW u, \A i \in 1..n : u[i] = s[i]
  PROVE  Score(ws, s, n + 1) = Plus(Score(ws, u, n), StepProb(ws, s, n + 1))
  <1>0. n + 1 \in Nat /\ n + 1 \in 0..(n + 1) /\ n \in 0..n /\ n \in 0..(n + 1) /\ n + 1 # 0 /\ (n + 1) - 1 = n
    OBVIOUS
  <1>1. PICK g : Sums(g, ws, s, n + 1) /\ g[n + 1] = Score(ws, s, n + 1)
    BY <1>0, ScoreIs
  <1>2. PICK h : Sums(h, ws, u, n) /\ h[n] = Score(ws, u, n)
    BY ScoreIs
  <1>3. Agree(s, u, n + 1, n)
    BY DEF Agree
  <1>6. Add(g, h, n + 1, n)
    BY <1>0, <1>1, <1>2, <1>3, SumsAgree
  <1>4. g[n] = h[n]
    BY <1>0, <1>6 DEF Add
  <1>5. g[n + 1] = Plus(g[n], StepProb(ws, s, n + 1))
    BY <1>0, <1>1 DEF Sums
  <1> QED BY <1>1, <1>2, <1>4, <1>5

-----------------------------------------------------------------------------
(* What the assumptions give.                                                *)

\* What the assumptions say of a sentence.
LEMMA SentenceHas ==
  ASSUME NEW ws \in Sentences
  PROVE  /\ Len(ws) \in Nat \ {0} /\ DOMAIN ws = 1..Len(ws) /\ ws = [n \in 1..Len(ws) |-> ws[n]]
         /\ \A n \in 1..Len(ws) : IsFiniteSet(TagsOf(ws[n]))
  <1>1. ws # <<>> /\ ws \in Seq(Range(ws))
    BY TaggerAssumption DEF SentencesAssumption
  <1>2. Len(ws) \in Nat \ {0} /\ DOMAIN ws = 1..Len(ws) /\ ws = [n \in 1..Len(ws) |-> ws[n]]
    <2>1. PICK T : T = Range(ws)
      OBVIOUS
    <2>2. ws \in Seq(T)
      BY <1>1, <2>1
    <2> QED BY <1>1, <2>2, EmptySeq, LenProperties
  <1>3. ASSUME NEW n \in 1..Len(ws) PROVE IsFiniteSet(TagsOf(ws[n]))
    <2> DEFINE as == ws[n].analyses
               S == {o \in DOMAIN as : 0 \in as[o].sel}
               f == [m \in S |-> get_short_tag(as[m].tag)]
    <2>1. as \in Seq(Range(as))
      BY <1>2, TaggerAssumption DEF SentencesAssumption
    <2>2. Len(as) \in Nat /\ DOMAIN as = 1..Len(as)
      <3>1. PICK T : T = Range(as)
        OBVIOUS
      <3> HIDE DEF as
      <3>2. as \in Seq(T)
        BY <2>1, <3>1
      <3> QED BY <3>2, LenProperties
    <2>3. IsFiniteSet(S)
      <3>1. IsFiniteSet(1..Len(as))
        <4>1. Len(as) \in Int /\ 1 \in Int
          BY <2>2
        <4> HIDE DEF as
        <4> QED BY <4>1, FS_Interval
      <3>2. S \in SUBSET (1..Len(as))
        BY <2>2
      <3> HIDE DEF S, as
      <3> QED BY <3>1, <3>2, FS_Subset
    <2>4. TagsOf(ws[n]) = {f[m] : m \in S}
      BY DEF TagsOf
    <2>5. f \in Surjection(S, TagsOf(ws[n]))
      <3>1. f \in [S -> TagsOf(ws[n])]
        <4>1. DOMAIN f = S /\ f = [m \in S |-> f[m]]
          OBVIOUS
        <4> HIDE DEF f, S
        <4> QED BY <2>4, <4>1
      <3> HIDE DEF f, S
      <3> QED BY <2>4, <3>1 DEF Surjection
    <2> HIDE DEF f, S
    <2> QED BY <2>3, <2>5, FS_Surjection
  <1> QED BY <1>2, <1>3

\* A word has finitely many states.
LEMMA StatesFinite ==
  ASSUME NEW ws \in Sentences, NEW n \in 1..Len(ws)
  PROVE  IsFiniteSet(FindStates(ws, n - 1))
  <1>1. Len(ws) \in Nat \ {0} /\ \A m \in 1..Len(ws) : IsFiniteSet(TagsOf(ws[m]))
    BY SentenceHas
  <1>2. (n - 1) + 1 = n /\ (n - 1 # 0 => n - 1 \in 1..Len(ws))
    BY <1>1
  <1>3. IsFiniteSet({"0"})
    BY FS_Singleton
  <1>4. IsFiniteSet(TagsOf(ws[(n - 1) + 1])) /\ (n - 1 # 0 => IsFiniteSet(TagsOf(ws[n - 1])))
    BY <1>1, <1>2
  <1> DEFINE A == IF n - 1 = 0 THEN {"0"} ELSE TagsOf(ws[n - 1])
  <1>5. IsFiniteSet(A)
    BY <1>3, <1>4
  <1>6. FindStates(ws, n - 1) = A \X TagsOf(ws[(n - 1) + 1])
    BY DEF FindStates
  <1> HIDE DEF A
  <1> QED BY <1>4, <1>5, <1>6, FS_Product

\* A state of word n + 1 after one of word n.
LEMMA StepType ==
  ASSUME NEW ws \in Sentences, NEW n \in 1..(Len(ws) - 1), NEW r \in FindStates(ws, n - 1),
         NEW s \in FindStates(ws, n), r[2] = s[1]
  PROVE  Plus(ProbA_log(r, s, ws, n + 1), ProbB_log(s[2], ws[n + 1])) \in Logs
  <1>1. Len(ws) \in Nat \ {0} /\ DOMAIN ws = 1..Len(ws)
    BY SentenceHas
  <1>2. /\ n \in 1..Len(ws) /\ n + 1 \in 1..Len(ws) /\ n # 0 /\ (n - 1) + 1 = n /\ n + 1 > 1 /\ (n + 1) - 1 = n
        /\ (n + 1 > 2 <=> n - 1 # 0) /\ (n + 1) - 2 = n - 1
    BY <1>1
  <1>3. s[2] \in TagsOf(ws[n + 1]) /\ r[2] \in TagsOf(ws[n])
        /\ r[1] \in IF n - 1 = 0 THEN {"0"} ELSE TagsOf(ws[n - 1])
    BY <1>2 DEF FindStates
  <1> DEFINE before(kth) == IF n + 1 > kth THEN TagsOf(ws[(n + 1) - kth]) ELSE {"0"}
  <1>4. /\ ProbB_log(s[2], ws[n + 1]) \in Logs
        /\ \A a \in before(2), b \in before(1) : Transition(a, b, s[2]) \in Logs
    BY <1>1, <1>2, <1>3, TaggerAssumption DEF LogsAssumption, Logs
  <1>5. r[1] \in before(2) /\ r[2] \in before(1)
    BY <1>2, <1>3
  <1> HIDE DEF before
  <1>6. Transition(r[1], r[2], s[2]) \in Logs
    BY <1>4, <1>5
  <1>7. ProbA_log(r, s, ws, n + 1) \in Logs
    BY <1>6 DEF ProbA_log, Logs
  <1> QED BY <1>4, <1>7, PlusType

\* What the first word adds is a logarithm.
LEMMA FirstType ==
  ASSUME NEW ws \in Sentences, NEW c \in TagsOf(ws[1])
  PROVE  Pi(c) \in Logs /\ ProbB_log(c, ws[1]) \in Logs
  <1>1. 1 \in DOMAIN ws
    BY SentenceHas
  <1> QED BY <1>1, TaggerAssumption DEF LogsAssumption, Logs

\* ZERO stands apart from the numbers.
LEMMA ZeroIsNoNumber == ZERO \notin Int
  BY TaggerAssumption DEF LogsAssumption

-----------------------------------------------------------------------------
(* The sequences of tags of a sentence.                                      *)

\* The sequences of tags that the first n words may have, and those that end in the state s.
Seqs(ws, n)     == {q \in [1..n -> UNION {TagsOf(ws[i]) : i \in 1..n}] : \A i \in 1..n : q[i] \in TagsOf(ws[i])}
EndIn(ws, n, s) == {q \in Seqs(ws, n) : StateIn(q, n) = s}
Scores(ws, n)   == [q \in Seqs(ws, n) |-> Score(ws, q, n)]

\* A sequence of tags is known by its tags.
LEMMA SeqsAre ==
  ASSUME NEW ws, NEW n
  PROVE  \A q : q \in Seqs(ws, n) <=> q = [i \in 1..n |-> q[i]] /\ \A i \in 1..n : q[i] \in TagsOf(ws[i])
  <1> DEFINE U == UNION {TagsOf(ws[i]) : i \in 1..n}
  <1>1. ASSUME NEW q, q \in Seqs(ws, n) PROVE q = [i \in 1..n |-> q[i]] /\ \A i \in 1..n : q[i] \in TagsOf(ws[i])
    BY <1>1 DEF Seqs
  <1>2. ASSUME NEW q, q = [i \in 1..n |-> q[i]], \A i \in 1..n : q[i] \in TagsOf(ws[i]) PROVE q \in Seqs(ws, n)
    <2>1. \A i \in 1..n : q[i] \in U
      BY <1>2
    <2>2. q \in [1..n -> U]
      <3> HIDE DEF U
      <3> QED BY <1>2, <2>1
    <2> QED BY <1>2, <2>2 DEF Seqs
  <1> QED BY <1>1, <1>2

\* The state of a sequence at a word is one of the states of the word.
LEMMA StateOfSeq ==
  ASSUME NEW ws \in Sentences, NEW n \in 1..Len(ws), NEW q \in Seqs(ws, n)
  PROVE  StateIn(q, n) \in FindStates(ws, n - 1) /\ StateIn(q, n)[2] = q[n]
  <1>1. Len(ws) \in Nat \ {0}
    BY SentenceHas
  <1>2. \A i \in 1..n : q[i] \in TagsOf(ws[i])
    BY SeqsAre
  <1>3. n \in 1..n /\ (n - 1) + 1 = n /\ (n = 1 <=> n - 1 = 0) /\ (n # 1 => n - 1 \in 1..n)
    BY <1>1
  <1> DEFINE c == IF n = 1 THEN "0" ELSE q[n - 1]
             A == IF n - 1 = 0 THEN {"0"} ELSE TagsOf(ws[n - 1])
  <1>4. c \in A
    BY <1>2, <1>3
  <1>5. q[n] \in TagsOf(ws[(n - 1) + 1])
    BY <1>2, <1>3
  <1>6. StateIn(q, n) = <<c, q[n]>> /\ FindStates(ws, n - 1) = A \X TagsOf(ws[(n - 1) + 1])
    BY DEF StateIn, FindStates
  <1> HIDE DEF c, A
  <1> QED BY <1>4, <1>5, <1>6

\* The sequences of a list with other names.
Renames(h, Q, P, w, v) ==
  /\ \A q \in Q : h[q] \in P /\ v[h[q]] = w[q]
  /\ \A q, r \in Q : h[q] = h[r] => q = r
  /\ \A p \in P : \E q \in Q : h[q] = p

\* A list of the best stays one under other names for its sequences.
LEMMA Rename ==
  ASSUME NEW L, NEW E, NEW Q, NEW P, NEW w, NEW v, NEW h, KBestOf(L, E, Q, w), Renames(h, Q, P, w, v)
  PROVE  KBestOf(L, [kth \in 1..Len(L) |-> h[E[kth]]], P, v)
  <1> DEFINE F == [kth \in 1..Len(L) |-> h[E[kth]]]
  <1>1. /\ Len(L) \in Nat /\ Len(L) <= opt.kbest /\ DOMAIN L = 1..Len(L) /\ Sorted(L)
        /\ \A kth \in 1..Len(L) : E[kth] \in Q /\ L[kth].prob = w[E[kth]]
        /\ \A i, j \in 1..Len(L) : E[i] = E[j] => i = j
        /\ \A q \in Q : (\E kth \in 1..Len(L) : E[kth] = q) \/ LeftOut(L, w[q])
    BY DEF KBestOf
  <1>2. /\ \A q \in Q : h[q] \in P /\ v[h[q]] = w[q]
        /\ \A q, r \in Q : h[q] = h[r] => q = r
        /\ \A p \in P : \E q \in Q : h[q] = p
    BY DEF Renames
  <1>3. F = [kth \in 1..Len(L) |-> F[kth]] /\ \A kth \in 1..Len(L) : F[kth] = h[E[kth]]
    OBVIOUS
  <1> HIDE DEF F
  <1>4. \A kth \in 1..Len(L) : F[kth] \in P /\ L[kth].prob = v[F[kth]]
    BY <1>1, <1>2, <1>3
  <1>5. F \in [1..Len(L) -> P]
    BY <1>3, <1>4
  <1>6. ASSUME NEW i \in 1..Len(L), NEW j \in 1..Len(L), F[i] = F[j] PROVE i = j
    <2>1. E[i] = E[j]
      BY <1>1, <1>2, <1>3, <1>6
    <2> QED BY <1>1, <2>1
  <1>7. ASSUME NEW p \in P PROVE (\E kth \in 1..Len(L) : F[kth] = p) \/ LeftOut(L, v[p])
    <2>1. PICK q \in Q : h[q] = p /\ v[p] = w[q]
      BY <1>2
    <2>2. CASE \E kth \in 1..Len(L) : E[kth] = q
      BY <1>3, <2>1, <2>2
    <2>3. CASE LeftOut(L, w[q])
      BY <2>1, <2>3
    <2> QED BY <1>1, <2>2, <2>3
  <1> QED BY <1>1, <1>4, <1>5, <1>6, <1>7 DEF KBestOf, F

-----------------------------------------------------------------------------
(* Paths back through the trellis.                                           *)

\* The states p, and the places x of the paths into them, that a path of the trellis T
\* goes through back from the k-th into the state s of word n.
Traces(T, n, p, x) ==
  \A i \in 2..n : p[i - 1] = T[i][p[i]][x[i]].state /\ x[i - 1] = T[i][p[i]][x[i]].kbest + 1

Traced(T, n, s, kth, q) ==
  \E p, x : p[n] = s /\ x[n] = kth /\ Traces(T, n, p, x) /\ \A i \in 1..n : q[i] = p[i][2]

Good(T, ws, n, s, D) ==
  /\ KBestOf(T[n][s], D, EndIn(ws, n, s), Scores(ws, n))
  /\ \A kth \in 1..Len(T[n][s]) : Traced(T, n, s, kth, D[kth])
  /\ \A q \in EndIn(ws, n, s) : Scores(ws, n)[q] \in Logs

\* The first column has the best sequences of one word.
LEMMA FirstGood ==
  ASSUME NEW ws \in Sentences, NEW T, T[1] = FirstColumn(ws), NEW s \in FindStates(ws, 0),
         opt.kbest \in Nat \ {0}
  PROVE  \E D : Good(T, ws, 1, s, D)
  <1> DEFINE p == Plus(Pi(s[2]), ProbB_log(s[2], ws[1]))
             L == T[1][s]
             q == [i \in 1..1 |-> s[2]]
             D == [kth \in 1..1 |-> q]
  <1>1. s \in {"0"} \X TagsOf(ws[1])
    BY DEF FindStates
  <1>2. s = <<"0", s[2]>> /\ s[2] \in TagsOf(ws[1])
    BY <1>1
  <1>3. L = <<Element(initState, 0, p)>>
    BY DEF FirstColumn
  <1>4. Len(L) = 1 /\ DOMAIN L = 1..1 /\ L[1].prob = p
    BY <1>3, ElementIs
  <1>5. p \in Logs
    BY <1>2, FirstType, PlusType
  <1>6. q \in EndIn(ws, 1, s)
    <2>1. q = [i \in 1..1 |-> q[i]] /\ \A i \in 1..1 : q[i] \in TagsOf(ws[i])
      BY <1>2
    <2>2. StateIn(q, 1) = s
      BY <1>2 DEF StateIn
    <2> HIDE DEF q
    <2> QED BY <2>1, <2>2, SeqsAre DEF EndIn
  <1>7. ASSUME NEW r \in EndIn(ws, 1, s) PROVE r = q
    <2>1. r = [i \in 1..1 |-> r[i]] /\ StateIn(r, 1) = s
      <3>1. r \in Seqs(ws, 1) /\ StateIn(r, 1) = s
        BY DEF EndIn
      <3>2. r = [i \in 1..1 |-> r[i]]
        BY <3>1 DEF Seqs
      <3> QED BY <3>1, <3>2
    <2>2. r[1] = s[2]
      BY <2>1 DEF StateIn
    <2> QED BY <2>1, <2>2
  <1>8. Scores(ws, 1)[q] = p
    <2>1. q \in Seqs(ws, 1)
      BY <1>6 DEF EndIn
    <2>2. Scores(ws, 1)[q] = Score(ws, q, 1)
      <3> HIDE DEF q
      <3> QED BY <2>1 DEF Scores
    <2>3. Score(ws, q, 0 + 1) = Plus(Score(ws, q, 0), StepProb(ws, q, 0 + 1))
      <3> HIDE DEF q
      <3> QED BY ScoreNext
    <2>4. StepProb(ws, q, 1) = p
      BY DEF StepProb
    <2>5. Score(ws, q, 0) = 0
      BY ScoreZero
    <2>6. Plus(0, p) = p
      BY <1>5, ZeroIsNoNumber DEF Plus, Logs
    <2> HIDE DEF q, p
    <2> QED BY <2>2, <2>3, <2>4, <2>5, <2>6
  <1> HIDE DEF L, q, p
  <1>9. KBestOf(L, D, EndIn(ws, 1, s), Scores(ws, 1))
    <2>1. Sorted(L)
      BY <1>4, <1>5, NoWorseOrders, ZeroIsNoNumber DEF Sorted
    <2>2. D[1] = q /\ D \in [1..1 -> EndIn(ws, 1, s)]
      BY <1>6
    <2> HIDE DEF D
    <2>3. \A i, j \in 1..1 : D[i] = D[j] => i = j
      OBVIOUS
    <2>4. \A kth \in 1..1 : L[kth].prob = Scores(ws, 1)[D[kth]]
      BY <1>4, <1>8, <2>2
    <2>5. 1 <= opt.kbest
      OBVIOUS
    <2>6. \A r \in EndIn(ws, 1, s) : \E kth \in 1..1 : D[kth] = r
      BY <1>7, <2>2
    <2> QED BY <1>4, <2>1, <2>2, <2>3, <2>4, <2>5, <2>6 DEF KBestOf
  <1>10. Traced(T, 1, s, 1, q)
    <2>1. PICK pp : pp = [i \in 1..1 |-> s]
      OBVIOUS
    <2>2. PICK xx : xx = [i \in 1..1 |-> 1]
      OBVIOUS
    <2>3. Traces(T, 1, pp, xx)
      BY DEF Traces
    <2>4. pp[1] = s /\ xx[1] = 1 /\ \A i \in 1..1 : q[i] = pp[i][2]
      BY <2>1, <2>2 DEF q
    <2> QED BY <2>3, <2>4 DEF Traced
  <1>11. \A kth \in 1..Len(L) : Traced(T, 1, s, kth, D[kth])
    BY <1>4, <1>10
  <1>12. \A r \in EndIn(ws, 1, s) : Scores(ws, 1)[r] \in Logs
    BY <1>5, <1>7, <1>8
  <1> HIDE DEF D
  <1>13. Good(T, ws, 1, s, D)
    BY <1>9, <1>11, <1>12 DEF Good, L
  <1> QED BY <1>13

-----------------------------------------------------------------------------
(* From a column to the next one.                                            *)

\* What a sequence becomes with the tag c at n + 1.
With(q, n, c) == [i \in 1..(n + 1) |-> IF i <= n THEN q[i] ELSE c]

\* A sequence that goes on with a tag: its state and its score.
LEMMA WithIs ==
  ASSUME NEW ws \in Sentences, NEW n \in 1..(Len(ws) - 1), NEW q \in Seqs(ws, n), NEW c \in TagsOf(ws[n + 1])
  PROVE  /\ With(q, n, c) \in Seqs(ws, n + 1)
         /\ StateIn(With(q, n, c), n + 1) = <<q[n], c>>
         /\ Scores(ws, n + 1)[With(q, n, c)] =
              Plus(Scores(ws, n)[q],
                   Plus(ProbA_log(StateIn(q, n), <<q[n], c>>, ws, n + 1), ProbB_log(c, ws[n + 1])))
  <1>0. Len(ws) \in Nat \ {0}
    BY SentenceHas
  <1>1. /\ n \in Nat /\ n \in 1..n /\ n + 1 \in 1..(n + 1) /\ n \in 1..(n + 1) /\ n + 1 # 1 /\ (n + 1) - 1 = n
        /\ (n # 1 => n - 1 \in 1..n /\ n - 1 \in 1..(n + 1)) /\ ~(n + 1 <= n)
    BY <1>0
  <1>2. PICK u : u = With(q, n, c)
    OBVIOUS
  <1>3. u = [i \in 1..(n + 1) |-> u[i]] /\ u[n + 1] = c /\ \A i \in 1..n : u[i] = q[i]
    BY <1>1, <1>2 DEF With
  <1>4. \A i \in 1..n : q[i] \in TagsOf(ws[i])
    BY SeqsAre
  <1>5. ASSUME NEW i \in 1..(n + 1) PROVE u[i] \in TagsOf(ws[i])
    <2>1. i \in 1..n \/ i = n + 1
      BY <1>1
    <2> QED BY <1>3, <1>4, <2>1
  <1>6. u \in Seqs(ws, n + 1)
    BY <1>3, <1>5, SeqsAre
  <1>7. StateIn(u, n + 1) = <<q[n], c>> /\ StateIn(u, n) = StateIn(q, n)
    BY <1>1, <1>3 DEF StateIn
  <1>8. Score(ws, u, n + 1) = Plus(Score(ws, q, n), StepProb(ws, u, n + 1))
    <2>1. \A i \in 1..n : q[i] = u[i]
      BY <1>3
    <2> QED BY <1>1, <2>1, ScoreNext
  <1>9. StepProb(ws, u, n + 1) =
          Plus(ProbA_log(StateIn(q, n), <<q[n], c>>, ws, n + 1), ProbB_log(c, ws[n + 1]))
    BY <1>1, <1>3, <1>7 DEF StepProb
  <1>10. Scores(ws, n + 1)[u] = Score(ws, u, n + 1) /\ Scores(ws, n)[q] = Score(ws, q, n)
    BY <1>6 DEF Scores
  <1> QED BY <1>2, <1>6, <1>7, <1>8, <1>9, <1>10

\* The paths of one word more.
LEMMA TraceNext ==
  ASSUME NEW T, NEW n \in Nat \ {0}, NEW s, NEW kth, NEW r, NEW q, NEW u,
         r = T[n + 1][s][kth].state, Traced(T, n, r, T[n + 1][s][kth].kbest + 1, q),
         u[n + 1] = s[2], \A i \in 1..n : u[i] = q[i]
  PROVE  Traced(T, n + 1, s, kth, u)
  <1>1. PICK p, x : /\ p[n] = r /\ x[n] = T[n + 1][s][kth].kbest + 1 /\ Traces(T, n, p, x)
                    /\ \A i \in 1..n : q[i] = p[i][2]
    BY DEF Traced
  <1>2. PICK pp : pp = [i \in 1..(n + 1) |-> IF i = n + 1 THEN s ELSE p[i]]
    OBVIOUS
  <1>3. PICK xx : xx = [i \in 1..(n + 1) |-> IF i = n + 1 THEN kth ELSE x[i]]
    OBVIOUS
  <1>4. /\ pp[n + 1] = s /\ xx[n + 1] = kth
        /\ \A i \in 1..n : pp[i] = p[i] /\ xx[i] = x[i]
    BY <1>2, <1>3
  <1>5. ASSUME NEW i \in 2..(n + 1)
        PROVE  pp[i - 1] = T[i][pp[i]][xx[i]].state /\ xx[i - 1] = T[i][pp[i]][xx[i]].kbest + 1
    <2>1. CASE i = n + 1
      <3>1. i - 1 = n /\ n \in 1..n
        BY <2>1
      <3> QED BY <1>1, <1>4, <2>1, <3>1
    <2>2. CASE i # n + 1
      <3>1. i \in 2..n /\ i \in 1..n /\ i - 1 \in 1..n
        BY <2>2
      <3> QED BY <1>1, <1>4, <3>1 DEF Traces
    <2> QED BY <2>1, <2>2
  <1>6. \A i \in 1..(n + 1) : u[i] = pp[i][2]
    <2>1. ASSUME NEW i \in 1..(n + 1) PROVE u[i] = pp[i][2]
      <3>1. CASE i = n + 1
        BY <1>4, <3>1
      <3>2. CASE i # n + 1
        <4>1. i \in 1..n
          BY <3>2
        <4> QED BY <1>1, <1>4, <4>1
      <3> QED BY <3>1, <3>2
    <2> QED BY <2>1
  <1> QED BY <1>4, <1>5, <1>6 DEF Traced, Traces

\* If a column has the best sequences into each state, so has the next one.
LEMMA NextGood ==
  ASSUME NEW ws \in Sentences, NEW n \in 1..(Len(ws) - 1), NEW T, T[n + 1] = NextColumn(ws, n, T[n]),
         \A r \in FindStates(ws, n - 1) : \E D : Good(T, ws, n, r, D),
         NEW s \in FindStates(ws, n), opt.kbest \in Nat \ {0}
  PROVE  \E D : Good(T, ws, n + 1, s, D)
  <1> DEFINE R == {q \in FindStates(ws, n - 1) : q[2] = s[1]}
             step == [r \in R |-> Plus(ProbA_log(r, s, ws, n + 1), ProbB_log(s[2], ws[n + 1]))]
             Col == T[n]
             L == T[n + 1][s]
             Q == [r \in R |-> EndIn(ws, n, r)]
             D == [r \in R |-> CHOOSE D : Good(T, ws, n, r, D)]
             v == Scores(ws, n)
             w == [q \in Seqs(ws, n) |-> Scores(ws, n + 1)[With(q, n, s[2])]]
             h == [q \in Seqs(ws, n) |-> With(q, n, s[2])]
             E == From(L, D)
             U == UNION {Q[r] : r \in R}
             F == [kth \in 1..Len(L) |-> h[E[kth]]]
  <1>0. Len(ws) \in Nat \ {0}
    BY SentenceHas
  <1>1. n \in 1..Len(ws) /\ n # 0 /\ n \in Nat \ {0} /\ n \in 1..n /\ (n + 1) - 1 = n /\ n + 1 \in 1..(n + 1)
        /\ n + 1 # 1 /\ n \in 1..(n + 1)
    BY <1>0
  <1>2. s[1] \in TagsOf(ws[n]) /\ s[2] \in TagsOf(ws[n + 1]) /\ s = <<s[1], s[2]>>
    <2>1. s \in TagsOf(ws[n]) \X TagsOf(ws[n + 1])
      BY <1>1 DEF FindStates
    <2> QED BY <2>1
  <1>3. L = Arrive(Col, step)
    BY DEF NextColumn
  <1>4. IsFiniteSet(R)
    <2>1. IsFiniteSet(FindStates(ws, n - 1))
      BY <1>1, StatesFinite
    <2>2. R \in SUBSET FindStates(ws, n - 1)
      OBVIOUS
    <2> HIDE DEF R
    <2> QED BY <2>1, <2>2, FS_Subset
  <1>5. ASSUME NEW r \in R
        PROVE  Good(T, ws, n, r, D[r]) /\ step[r] \in Logs /\ Q[r] = EndIn(ws, n, r)
               /\ r[2] = s[1] /\ r \in FindStates(ws, n - 1)
    <2>1. r \in FindStates(ws, n - 1) /\ r[2] = s[1]
      OBVIOUS
    <2>2. \E DD : Good(T, ws, n, r, DD)
      BY <2>1
    <2>3. Good(T, ws, n, r, D[r])
      BY <2>2
    <2>4. step[r] = Plus(ProbA_log(r, s, ws, n + 1), ProbB_log(s[2], ws[n + 1]))
      OBVIOUS
    <2>5. step[r] \in Logs
      BY <2>1, <2>4, StepType
    <2> QED BY <2>1, <2>3, <2>5
  <1>6. ASSUME NEW r \in R, NEW q \in Q[r]
        PROVE  v[q] \in Logs /\ w[q] = Plus(v[q], step[r]) /\ q \in Seqs(ws, n) /\ StateIn(q, n) = r
    <2>1. q \in EndIn(ws, n, r) /\ v[q] \in Logs
      BY <1>5 DEF Good
    <2>2. q \in Seqs(ws, n) /\ StateIn(q, n) = r
      BY <2>1 DEF EndIn
    <2>3. q[n] = s[1]
      BY <1>1, <1>5, <2>2, StateOfSeq
    <2>4. Scores(ws, n + 1)[With(q, n, s[2])] =
            Plus(Scores(ws, n)[q],
                 Plus(ProbA_log(StateIn(q, n), <<q[n], s[2]>>, ws, n + 1), ProbB_log(s[2], ws[n + 1])))
      BY <1>2, <2>2, WithIs
    <2>5. w[q] = Scores(ws, n + 1)[With(q, n, s[2])]
      BY <2>2
    <2>6. step[r] = Plus(ProbA_log(r, s, ws, n + 1), ProbB_log(s[2], ws[n + 1]))
      OBVIOUS
    <2>7. s = <<q[n], s[2]>>
      BY <1>2, <2>3
    <2> HIDE DEF w, step
    <2> QED BY <2>1, <2>2, <2>4, <2>5, <2>6, <2>7
  <1>7. DOMAIN step = R
    OBVIOUS
  <1>8. \A q : q \in U <=> q \in Seqs(ws, n) /\ q[n] = s[1]
    <2>1. ASSUME NEW q \in U PROVE q \in Seqs(ws, n) /\ q[n] = s[1]
      <3>1. PICK r \in R : q \in Q[r]
        OBVIOUS
      <3>2. q \in Seqs(ws, n) /\ StateIn(q, n) = r
        BY <1>6, <3>1
      <3> QED BY <1>1, <1>5, <3>2, StateOfSeq
    <2>2. ASSUME NEW q \in Seqs(ws, n), q[n] = s[1] PROVE q \in U
      <3>1. PICK r : r = StateIn(q, n)
        OBVIOUS
      <3>2. r \in R
        BY <1>1, <2>2, <3>1, StateOfSeq
      <3>3. q \in Q[r]
        BY <3>1, <3>2 DEF EndIn
      <3> HIDE DEF R, Q
      <3> QED BY <3>2, <3>3
    <2> QED BY <2>1, <2>2
  <1>9. \A q \in Seqs(ws, n) : h[q] = With(q, n, s[2]) /\ w[q] = Scores(ws, n + 1)[h[q]]
    OBVIOUS
  <1> HIDE DEF R, step, Q, D, v, w, Col, U, h
  <1>10. Mergeable(Col, R, step, Q, D, v, w)
    <2>1. \A r \in R : KBestOf(Col[r], D[r], Q[r], v)
      BY <1>5 DEF Good, Col, v
    <2>2. ASSUME NEW r \in R, NEW z \in R, r # z, NEW q \in Q[r] PROVE q \notin Q[z]
      BY <1>6, <2>2
    <2> QED BY <1>4, <1>5, <1>6, <1>7, <2>1, <2>2 DEF Mergeable
  <1>11. /\ KBestOf(L, E, U, w)
         /\ \A kth \in 1..Len(L) : L[kth].state \in R /\ L[kth].kbest + 1 \in 1..Len(Col[L[kth].state])
    <2> HIDE DEF L, E
    <2>1. L = Arrive(Col, step) /\ E = From(L, D) /\ U = UNION {Q[r] : r \in R}
      BY <1>3 DEF E, U
    <2>2. Merged(L, Col, R, E, U, w)
      BY <1>10, <2>1, Merge, ZeroIsNoNumber
    <2> QED BY <2>2 DEF Merged
  <1>12. Renames(h, U, EndIn(ws, n + 1, s), w, Scores(ws, n + 1))
    <2>1. ASSUME NEW q \in U PROVE h[q] \in EndIn(ws, n + 1, s) /\ Scores(ws, n + 1)[h[q]] = w[q]
      <3>1. q \in Seqs(ws, n) /\ q[n] = s[1]
        BY <1>8
      <3>2. h[q] \in Seqs(ws, n + 1) /\ StateIn(h[q], n + 1) = <<q[n], s[2]>>
        BY <1>2, <1>9, <3>1, WithIs
      <3> QED BY <1>2, <1>9, <3>1, <3>2 DEF EndIn
    <2>2. ASSUME NEW q \in U, NEW r \in U, h[q] = h[r] PROVE q = r
      <3>1. q \in Seqs(ws, n) /\ r \in Seqs(ws, n) /\ h[q] = With(q, n, s[2]) /\ h[r] = With(r, n, s[2])
        BY <1>8, <1>9
      <3>2. ASSUME NEW i \in 1..n PROVE q[i] = r[i]
        <4>1. h[q][i] = q[i] /\ h[r][i] = r[i]
          BY <1>1, <3>1 DEF With
        <4> QED BY <2>2, <4>1
      <3>3. q = [i \in 1..n |-> q[i]] /\ r = [i \in 1..n |-> r[i]]
        BY <3>1, SeqsAre
      <3> QED BY <3>2, <3>3
    <2>3. ASSUME NEW u \in EndIn(ws, n + 1, s) PROVE \E q \in U : h[q] = u
      <3>1. u \in Seqs(ws, n + 1) /\ StateIn(u, n + 1) = s
        BY DEF EndIn
      <3>2. u = [i \in 1..(n + 1) |-> u[i]] /\ \A i \in 1..(n + 1) : u[i] \in TagsOf(ws[i])
        BY <3>1, SeqsAre
      <3>3. u[n] = s[1] /\ u[n + 1] = s[2]
        BY <1>1, <3>1 DEF StateIn
      <3>4. PICK q : q = [i \in 1..n |-> u[i]]
        OBVIOUS
      <3>5. q = [i \in 1..n |-> q[i]] /\ \A i \in 1..n : q[i] = u[i] /\ q[i] \in TagsOf(ws[i])
        BY <1>1, <3>2, <3>4
      <3>6. q \in Seqs(ws, n)
        BY <3>5, SeqsAre
      <3>7. q \in U
        BY <1>1, <1>8, <3>3, <3>5, <3>6
      <3>8. With(q, n, s[2]) = u
        <4>1. \A i \in 1..(n + 1) : (IF i <= n THEN q[i] ELSE s[2]) = u[i]
          <5>1. ASSUME NEW i \in 1..(n + 1) PROVE (IF i <= n THEN q[i] ELSE s[2]) = u[i]
            <6>1. CASE i <= n
              BY <3>5, <6>1
            <6>2. CASE i = n + 1
              BY <1>1, <3>3, <6>2
            <6> QED BY <1>1, <6>1, <6>2
          <5> QED BY <5>1
        <4> QED BY <3>2, <4>1 DEF With
      <3> QED BY <1>9, <3>6, <3>7, <3>8
    <2> QED BY <2>1, <2>2, <2>3 DEF Renames
  <1>13. KBestOf(L, F, EndIn(ws, n + 1, s), Scores(ws, n + 1))
    <2> HIDE DEF L, E
    <2> QED BY <1>11, <1>12, Rename
  <1>14. ASSUME NEW kth \in 1..Len(L) PROVE Traced(T, n + 1, s, kth, F[kth])
    <2>1. PICK r : r = L[kth].state
      OBVIOUS
    <2>2. PICK j : j = L[kth].kbest + 1
      OBVIOUS
    <2>3. r \in R /\ j \in 1..Len(Col[r])
      BY <1>11, <2>1, <2>2
    <2>4. PICK q : q = D[r][j]
      OBVIOUS
    <2>5. E[kth] = q
      BY <2>1, <2>2, <2>4 DEF From
    <2>6. Traced(T, n, r, j, q) /\ q \in EndIn(ws, n, r)
      BY <1>5, <2>3, <2>4 DEF Good, Col, KBestOf
    <2>7. q \in Seqs(ws, n)
      BY <2>6 DEF EndIn
    <2>8. F[kth] = With(q, n, s[2])
      <3> HIDE DEF L, E
      <3> QED BY <1>9, <2>5, <2>7
    <2>9. F[kth][n + 1] = s[2] /\ \A i \in 1..n : F[kth][i] = q[i]
      <3> HIDE DEF F
      <3> QED BY <1>1, <2>8 DEF With
    <2> HIDE DEF F
    <2> QED BY <1>1, <2>1, <2>2, <2>6, <2>9, TraceNext DEF L
  <1>15. ASSUME NEW u \in EndIn(ws, n + 1, s) PROVE Scores(ws, n + 1)[u] \in Logs
    <2>1. PICK q \in U : Scores(ws, n + 1)[u] = w[q]
      BY <1>12 DEF Renames
    <2>2. PICK r \in R : q \in Q[r]
      BY DEF U
    <2> QED BY <1>5, <1>6, <2>1, <2>2, PlusType
  <1> HIDE DEF F
  <1>16. Good(T, ws, n + 1, s, F)
    BY <1>13, <1>14, <1>15 DEF Good
  <1> QED BY <1>16

-----------------------------------------------------------------------------
(* The trellis of a sentence, column by column, and its end.                 *)

\* What Arrive, NextColumn and EndColumn are when K paths are asked for.
InsertOf(K, paths, e) == Inserted(paths, e, IF Len(paths) < K THEN Len(paths) + 1 ELSE K)

ArriveOf(K, column, step) ==
  LET from == SetToSeq(DOMAIN step)
      all  == FlattenSeq([m \in DOMAIN from |-> Paths(column, from[m], step)])
      best[m \in 0..Len(all)] == IF m = 0 THEN <<>> ELSE InsertOf(K, best[m - 1], all[m])
  IN best[Len(all)]

NextOf(K, ws, n, column) ==
  [s \in FindStates(ws, n) |->
    ArriveOf(K, column, [r \in {q \in FindStates(ws, n - 1) : q[2] = s[1]} |->
                           Plus(ProbA_log(r, s, ws, n + 1), ProbB_log(s[2], ws[n + 1]))])]

EndOf(K, ws, column) == [s \in {endState} |-> ArriveOf(K, column, [r \in FindStates(ws, Len(ws) - 1) |-> 0])]

\* The columns of the model, for the number of paths that the options ask for.
LEMMA ColumnsOf ==
  ASSUME NEW ws, NEW n, NEW column
  PROVE  /\ NextColumn(ws, n, column) = NextOf(opt.kbest, ws, n, column)
         /\ EndColumn(ws, column) = EndOf(opt.kbest, ws, column)
  <1>1. ASSUME NEW step PROVE Arrive(column, step) = ArriveOf(opt.kbest, column, step)
    BY DEF Arrive, ArriveOf, Insert, InsertOf
  <1>2. NextColumn(ws, n, column) = NextOf(opt.kbest, ws, n, column)
    BY <1>1 DEF NextColumn, NextOf
  <1>3. EndColumn(ws, column) = EndOf(opt.kbest, ws, column)
    BY <1>1 DEF EndColumn, EndOf
  <1> QED BY <1>2, <1>3

\* The trellis of a sentence, its columns one after the other, up to the m-th.
TrellisOf(K, T, ws, m) ==
  /\ T[1] = FirstColumn(ws)
  /\ \A i \in 1..(Len(ws) - 1) : i < m => T[i + 1] = NextOf(K, ws, i, T[i])
  /\ m = Len(ws) + 1 => T[Len(ws) + 1] = EndOf(K, ws, T[Len(ws)])

\* Every column has the best sequences into each state.
LEMMA ColumnsGood ==
  ASSUME NEW ws \in Sentences, NEW T, TrellisOf(opt.kbest, T, ws, Len(ws) + 1), opt.kbest \in Nat \ {0},
         NEW n \in 1..Len(ws), NEW s \in FindStates(ws, n - 1)
  PROVE  \E D : Good(T, ws, n, s, D)
  <1>0. Len(ws) \in Nat \ {0}
    BY SentenceHas
  <1> DEFINE All(m) == \A r \in FindStates(ws, m - 1) : \E D : Good(T, ws, m, r, D)
             S == {m \in Nat : m + 1 <= Len(ws) => All(m + 1)}
  <1>1. 0 \in S
    <2>1. T[1] = FirstColumn(ws)
      BY DEF TrellisOf
    <2>2. All(1)
      BY <2>1, FirstGood
    <2> HIDE DEF All
    <2> QED BY <2>2
  <1>2. ASSUME NEW m \in Nat, m \in S PROVE m + 1 \in S
    <2> SUFFICES ASSUME (m + 1) + 1 <= Len(ws) PROVE All((m + 1) + 1)
      OBVIOUS
    <2>1. m + 1 \in 1..(Len(ws) - 1) /\ m + 1 <= Len(ws) /\ m + 1 < Len(ws) + 1 /\ ((m + 1) + 1) - 1 = m + 1
      BY <1>0
    <2>2. All(m + 1)
      BY <1>2, <2>1
    <2>3. T[(m + 1) + 1] = NextColumn(ws, m + 1, T[m + 1])
      BY <2>1, ColumnsOf DEF TrellisOf
    <2>4. PICK kth : kth = m + 1
      OBVIOUS
    <2>5. kth \in 1..(Len(ws) - 1) /\ T[kth + 1] = NextColumn(ws, kth, T[kth]) /\ (kth + 1) - 1 = kth
      BY <2>1, <2>3, <2>4
    <2>6. \A r \in FindStates(ws, kth - 1) : \E D : Good(T, ws, kth, r, D)
      BY <2>2, <2>4
    <2>7. ASSUME NEW r \in FindStates(ws, kth) PROVE \E D : Good(T, ws, kth + 1, r, D)
      BY <2>5, <2>6, NextGood
    <2> QED BY <2>1, <2>4, <2>7
  <1> HIDE DEF All, S
  <1>3. Nat \subseteq S
    BY <1>1, <1>2, Induct
  <1>4. n - 1 \in Nat /\ (n - 1) + 1 = n /\ n <= Len(ws)
    BY <1>0
  <1>5. All(n)
    BY <1>3, <1>4 DEF S
  <1> QED BY <1>5 DEF All

\* The paths of the end.
Ends(T, ws, E) ==
  LET n == Len(ws)
      L == T[n + 1][endState]
  IN /\ KBestOf(L, E, Seqs(ws, n), Scores(ws, n))
     /\ \A kth \in 1..Len(L) : Traced(T, n, L[kth].state, L[kth].kbest + 1, E[kth])

\* The end has the best sequences of the sentence.
LEMMA EndGood ==
  ASSUME NEW ws \in Sentences, NEW T, TrellisOf(opt.kbest, T, ws, Len(ws) + 1), opt.kbest \in Nat \ {0}
  PROVE  \E E : Ends(T, ws, E)
  <1> DEFINE n == Len(ws)
             R == FindStates(ws, n - 1)
             step == [r \in R |-> 0]
             Col == T[n]
             L == T[n + 1][endState]
             Q == [r \in R |-> EndIn(ws, n, r)]
             D == [r \in R |-> CHOOSE D : Good(T, ws, n, r, D)]
             v == Scores(ws, n)
             E == From(L, D)
             U == UNION {Q[r] : r \in R}
  <1>0. n \in Nat \ {0} /\ n \in 1..n
    BY SentenceHas
  <1>1. L = Arrive(Col, step)
    <2>1. T[n + 1] = EndColumn(ws, T[n])
      BY ColumnsOf DEF TrellisOf
    <2> QED BY <2>1 DEF EndColumn
  <1>2. IsFiniteSet(R) /\ DOMAIN step = R
    BY <1>0, StatesFinite
  <1>3. ASSUME NEW r \in R PROVE Good(T, ws, n, r, D[r]) /\ step[r] = 0 /\ Q[r] = EndIn(ws, n, r)
    <2>1. \E DD : Good(T, ws, n, r, DD)
      BY <1>0, ColumnsGood
    <2> QED BY <2>1
  <1>4. U = Seqs(ws, n)
    <2>1. ASSUME NEW q \in Seqs(ws, n) PROVE q \in U
      <3>1. PICK r : r = StateIn(q, n)
        OBVIOUS
      <3>2. r \in R
        BY <1>0, <3>1, StateOfSeq
      <3>3. q \in Q[r]
        BY <3>1, <3>2 DEF EndIn
      <3> HIDE DEF R, Q
      <3> QED BY <3>2, <3>3
    <2>2. ASSUME NEW q \in U PROVE q \in Seqs(ws, n)
      <3>1. PICK r \in R : q \in Q[r]
        OBVIOUS
      <3> QED BY <3>1 DEF EndIn
    <2> HIDE DEF U
    <2> QED BY <2>1, <2>2
  <1> HIDE DEF R, step, Q, D, v, Col, U
  <1>5. ASSUME NEW r \in R, NEW q \in Q[r]
        PROVE  v[q] \in Logs /\ v[q] = Plus(v[q], step[r]) /\ StateIn(q, n) = r
    <2>1. q \in EndIn(ws, n, r) /\ v[q] \in Logs
      BY <1>3 DEF Good, v
    <2>2. Plus(v[q], 0) = v[q]
      BY <2>1, ZeroIsNoNumber DEF Plus, Logs
    <2> QED BY <1>3, <2>1, <2>2 DEF EndIn
  <1>6. Mergeable(Col, R, step, Q, D, v, v)
    <2>1. \A r \in R : KBestOf(Col[r], D[r], Q[r], v)
      BY <1>3 DEF Good, Col, v
    <2>2. ASSUME NEW r \in R, NEW z \in R, r # z, NEW q \in Q[r] PROVE q \notin Q[z]
      BY <1>5, <2>2
    <2>3. \A r \in R : step[r] \in Logs
      BY <1>3 DEF Logs
    <2> QED BY <1>2, <1>5, <2>1, <2>2, <2>3 DEF Mergeable
  <1>7. Merged(L, Col, R, E, U, v)
    <2> HIDE DEF L, E
    <2>1. L = Arrive(Col, step) /\ E = From(L, D) /\ U = UNION {Q[r] : r \in R}
      BY <1>1 DEF E, U
    <2> QED BY <1>6, <2>1, Merge, ZeroIsNoNumber
  <1>8. ASSUME NEW kth \in 1..Len(L) PROVE Traced(T, n, L[kth].state, L[kth].kbest + 1, E[kth])
    <2>1. PICK r : r = L[kth].state
      OBVIOUS
    <2>2. PICK j : j = L[kth].kbest + 1
      OBVIOUS
    <2>3. r \in R /\ j \in 1..Len(Col[r])
      BY <1>7, <2>1, <2>2 DEF Merged
    <2>4. E[kth] = D[r][j]
      BY <2>1, <2>2 DEF From
    <2>5. Traced(T, n, r, j, D[r][j])
      BY <1>3, <2>3 DEF Good, Col
    <2> QED BY <2>1, <2>2, <2>4, <2>5
  <1>9. Ends(T, ws, E)
    <2> HIDE DEF E
    <2> QED BY <1>4, <1>7, <1>8 DEF Ends, Merged, v
  <1> QED BY <1>9

-----------------------------------------------------------------------------
(* The path back from the end.                                               *)

\* What the definition of Path asks of its recursive function.
Before(T, n, m, e) == T[n - m + 1][e.state][e.kbest + 1]

Backs(B, T, n, kth) ==
  B = [m \in 0..(n - 1) |-> IF m = 0 THEN T[n + 1][endState][kth + 1] ELSE Before(T, n, m, B[m - 1])]

\* The recursive function by which Path goes back exists.
LEMMA BacksExist ==
  ASSUME NEW T, NEW n \in Nat \ {0}, NEW kth
  PROVE  \E B : Backs(B, T, n, kth)
  <1> DEFINE Upto(B, m) == B = [i \in 0..m |-> IF i = 0 THEN T[n + 1][endState][kth + 1]
                                               ELSE Before(T, n, i, B[i - 1])]
             S == {m \in Nat : \E B : Upto(B, m)}
  <1>1. 0 \in S
    <2>1. Upto([i \in 0..0 |-> T[n + 1][endState][kth + 1]], 0)
      OBVIOUS
    <2> HIDE DEF Upto
    <2> QED BY <2>1
  <1>2. ASSUME NEW m \in Nat, m \in S PROVE m + 1 \in S
    <2>1. PICK B : Upto(B, m)
      BY <1>2
    <2> DEFINE last == Before(T, n, m + 1, B[m])
               H == [i \in 0..(m + 1) |-> IF i <= m THEN B[i] ELSE last]
    <2>2. ASSUME NEW i \in 0..(m + 1)
          PROVE  H[i] = IF i = 0 THEN T[n + 1][endState][kth + 1]
                        ELSE Before(T, n, i, H[i - 1])
      <3>1. CASE i <= m
        <4>1. B[i] = IF i = 0 THEN T[n + 1][endState][kth + 1]
                     ELSE Before(T, n, i, B[i - 1])
          <5>1. i \in 0..m
            BY <3>1
          <5> HIDE DEF H
          <5> QED BY <2>1, <5>1
        <4>2. i # 0 => H[i - 1] = B[i - 1]
          BY <3>1
        <4>3. H[i] = B[i]
          BY <3>1
        <4> HIDE DEF H
        <4> QED BY <4>1, <4>2, <4>3
      <3>2. CASE i = m + 1
        <4>1. H[i - 1] = B[m] /\ H[i] = last /\ i # 0
          BY <3>2
        <4> HIDE DEF H
        <4> QED BY <3>2, <4>1
      <3> QED BY <3>1, <3>2
    <2>3. H = [i \in 0..(m + 1) |-> H[i]]
      OBVIOUS
    <2> HIDE DEF H
    <2>4. Upto(H, m + 1)
      BY <2>2, <2>3
    <2>5. m + 1 \in Nat /\ \E BB : Upto(BB, m + 1)
      BY <2>4
    <2> HIDE DEF Upto
    <2> QED BY <2>5, Zenon
  <1> HIDE DEF S
  <1>3. Nat \subseteq S
    BY <1>1, <1>2, Induct
  <1>4. \E B : Upto(B, n - 1)
    <2>1. n - 1 \in S
      BY <1>3
    <2> HIDE DEF Upto
    <2> QED BY <2>1 DEF S
  <1> QED BY <1>4 DEF Backs

GivesTags(B, n, q) == \A i \in 1..n : B[n - i].state[2] = q[i]

\* It meets the tags of the sequence, from the last to the first.
LEMMA BacksAre ==
  ASSUME NEW T, NEW n \in Nat \ {0}, NEW kth, NEW B, Backs(B, T, n, kth), NEW q, NEW e,
         e = T[n + 1][endState][kth + 1], Traced(T, n, e.state, e.kbest + 1, q)
  PROVE  GivesTags(B, n, q)
  <1>2. PICK p, x : p[n] = e.state /\ x[n] = e.kbest + 1 /\ Traces(T, n, p, x) /\ \A i \in 1..n : q[i] = p[i][2]
    BY DEF Traced
  <1> DEFINE S == {m \in Nat : m < n => B[m].state = p[n - m] /\ B[m].kbest + 1 = x[n - m]}
  <1>3. 0 \in S
    <2>1. 0 \in 0..(n - 1) /\ n - 0 = n
      OBVIOUS
    <2>2. B[0] = e
      BY <2>1 DEF Backs
    <2> QED BY <1>2, <2>1, <2>2
  <1>4. ASSUME NEW m \in Nat, m \in S PROVE m + 1 \in S
    <2> SUFFICES ASSUME m + 1 < n PROVE B[m + 1].state = p[n - (m + 1)] /\ B[m + 1].kbest + 1 = x[n - (m + 1)]
      OBVIOUS
    <2>1. /\ m + 1 \in 0..(n - 1) /\ m + 1 # 0 /\ (m + 1) - 1 = m /\ n - (m + 1) + 1 = n - m
          /\ n - m \in 2..n /\ (n - m) - 1 = n - (m + 1)
      OBVIOUS
    <2>2. B[m + 1] = Before(T, n, m + 1, B[(m + 1) - 1])
      BY <2>1 DEF Backs
    <2>3. B[m + 1] = T[n - m][B[m].state][B[m].kbest + 1]
      BY <2>1, <2>2 DEF Before
    <2>4. B[m].state = p[n - m] /\ B[m].kbest + 1 = x[n - m]
      BY <1>4
    <2>5. p[(n - m) - 1] = T[n - m][p[n - m]][x[n - m]].state
          /\ x[(n - m) - 1] = T[n - m][p[n - m]][x[n - m]].kbest + 1
      BY <1>2, <2>1 DEF Traces
    <2> QED BY <2>1, <2>3, <2>4, <2>5
  <1> HIDE DEF S
  <1>5. Nat \subseteq S
    BY <1>3, <1>4, Induct
  <1>6. ASSUME NEW i \in 1..n PROVE B[n - i].state[2] = q[i]
    <2>1. n - i \in Nat /\ n - i < n /\ n - (n - i) = i
      OBVIOUS
    <2>2. B[n - i].state = p[n - (n - i)]
      BY <1>5, <2>1 DEF S
    <2> QED BY <1>2, <2>1, <2>2
  <1> QED BY <1>6 DEF GivesTags

\* The tags on the path bp are the sequence it stands for.
LEMMA PathIs ==
  ASSUME NEW bp, NEW E, N \in Nat \ {0}, bp \in Nat, bp + 1 \in 1..Len(Best), N = Len(input), Ends(trl, input, E)
  PROVE  DOMAIN Path(bp) = 1..N /\ \A i \in 1..N : Path(bp)[i][2] = E[bp + 1][i]
  <1> DEFINE B == CHOOSE B : B = [m \in 0..(N - 1) |-> IF m = 0 THEN Best[bp + 1]
                                      ELSE trl[N - m + 1][B[m - 1].state][B[m - 1].kbest + 1]]
  <1>1. \E BB : Backs(BB, trl, N, bp)
    BY BacksExist
  <1>2. Backs(B, trl, N, bp)
    BY <1>1 DEF Backs, Best, Before
  <1>3. Path(bp) = [n \in 1..N |-> B[N - n].state]
    BY DEF Path
  <1> HIDE DEF B
  <1>4. Traced(trl, N, Best[bp + 1].state, Best[bp + 1].kbest + 1, E[bp + 1])
    BY DEF Ends, Best
  <1>5. PICK e : e = trl[N + 1][endState][bp + 1] /\ Traced(trl, N, e.state, e.kbest + 1, E[bp + 1])
    BY <1>4 DEF Best
  <1>6. GivesTags(B, N, E[bp + 1])
    BY <1>2, <1>5, BacksAre
  <1> QED BY <1>3, <1>6 DEF GivesTags

-----------------------------------------------------------------------------
(* Words, and what is selected of them.                                      *)

\* A word of a sentence as it comes.
GoodWord(v) ==
  /\ DOMAIN v = {"form", "from", "to", "analyses"}
  /\ v.from \in Nat /\ v.to \in Nat /\ v.from <= v.to
  /\ Len(v.analyses) \in Nat /\ DOMAIN v.analyses = 1..Len(v.analyses)
  /\ v.analyses = [m \in 1..Len(v.analyses) |-> v.analyses[m]]
  /\ \A m \in DOMAIN v.analyses :
       /\ DOMAIN v.analyses[m] = {"lemma", "tag", "prob", "retok", "sel"}
       /\ v.analyses[m].prob \in Nat /\ v.analyses[m].sel \subseteq {0}
       /\ v.analyses[m].retok \in Seq(Range(v.analyses[m].retok))
       /\ \A x \in Range(v.analyses[m].retok) : {"from", "to"} \subseteq DOMAIN x /\ Length(x.form) \in Nat

\* Every word of a sentence is as the tagger may receive it.
LEMMA WordsGood ==
  ASSUME NEW ws \in Sentences
  PROVE  \A n \in 1..Len(ws) : GoodWord(ws[n]) /\ (n < Len(ws) => ws[n].to <= ws[n + 1].from)
  <1>1. DOMAIN ws = 1..Len(ws)
    BY SentenceHas
  <1>2. ASSUME NEW n \in 1..Len(ws) PROVE GoodWord(ws[n]) /\ (n < Len(ws) => ws[n].to <= ws[n + 1].from)
    <2> DEFINE v == ws[n]
    <2>1. /\ DOMAIN v = {"form", "from", "to", "analyses"}
          /\ v.from \in Nat /\ v.to \in Nat /\ v.from <= v.to
          /\ n < Len(ws) => v.to <= ws[n + 1].from
          /\ v.analyses \in Seq(Range(v.analyses))
          /\ \A a \in Range(v.analyses) :
              /\ {"lemma", "tag", "prob", "retok", "sel"} = DOMAIN a
              /\ a.prob \in Nat /\ a.sel \subseteq {0}
              /\ a.retok \in Seq(Range(a.retok))
              /\ \A x \in Range(a.retok) : {"from", "to"} \subseteq DOMAIN x /\ Length(x.form) \in Nat
      BY <1>1, TaggerAssumption DEF SentencesAssumption
    <2> HIDE DEF v
    <2>2. PICK T : T = Range(v.analyses)
      OBVIOUS
    <2>3. v.analyses \in Seq(T)
      BY <2>1, <2>2
    <2>4. /\ Len(v.analyses) \in Nat /\ DOMAIN v.analyses = 1..Len(v.analyses)
          /\ v.analyses = [m \in 1..Len(v.analyses) |-> v.analyses[m]]
      BY <2>3, LenProperties
    <2>5. \A m \in DOMAIN v.analyses : v.analyses[m] \in Range(v.analyses)
      BY DEF Range
    <2>6. GoodWord(v)
      BY <2>1, <2>4, <2>5 DEF GoodWord
    <2> QED BY <2>1, <2>6 DEF v
  <1> QED BY <1>2

\* The word w is the word v, apart from which of its analyses are selected.
AsCame(a, b) == /\ DOMAIN a = {"lemma", "tag", "prob", "retok", "sel"}
                /\ a.tag = b.tag /\ a.prob = b.prob /\ a.retok = b.retok
Kept(w, v) ==
  /\ DOMAIN w = {"form", "from", "to", "analyses"} /\ w.from = v.from /\ w.to = v.to
  /\ DOMAIN w.analyses = DOMAIN v.analyses
  /\ w.analyses = [m \in DOMAIN v.analyses |-> w.analyses[m]]
  /\ \A m \in DOMAIN v.analyses : AsCame(w.analyses[m], v.analyses[m])

\* A word is the word it came as.
LEMMA KeptAtFirst ==
  ASSUME NEW v, GoodWord(v)
  PROVE  Kept(v, v)
  BY DEF GoodWord, Kept, AsCame

\* A word with other analyses.
LEMMA OtherAnalyses ==
  ASSUME NEW w, NEW v, Kept(w, v), NEW as, DOMAIN as = DOMAIN v.analyses,
         as = [m \in DOMAIN v.analyses |-> as[m]],
         \A m \in DOMAIN v.analyses : AsCame(as[m], v.analyses[m]),
         NEW x, x = [w EXCEPT !.analyses = as]
  PROVE  Kept(x, v) /\ x.analyses = as
  <1>1. DOMAIN x = {"form", "from", "to", "analyses"} /\ x.analyses = as /\ x.from = w.from /\ x.to = w.to
    BY DEF Kept
  <1> QED BY <1>1 DEF Kept

\* An analysis with another selection is the same analysis.
LEMMA OtherSelection ==
  ASSUME NEW a, NEW b, AsCame(a, b), NEW s, NEW c, c = [a EXCEPT !.sel = s]
  PROVE  AsCame(c, b) /\ c.sel = s
  BY DEF AsCame

\* unselect_all_analysis only unselects.
LEMMA UnselectKeeps ==
  ASSUME NEW w, NEW v, Kept(w, v), NEW kth
  PROVE  /\ Kept(unselect_all_analysis(w, kth), v)
         /\ \A m \in DOMAIN v.analyses :
              unselect_all_analysis(w, kth).analyses[m].sel = w.analyses[m].sel \ {kth}
  <1> DEFINE as == [m \in DOMAIN w.analyses |-> unmark_selected(w.analyses[m], kth)]
             x == unselect_all_analysis(w, kth)
  <1>1. ASSUME NEW m \in DOMAIN v.analyses
        PROVE  AsCame(as[m], v.analyses[m]) /\ as[m].sel = w.analyses[m].sel \ {kth}
    <2>1. as[m] = [w.analyses[m] EXCEPT !.sel = w.analyses[m].sel \ {kth}]
      BY DEF Kept, unmark_selected
    <2>2. AsCame(w.analyses[m], v.analyses[m])
      BY DEF Kept
    <2> HIDE DEF as
    <2> QED BY <2>1, <2>2, OtherSelection
  <1>2. x = [w EXCEPT !.analyses = as]
    BY Zenon DEF unselect_all_analysis
  <1>3. DOMAIN as = DOMAIN v.analyses /\ as = [m \in DOMAIN v.analyses |-> as[m]]
    BY DEF Kept
  <1> HIDE DEF as, x
  <1>4. Kept(x, v) /\ x.analyses = as
    <2>1. \A m \in DOMAIN v.analyses : AsCame(as[m], v.analyses[m])
      BY <1>1
    <2> QED BY <2>1, <1>2, <1>3, OtherAnalyses
  <1> QED BY <1>1, <1>4 DEF x

\* select_analysis only selects.
LEMMA SelectOneKeeps ==
  ASSUME NEW w, NEW v, Kept(w, v), NEW i, NEW kth
  PROVE  Kept(select_analysis(w, i, kth), v)
  <1> DEFINE as == [w.analyses EXCEPT ![i] = mark_selected(@, kth)]
             x == select_analysis(w, i, kth)
  <1>1. ASSUME NEW m \in DOMAIN v.analyses PROVE AsCame(as[m], v.analyses[m])
    <2>1. AsCame(w.analyses[m], v.analyses[m]) /\ m \in DOMAIN w.analyses
      BY DEF Kept
    <2>2. CASE m = i
      <3>1. as[m] = [w.analyses[m] EXCEPT !.sel = w.analyses[m].sel \cup {kth}]
        BY <2>1, <2>2 DEF mark_selected
      <3> HIDE DEF as
      <3> QED BY <2>1, <3>1, OtherSelection
    <2>3. CASE m # i
      BY <2>1, <2>3
    <2> QED BY <2>2, <2>3
  <1>2. x = [w EXCEPT !.analyses = as]
    BY DEF select_analysis, Kept
  <1>3. DOMAIN as = DOMAIN v.analyses /\ as = [m \in DOMAIN v.analyses |-> as[m]]
    BY DEF Kept
  <1> HIDE DEF as, x
  <1> QED BY <1>1, <1>2, <1>3, OtherAnalyses DEF x

\* Of a word that came as v, the analyses that a path with that tag selects.
Fit(v, tag)  == {m \in DOMAIN v.analyses : get_short_tag(v.analyses[m].tag) = tag}
Likely(v, tag) == {m \in Fit(v, tag) : \A o \in Fit(v, tag) : v.analyses[m].prob >= v.analyses[o].prob}

Selects(x, w, v, tag, bp) ==
  \A m \in DOMAIN v.analyses :
    x.analyses[m].sel = IF m \in Likely(v, tag) THEN w.analyses[m].sel \cup {bp} ELSE w.analyses[m].sel

\* A path selects the likely analyses with its tag, and changes no more.
LEMMA SelectKeeps ==
  ASSUME NEW w, NEW v, Kept(w, v), NEW tag, NEW bp
  PROVE  Kept(Select(w, tag, bp), v) /\ Selects(Select(w, tag, bp), w, v, tag, bp)
  <1> DEFINE fit == {m \in DOMAIN w.analyses : get_short_tag(w.analyses[m].tag) = tag}
             best == {m \in fit : \A o \in fit : w.analyses[m].prob >= w.analyses[o].prob}
             as == [m \in DOMAIN w.analyses |->
                      IF m \in best THEN mark_selected(w.analyses[m], bp) ELSE w.analyses[m]]
             x == Select(w, tag, bp)
  <1>1. fit = Fit(v, tag)
    BY DEF Fit, Kept, AsCame
  <1>2. best = Likely(v, tag)
    <2>1. \A m \in Fit(v, tag) : w.analyses[m].prob = v.analyses[m].prob
      BY DEF Fit, Kept, AsCame
    <2> HIDE DEF fit
    <2> QED BY <1>1, <2>1 DEF Likely
  <1>3. x = [w EXCEPT !.analyses = as]
    BY Zenon DEF Select
  <1> HIDE DEF best, fit
  <1>4. ASSUME NEW m \in DOMAIN v.analyses
        PROVE  AsCame(as[m], v.analyses[m]) /\
               as[m].sel = IF m \in Likely(v, tag) THEN w.analyses[m].sel \cup {bp} ELSE w.analyses[m].sel
    <2>1. AsCame(w.analyses[m], v.analyses[m]) /\ m \in DOMAIN w.analyses
      BY DEF Kept
    <2>2. CASE m \in Likely(v, tag)
      <3>1. as[m] = [w.analyses[m] EXCEPT !.sel = w.analyses[m].sel \cup {bp}]
        BY <1>2, <2>1, <2>2 DEF mark_selected
      <3> HIDE DEF as
      <3>2. AsCame(as[m], v.analyses[m]) /\ as[m].sel = w.analyses[m].sel \cup {bp}
        BY <2>1, <3>1, OtherSelection
      <3> QED BY <2>2, <3>2
    <2>3. CASE m \notin Likely(v, tag)
      BY <1>2, <2>1, <2>3
    <2> QED BY <2>2, <2>3
  <1>5. DOMAIN as = DOMAIN v.analyses /\ as = [m \in DOMAIN v.analyses |-> as[m]]
    BY DEF Kept
  <1> HIDE DEF as, x
  <1>6. Kept(x, v) /\ x.analyses = as
    <2>1. \A m \in DOMAIN v.analyses : AsCame(as[m], v.analyses[m])
      BY <1>4
    <2> QED BY <2>1, <1>3, <1>5, OtherAnalyses
  <1> QED BY <1>4, <1>6 DEF x, Selects

\* A path selects an analysis of each word that may have its tag, none with another.
LEMMA LikelyHasTag ==
  ASSUME NEW v, GoodWord(v), NEW tag \in TagsOf(v)
  PROVE  /\ Likely(v, tag) # {}
         /\ \A m \in Likely(v, tag) : m \in DOMAIN v.analyses /\ get_short_tag(v.analyses[m].tag) = tag
  <1>1. PICK o \in DOMAIN v.analyses : get_short_tag(v.analyses[o].tag) = tag
    BY DEF TagsOf
  <1>2. o \in Fit(v, tag)
    BY <1>1 DEF Fit
  <1>3. \A m \in Fit(v, tag) : v.analyses[m].prob \in Nat /\ m \in DOMAIN v.analyses
    BY DEF Fit, GoodWord
  <1> DEFINE P == {v.analyses[m].prob : m \in Fit(v, tag)}
  <1>4. IsFiniteSet(Fit(v, tag))
    <2>1. IsFiniteSet(1..Len(v.analyses))
      <3>1. PICK n : n = Len(v.analyses)
        OBVIOUS
      <3>2. n \in Nat
        BY <3>1 DEF GoodWord
      <3> QED BY <3>1, <3>2, FS_Interval
    <2>2. Fit(v, tag) \in SUBSET (1..Len(v.analyses))
      BY DEF Fit, GoodWord
    <2> QED BY <2>1, <2>2, FS_Subset
  <1>5. \E p \in P : \A q \in P : p >= q
    <2>1. P # {} /\ P \in SUBSET Nat
      BY <1>2, <1>3
    <2>2. IsFiniteSet(P)
      <3> DEFINE f == [m \in Fit(v, tag) |-> v.analyses[m].prob]
      <3>1. f \in Surjection(Fit(v, tag), P)
        BY DEF Surjection
      <3> HIDE DEF f, P
      <3> QED BY <1>4, <3>1, FS_Surjection
    <2> HIDE DEF P
    <2> QED BY <2>1, <2>2, MostOf
  <1>6. PICK m \in Fit(v, tag) : \A q \in P : v.analyses[m].prob >= q
    BY <1>5
  <1>7. m \in Likely(v, tag)
    BY <1>6 DEF Likely
  <1> QED BY <1>7 DEF Likely, Fit

-----------------------------------------------------------------------------
(* Places: the parts of a contraction.                                       *)

\* The words of s stand within a and b, one after the other.
Spanned(x)       == {"from", "to"} \subseteq DOMAIN x /\ x.from \in Nat /\ x.to \in Nat /\ x.from <= x.to
Within(x, a, b)  == Spanned(x) /\ a <= x.from /\ x.to <= b
Segment(s, a, b) == /\ s \in Seq(Range(s)) /\ \A x \in Range(s) : Within(x, a, b)
                    /\ \A i, j \in 1..Len(s) : i < j => s[i].to <= s[j].from

\* Where a part ends that is that long.
Cut(w, room, end) == IF end + room > w.to THEN w.to ELSE end + room
Cuts(f, w, lw) ==
  f = [m \in 0..Len(lw) |-> IF m = 0 THEN w.from ELSE Cut(w, Length(lw[m].form), f[m - 1])]

Contraction(w, lw) ==
  /\ w.from \in Nat /\ w.to \in Nat /\ w.from <= w.to
  /\ Len(lw) \in Nat /\ DOMAIN lw = 1..Len(lw)
  /\ \A m \in 1..Len(lw) : {"from", "to"} \subseteq DOMAIN lw[m] /\ Length(lw[m].form) \in Nat

\* A part of a contraction ends within it.
LEMMA CutWithin ==
  ASSUME NEW w, NEW room \in Nat, NEW end, w.from \in Nat, w.to \in Nat, end \in w.from..w.to
  PROVE  Cut(w, room, end) \in w.from..w.to /\ end <= Cut(w, room, end)
  BY DEF Cut

\* The places where the parts of a contraction end exist.
LEMMA CutsExist ==
  ASSUME NEW w, NEW lw, Contraction(w, lw)
  PROVE  \E f : Cuts(f, w, lw)
  <1> DEFINE V == w.from..w.to
             n == Len(lw)
             step == [p \in V \X (1..n) |-> Cut(w, Length(lw[p[2]].form), p[1])]
  <1>1. w.from \in V /\ n \in Nat
    BY DEF Contraction
  <1>2. ASSUME NEW p \in V \X (1..n) PROVE Cut(w, Length(lw[p[2]].form), p[1]) \in V
    BY CutWithin DEF Contraction
  <1>3. step \in [V \X (1..n) -> V]
    <2> HIDE DEF V, n
    <2> QED BY <1>2
  <1>4. \A a \in V, m \in 1..n : step[<<a, m>>] = Cut(w, Length(lw[m].form), a)
    <2> HIDE DEF V, n
    <2> QED OBVIOUS
  <1> HIDE DEF V, n, step
  <1>5. PICK f : Recurs(f, V, w.from, n, step)
    BY <1>1, <1>3, Recursion
  <1>6. ASSUME NEW m \in 0..n PROVE f[m] = IF m = 0 THEN w.from ELSE Cut(w, Length(lw[m].form), f[m - 1])
    <2>1. CASE m = 0
      BY <1>5, <2>1 DEF Recurs
    <2>2. CASE m # 0
      <3>1. m \in 1..n /\ m - 1 \in 0..n
        BY <1>1, <2>2
      <3>2. f[m] = step[<<f[m - 1], m>>] /\ f[m - 1] \in V
        BY <1>5, <3>1 DEF Recurs
      <3> QED BY <1>4, <2>2, <3>1, <3>2
    <2> QED BY <2>1, <2>2
  <1>7. f = [m \in 0..n |-> f[m]]
    BY <1>5 DEF Recurs
  <1>8. Cuts(f, w, lw)
    BY <1>6, <1>7 DEF Cuts, n
  <1> QED BY <1>8

\* They are in order, within the contraction.
LEMMA CutsGrow ==
  ASSUME NEW w, NEW lw, Contraction(w, lw), NEW f, Cuts(f, w, lw)
  PROVE  \A m \in 0..Len(lw) : f[m] \in w.from..w.to /\ \A i \in 0..m : f[i] <= f[m]
  <1> DEFINE n == Len(lw)
             Up(m) == \A i \in 0..m : f[i] \in w.from..w.to /\ f[i] <= f[m]
             S == {m \in Nat : m <= n => Up(m)}
  <1>0. n \in Nat
    BY DEF Contraction
  <1>1. 0 \in S
    <2>1. f[0] = w.from
      BY <1>0 DEF Cuts
    <2>2. Up(0)
      BY <2>1 DEF Contraction
    <2> QED BY <2>2
  <1>2. ASSUME NEW m \in Nat, m \in S PROVE m + 1 \in S
    <2> SUFFICES ASSUME m + 1 <= n PROVE Up(m + 1)
      OBVIOUS
    <2>1. m + 1 \in 0..n /\ m + 1 \in 1..n /\ m + 1 # 0 /\ (m + 1) - 1 = m
      BY <1>0
    <2>2. f[m + 1] = Cut(w, Length(lw[m + 1].form), f[m])
      BY <2>1 DEF Cuts
    <2>3. Up(m)
      BY <1>2, <1>0
    <2>4. w.from \in Nat /\ w.to \in Nat /\ Length(lw[m + 1].form) \in Nat
      BY <2>1 DEF Contraction
    <2>5. f[m] \in w.from..w.to /\ f[m + 1] \in w.from..w.to /\ f[m] <= f[m + 1]
      <3>1. m \in 0..m
        OBVIOUS
      <3>2. f[m] \in w.from..w.to
        BY <2>3, <3>1
      <3> QED BY <2>2, <2>4, <3>2, CutWithin
    <2>6. ASSUME NEW i \in 0..(m + 1) PROVE f[i] \in w.from..w.to /\ f[i] <= f[m + 1]
      <3>1. CASE i = m + 1
        BY <2>4, <2>5, <3>1
      <3>2. CASE i # m + 1
        <4>1. i \in 0..m
          BY <3>2
        <4>2. f[i] <= f[m] /\ f[i] \in w.from..w.to
          BY <2>3, <4>1
        <4> QED BY <2>4, <2>5, <4>2
      <3> QED BY <3>1, <3>2
    <2> QED BY <2>6
  <1> HIDE DEF S, Up
  <1>3. Nat \subseteq S
    BY <1>1, <1>2, Induct
  <1>4. ASSUME NEW m \in 0..n PROVE Up(m) /\ m \in 0..m
    BY <1>0, <1>3, <1>4 DEF S
  <1> QED BY <1>4 DEF Up

\* The parts of a contraction stand within it, one after the other.
LEMMA PartsSegment ==
  ASSUME NEW w, NEW lw, Contraction(w, lw)
  PROVE  Segment(Parts(w, lw), w.from, w.to)
  <1> DEFINE f == CHOOSE f : f = [m \in 0..Len(lw) |->
                     IF m = 0 THEN w.from
                     ELSE IF f[m - 1] + Length(lw[m].form) > w.to THEN w.to ELSE f[m - 1] + Length(lw[m].form)]
             s == Parts(w, lw)
             n == Len(lw)
  <1>1. \E g : Cuts(g, w, lw)
    BY CutsExist
  <1>2. Cuts(f, w, lw)
    BY <1>1 DEF Cuts, Cut
  <1>3. s = [m \in DOMAIN lw |-> [lw[m] EXCEPT !.from = f[m - 1], !.to = f[m]]]
    BY DEF Parts
  <1> HIDE DEF f, s
  <1>4. \A m \in 0..n : f[m] \in w.from..w.to /\ \A i \in 0..m : f[i] <= f[m]
    BY <1>2, CutsGrow
  <1>5. /\ n \in Nat /\ DOMAIN lw = 1..n /\ w.from \in Nat /\ w.to \in Nat
        /\ \A m \in 1..n : {"from", "to"} \subseteq DOMAIN lw[m]
    BY DEF Contraction
  <1>6. DOMAIN s = 1..n /\ Len(s) = n /\ s = [m \in 1..n |-> s[m]]
    <2>1. s = [m \in 1..n |-> [lw[m] EXCEPT !.from = f[m - 1], !.to = f[m]]] /\ n \in Nat
      BY <1>3, <1>5
    <2> HIDE DEF n
    <2>2. s = [m \in 1..n |-> s[m]]
      BY <2>1
    <2> QED BY <2>1, <2>2, SeqOfFunction
  <1>7. ASSUME NEW m \in 1..n
        PROVE  {"from", "to"} \subseteq DOMAIN s[m] /\ s[m].from = f[m - 1] /\ s[m].to = f[m]
    <2>1. s[m] = [lw[m] EXCEPT !.from = f[m - 1], !.to = f[m]] /\ {"from", "to"} \subseteq DOMAIN lw[m]
      BY <1>3, <1>5
    <2> HIDE DEF s, n
    <2> QED BY <2>1
  <1> HIDE DEF n
  <1>8. ASSUME NEW m \in 1..n PROVE Within(s[m], w.from, w.to)
    <2>1. m \in 0..n /\ m - 1 \in 0..n /\ m - 1 \in 0..m
      BY <1>5
    <2>2. f[m] \in w.from..w.to /\ f[m - 1] \in w.from..w.to /\ f[m - 1] <= f[m]
      BY <1>4, <2>1
    <2>3. s[m].from \in Nat /\ s[m].to \in Nat /\ s[m].from <= s[m].to /\ w.from <= s[m].from /\ s[m].to <= w.to
      BY <1>5, <1>7, <2>2
    <2> QED BY <1>7, <2>3 DEF Within, Spanned
  <1>9. s \in Seq(Range(s))
    BY <1>5, <1>6 DEF Range
  <1>10. \A x \in Range(s) : Within(x, w.from, w.to)
    BY <1>6, <1>8 DEF Range
  <1>11. ASSUME NEW i \in 1..n, NEW j \in 1..n, i < j PROVE s[i].to <= s[j].from
    <2>1. i \in 0..(j - 1) /\ j - 1 \in 0..n
      BY <1>5, <1>11
    <2>2. f[i] <= f[j - 1]
      BY <1>4, <2>1
    <2> QED BY <1>7, <2>2
  <1> QED BY <1>6, <1>9, <1>10, <1>11 DEF Segment, s

-----------------------------------------------------------------------------
(* Places: the words of a sentence.                                          *)

\* What stands for a word after retokenization has its place.
LEMMA RetokenizedSegment ==
  ASSUME NEW w, NEW v, GoodWord(v), Kept(w, v)
  PROVE  Segment(Retokenized(w), v.from, v.to)
  <1> DEFINE b == selected_begin(w, 0)
             lw == w.analyses[b].retok
  <1>1. /\ v.from \in Nat /\ v.to \in Nat /\ v.from <= v.to /\ Len(v.analyses) \in Nat
        /\ DOMAIN v.analyses = 1..Len(v.analyses)
        /\ w.from = v.from /\ w.to = v.to /\ DOMAIN w = {"form", "from", "to", "analyses"}
        /\ DOMAIN w.analyses = DOMAIN v.analyses
    BY DEF GoodWord, Kept
  <1>2. CASE get_n_selected(w, 0) = 1 /\ lw # <<>>
    <2> DEFINE I == {i \in 1..Len(w.analyses) : 0 \in w.analyses[i].sel}
    <2>1. I # {}
      <3>1. {m \in DOMAIN w.analyses : 0 \in w.analyses[m].sel} # {}
        <4>1. PICK X : X = {m \in DOMAIN w.analyses : 0 \in w.analyses[m].sel}
          OBVIOUS
        <4>2. Cardinality(X) = 1
          BY <1>2, <4>1 DEF get_n_selected
        <4>3. X # {}
          BY <4>2, FS_EmptySet
        <4> QED BY <4>1, <4>3
      <3>2. Len(w.analyses) = Len(v.analyses)
        BY <1>1
      <3> QED BY <1>1, <3>1, <3>2
    <2>2. b \in I
      <3>1. I \in SUBSET Nat
        OBVIOUS
      <3>2. \E i \in I : \A j \in I : i <= j
        BY <2>1, <3>1, Least
      <3>3. b = IF I # {} THEN Min(I) ELSE 0
        BY DEF selected_begin, SelectInSeq
      <3>4. b = CHOOSE i \in I : \A j \in I : i <= j
        BY <2>1, <3>3 DEF Min
      <3> HIDE DEF b, I
      <3> QED BY <3>2, <3>4
    <2>3. b \in DOMAIN v.analyses
      BY <1>1, <2>2
    <2> HIDE DEF b
    <2>4. lw = v.analyses[b].retok
      BY <2>3 DEF Kept, AsCame
    <2>5. lw \in Seq(Range(lw)) /\ \A x \in Range(lw) : {"from", "to"} \subseteq DOMAIN x /\ Length(x.form) \in Nat
      BY <2>3, <2>4 DEF GoodWord
    <2> HIDE DEF lw
    <2>6. PICK T : T = Range(lw)
      OBVIOUS
    <2>7. lw \in Seq(T) /\ Len(lw) \in Nat /\ DOMAIN lw = 1..Len(lw)
      BY <2>5, <2>6, LenProperties
    <2>8. \A m \in 1..Len(lw) : lw[m] \in Range(lw)
      BY <2>7 DEF Range
    <2>9. Contraction(w, lw)
      BY <1>1, <2>5, <2>7, <2>8 DEF Contraction
    <2>10. Segment(Parts(w, lw), w.from, w.to)
      BY <2>9, PartsSegment
    <2>11. Retokenized(w) = Parts(w, lw)
      BY <1>2 DEF Retokenized, b, lw
    <2> QED BY <1>1, <2>10, <2>11
  <1>3. CASE ~(get_n_selected(w, 0) = 1 /\ lw # <<>>)
    <2>1. Retokenized(w) = <<w>>
      BY <1>3 DEF Retokenized
    <2>2. Range(<<w>>) = {w} /\ <<w>> \in Seq({w}) /\ Len(<<w>>) = 1
      BY DEF Range
    <2>3. Within(w, v.from, v.to)
      BY <1>1 DEF Within, Spanned
    <2>4. PICK s : s = <<w>>
      OBVIOUS
    <2>5. s \in Seq(Range(s)) /\ (\A x \in Range(s) : Within(x, v.from, v.to)) /\ Len(s) = 1
      BY <2>2, <2>3, <2>4
    <2>6. Segment(s, v.from, v.to)
      BY <2>5 DEF Segment
    <2> QED BY <2>1, <2>4, <2>6
  <1> QED BY <1>2, <1>3

\* The places of the words: they follow one another, each within a word of the sentence.
Placing(ws, in) ==
  /\ Len(ws) \in Nat /\ DOMAIN ws = 1..Len(ws)
  /\ \A n \in 1..Len(ws) :
       /\ Spanned(ws[n])
       /\ n < Len(ws) => ws[n].to <= ws[n + 1].from
       /\ \E m \in DOMAIN in : in[m].from <= ws[n].from /\ ws[n].to <= in[m].to

-----------------------------------------------------------------------------
(* The inductive invariant of the tagger.                                    *)

\* The path bp of a trellis of n words.
PathOf(T, n, bp) ==
  LET Back[m \in 0..(n - 1)] ==
        IF m = 0 THEN T[n + 1][endState][bp + 1]
        ELSE T[n - m + 1][Back[m - 1].state][Back[m - 1].kbest + 1]
  IN [i \in 1..n |-> Back[n - i].state]

\* Path reads the trellis and the number of words only.
LEMMA PathIsOf ==
  ASSUME NEW bp
  PROVE  Path(bp) = PathOf(trl, N, bp)
  BY DEF Path, PathOf, Best

\* The words are those of the sentence, apart from what is selected.
AllKept(ws, in) == Len(ws) = Len(in) /\ DOMAIN ws = 1..Len(ws) /\ \A n \in 1..Len(in) : Kept(ws[n], in[n])

\* Of each word the first m paths have selected the likely analyses with their tags.
SelectedBy(ws, in, T, m) ==
  \A n \in 1..Len(in) : \A a \in DOMAIN in[n].analyses :
    ws[n].analyses[a].sel = {kth \in 0..(m - 1) : a \in Likely(in[n], PathOf(T, Len(in), kth)[n][2])}

InSentence == IF phase = "idle" THEN words = <<>> /\ input = <<>> ELSE input \in Sentences
Untouched  == phase \in {"start", "column", "end"} => words = input
InTrellis  == /\ phase \in {"column", "end"} =>
                   /\ Sequence(trl)
                   /\ Len(trl) = t /\ TrellisOf(opt.kbest, trl, input, t)
              /\ phase = "column" => t \in 1..(Len(input) - 1)
              /\ phase = "end" => t = Len(input)
              /\ phase \in {"select", "tagged"} => TrellisOf(opt.kbest, trl, input, Len(input) + 1)
AsReceived == phase \in {"select", "tagged", "retok"} => AllKept(words, input)
Marked     == phase \in {"select", "tagged"} =>
                LET found == Len(trl[Len(input) + 1][endState]) IN
                /\ t \in 0..found /\ (phase = "tagged" => t = found)
                /\ SelectedBy(words, input, trl, t)
InPlace    == phase \in {"forced", "done", "crash"} => Placing(words, input)

TaggerInv ==
  /\ phase \in {"idle", "start", "column", "end", "select", "tagged", "retok", "forced", "done", "crash"}
  /\ opt \in Options
  /\ InSentence /\ Untouched /\ InTrellis /\ AsReceived /\ Marked /\ InPlace

-----------------------------------------------------------------------------
(* How the trellis grows.                                                    *)

\* The options ask for at least one sequence.
LEMMA KbestNumber ==
  ASSUME opt \in Options
  PROVE  opt.kbest \in Nat \ {0}
  BY TaggerAssumption

\* No more sequences are found than were asked for.
LEMMA LengthOfBest ==
  ASSUME NEW ws \in Sentences, NEW T, TrellisOf(opt.kbest, T, ws, Len(ws) + 1), opt.kbest \in Nat \ {0}
  PROVE  /\ Len(T[Len(ws) + 1][endState]) \in Nat /\ Len(T[Len(ws) + 1][endState]) <= opt.kbest
         /\ DOMAIN T[Len(ws) + 1][endState] = 1..Len(T[Len(ws) + 1][endState])
  <1>1. PICK E : Ends(T, ws, E)
    BY EndGood
  <1> QED BY <1>1 DEF Ends, KBestOf

\* A trellis begins with the first column.
LEMMA TrellisBegins ==
  ASSUME NEW ws \in Sentences
  PROVE  TrellisOf(opt.kbest, <<FirstColumn(ws)>>, ws, 1)
  <1>1. Len(ws) \in Nat \ {0}
    BY SentenceHas
  <1> QED BY <1>1 DEF TrellisOf

\* What a sequence was before it grew.
LEMMA AppendMore ==
  ASSUME NEW S, NEW T \in Seq(S), NEW c
  PROVE  /\ Append(T, c) \in Seq(S \cup {c}) /\ Len(Append(T, c)) = Len(T) + 1
         /\ Append(T, c)[Len(T) + 1] = c /\ \A i \in 1..Len(T) : Append(T, c)[i] = T[i]
  <1>1. T \in Seq(S \cup {c}) /\ c \in S \cup {c}
    OBVIOUS
  <1> QED BY <1>1, AppendProperties

Grown(U, T, ws, m) == /\ Sequence(T) /\ Len(T) = m /\ TrellisOf(opt.kbest, T, ws, m)
                      /\ U = Append(T, NextColumn(ws, m, T[m]))

\* The trellis of the words so far, with the column of the next.
LEMMA TrellisGrows ==
  ASSUME NEW ws \in Sentences, NEW T, NEW m \in 1..(Len(ws) - 1), NEW U, Grown(U, T, ws, m)
  PROVE  Len(U) = m + 1 /\ Sequence(U) /\ TrellisOf(opt.kbest, U, ws, m + 1)
  <1>0. Len(ws) \in Nat \ {0}
    BY SentenceHas
  <1>6. PICK S : T \in Seq(S)
    BY DEF Grown, Sequence
  <1>7. Len(T) = m /\ TrellisOf(opt.kbest, T, ws, m) /\ U = Append(T, NextColumn(ws, m, T[m]))
    BY DEF Grown
  <1>1. PICK c : c = NextColumn(ws, m, T[m])
    OBVIOUS
  <1>2. U \in Seq(S \cup {c}) /\ Len(U) = m + 1 /\ U[m + 1] = c /\ \A i \in 1..m : U[i] = T[i]
    BY <1>1, <1>6, <1>7, AppendMore
  <1>3. ASSUME NEW i \in 1..(Len(ws) - 1), i < m + 1 PROVE U[i + 1] = NextOf(opt.kbest, ws, i, U[i])
    <2>1. CASE i = m
      BY <1>1, <1>2, <2>1, ColumnsOf
    <2>2. CASE i < m
      <3>1. i \in 1..m /\ i + 1 \in 1..m
        BY <1>0, <2>2
      <3>2. T[i + 1] = NextOf(opt.kbest, ws, i, T[i])
        BY <1>7, <2>2 DEF TrellisOf
      <3> QED BY <1>2, <3>1, <3>2
    <2> QED BY <1>0, <1>3, <2>1, <2>2
  <1>4. U[1] = FirstColumn(ws) /\ m + 1 # Len(ws) + 1
    <2>1. 1 \in 1..m
      BY <1>0
    <2> QED BY <1>0, <1>2, <1>7, <2>1 DEF TrellisOf
  <1>5. Sequence(U)
    BY <1>2 DEF Sequence
  <1> QED BY <1>2, <1>3, <1>4, <1>5 DEF TrellisOf

\* The trellis of all words, with the end.
LEMMA TrellisEnds ==
  ASSUME NEW ws \in Sentences, NEW S, NEW T \in Seq(S), NEW m, m = Len(ws), Len(T) = m, TrellisOf(opt.kbest, T, ws, m),
         NEW U, U = Append(T, EndColumn(ws, T[m]))
  PROVE  TrellisOf(opt.kbest, U, ws, m + 1)
  <1>0. m \in Nat \ {0}
    BY SentenceHas
  <1>1. PICK c : c = EndColumn(ws, T[m])
    OBVIOUS
  <1>2. U[m + 1] = c /\ \A i \in 1..m : U[i] = T[i]
    <2>1. T \in Seq(S \cup {c}) /\ c \in S \cup {c}
      OBVIOUS
    <2> QED BY <1>1, <2>1, AppendProperties
  <1>3. ASSUME NEW i \in 1..(m - 1) PROVE U[i + 1] = NextOf(opt.kbest, ws, i, U[i])
    <2>1. i \in 1..m /\ i + 1 \in 1..m /\ i < m
      BY <1>0
    <2>2. T[i + 1] = NextOf(opt.kbest, ws, i, T[i])
      BY <2>1 DEF TrellisOf
    <2> QED BY <1>2, <2>1, <2>2
  <1>4. U[1] = FirstColumn(ws) /\ U[m] = T[m]
    <2>1. 1 \in 1..m /\ m \in 1..m
      BY <1>0
    <2> QED BY <1>2, <2>1 DEF TrellisOf
  <1>5. U[m + 1] = EndOf(opt.kbest, ws, U[m])
    <2>1. EndColumn(ws, T[m]) = EndOf(opt.kbest, ws, T[m])
      BY ColumnsOf
    <2> QED BY <1>1, <1>2, <1>4, <2>1
  <1> QED BY <1>3, <1>4, <1>5 DEF TrellisOf

-----------------------------------------------------------------------------
(* How words are forced and retokenized.                                     *)

\* Forcing an analysis only changes what is selected.
LEMMA ForceOneKeeps ==
  ASSUME NEW w, NEW v, Kept(w, v)
  PROVE  Kept(ForceOne(w), v)
  BY UnselectKeeps, SelectOneKeeps DEF ForceOne

\* It leaves the span of the word.
LEMMA ForceOneSpan ==
  ASSUME NEW x, Spanned(x)
  PROVE  Spanned(ForceOne(x)) /\ ForceOne(x).from = x.from /\ ForceOne(x).to = x.to
  <1>1. PICK u : u = unselect_all_analysis(x, 0)
    OBVIOUS
  <1>2. PICK as : u = [x EXCEPT !.analyses = as]
    BY <1>1, Zenon DEF unselect_all_analysis
  <1>3. DOMAIN u = DOMAIN x /\ u.from = x.from /\ u.to = x.to
    BY <1>2 DEF Spanned
  <1>4. PICK b : b = selected_begin(x, 0)
    OBVIOUS
  <1>5. PICK f : f = select_analysis(u, b, 0)
    OBVIOUS
  <1>6. PICK bs : f = [u EXCEPT !.analyses = bs]
    BY <1>5, Zenon DEF select_analysis
  <1>7. DOMAIN f = DOMAIN u /\ f.from = u.from /\ f.to = u.to
    BY <1>3, <1>6 DEF Spanned
  <1>8. ForceOne(x) = f
    BY <1>1, <1>4, <1>5 DEF ForceOne
  <1> QED BY <1>3, <1>7, <1>8 DEF Spanned

\* The words of the sentence are in their places as long as only selections change.
LEMMA PlacedAtFirst ==
  ASSUME NEW in \in Sentences, NEW ws, AllKept(ws, in)
  PROVE  Placing(ws, in)
  <1>1. Len(in) \in Nat \ {0} /\ DOMAIN in = 1..Len(in)
    BY SentenceHas
  <1>2. Len(ws) = Len(in) /\ DOMAIN ws = 1..Len(ws)
    BY DEF AllKept
  <1>3. ASSUME NEW n \in 1..Len(in)
        PROVE  Spanned(ws[n]) /\ ws[n].from = in[n].from /\ ws[n].to = in[n].to
               /\ (n < Len(in) => in[n].to <= in[n + 1].from)
               /\ in[n].from \in Nat /\ in[n].to \in Nat
    <2>1. GoodWord(in[n]) /\ (n < Len(in) => in[n].to <= in[n + 1].from)
      BY WordsGood
    <2>2. Kept(ws[n], in[n])
      BY DEF AllKept
    <2> QED BY <2>1, <2>2 DEF Spanned, Kept, GoodWord
  <1>4. ASSUME NEW n \in 1..Len(in), n < Len(in) PROVE ws[n].to <= ws[n + 1].from
    <2>1. n + 1 \in 1..Len(in)
      BY <1>1, <1>4
    <2> QED BY <1>3, <1>4, <2>1
  <1>5. ASSUME NEW n \in 1..Len(in) PROVE \E m \in DOMAIN in : in[m].from <= ws[n].from /\ ws[n].to <= in[m].to
    <2>1. in[n].from <= ws[n].from /\ ws[n].to <= in[n].to
      BY <1>3
    <2> QED BY <1>1, <2>1
  <1> QED BY <1>1, <1>2, <1>3, <1>4, <1>5 DEF Placing

\* Words that are not neighbours stand one after the other, too.
LEMMA FarApart ==
  ASSUME NEW in \in Sentences, NEW i \in 1..Len(in), NEW j \in 1..Len(in), i < j
  PROVE  in[i].to <= in[j].from
  <1>0. Len(in) \in Nat \ {0}
    BY SentenceHas
  <1>1. \A n \in 1..Len(in) : /\ in[n].from \in Nat /\ in[n].to \in Nat /\ in[n].from <= in[n].to
                              /\ n < Len(in) => in[n].to <= in[n + 1].from
    BY WordsGood DEF GoodWord
  <1> DEFINE S == {d \in Nat : i + d + 1 <= Len(in) => in[i].to <= in[i + d + 1].from}
  <1>2. 0 \in S
    BY <1>0, <1>1
  <1>3. ASSUME NEW d \in Nat, d \in S PROVE d + 1 \in S
    <2> SUFFICES ASSUME i + (d + 1) + 1 <= Len(in) PROVE in[i].to <= in[i + (d + 1) + 1].from
      OBVIOUS
    <2>1. PICK kth : kth = i + d + 1
      OBVIOUS
    <2>2. kth \in 1..Len(in) /\ kth + 1 \in 1..Len(in) /\ kth < Len(in) /\ i + (d + 1) + 1 = kth + 1
      BY <1>0, <2>1
    <2>3. in[i].to <= in[kth].from
      BY <1>3, <2>1, <2>2
    <2>4. /\ in[kth].from <= in[kth].to /\ in[kth].to <= in[kth + 1].from
          /\ in[i].to \in Nat /\ in[kth].from \in Nat /\ in[kth].to \in Nat /\ in[kth + 1].from \in Nat
      BY <1>1, <2>2
    <2>5. \A a, b, c, e \in Nat : a <= b /\ b <= c /\ c <= e => a <= e
      OBVIOUS
    <2>6. in[i].to <= in[kth + 1].from
      BY <2>3, <2>4, <2>5, Zenon
    <2> QED BY <2>2, <2>6
  <1> HIDE DEF S
  <1>4. Nat \subseteq S
    BY <1>2, <1>3, Induct
  <1>5. j - i - 1 \in Nat /\ i + (j - i - 1) + 1 = j
    BY <1>0
  <1>6. j - i - 1 \in S
    BY <1>4, <1>5
  <1>7. PICK d : d = j - i - 1
    OBVIOUS
  <1>8. i + d + 1 = j /\ d \in S
    BY <1>5, <1>6, <1>7
  <1> QED BY <1>0, <1>8 DEF S

\* The words that retokenize gives stand within those they come from, in order.
LEMMA RetokenizedPlaced ==
  ASSUME NEW in \in Sentences, NEW ws, AllKept(ws, in)
  PROVE  Placing(FlattenSeq([n \in 1..Len(ws) |-> Retokenized(ws[n])]), in)
  <1> DEFINE s == [n \in 1..Len(ws) |-> Retokenized(ws[n])]
             T == UNION {Range(Retokenized(ws[n])) : n \in 1..Len(ws)}
             B == {p \in T \X T : p[1].to <= p[2].from}
             all == FlattenSeq(s)
  <1>1. Len(ws) \in Nat \ {0} /\ DOMAIN in = 1..Len(ws) /\ Len(in) = Len(ws)
    BY SentenceHas DEF AllKept
  <1>2. ASSUME NEW n \in 1..Len(ws) PROVE Segment(s[n], in[n].from, in[n].to)
    <2>1. GoodWord(in[n]) /\ Kept(ws[n], in[n])
      BY <1>1, WordsGood DEF AllKept
    <2> QED BY <2>1, RetokenizedSegment
  <1>3. \A n \in 1..Len(ws) : Range(s[n]) \subseteq T
    OBVIOUS
  <1>4. s = [n \in 1..Len(ws) |-> s[n]]
    OBVIOUS
  <1> HIDE DEF s, T
  <1>5. Len(s) = Len(ws) /\ DOMAIN s = 1..Len(ws)
    BY <1>1, <1>4, SeqOfFunction
  <1>6. ASSUME NEW n \in 1..Len(ws) PROVE s[n] \in Seq(T)
    <2>1. PICK R : R = Range(s[n])
      OBVIOUS
    <2>2. s[n] \in Seq(R) /\ R \subseteq T
      BY <1>2, <1>3, <2>1 DEF Segment
    <2> QED BY <2>2
  <1>7. s \in Seq(Seq(T))
    BY <1>1, <1>4, <1>6
  <1>8. all \in Seq(T) /\ Range(all) = UNION {Range(s[n]) : n \in 1..Len(s)}
    BY <1>7, FlattenType, FlattenRange
  <1>9. AllOrderedBy(B, s)
    <2>1. ASSUME NEW n \in 1..Len(s) PROVE OrderedBy(B, s[n])
      <3>1. s[n] \in Seq(T) /\ \A i, j \in 1..Len(s[n]) : i < j => s[n][i].to <= s[n][j].from
        BY <1>2, <1>5, <1>6 DEF Segment
      <3>2. PICK u : u = s[n]
        OBVIOUS
      <3>3. \A i \in 1..Len(u) : u[i] \in T
        BY <3>1, <3>2, ElementOfSeq
      <3>4. OrderedBy(B, u)
        BY <3>1, <3>2, <3>3 DEF OrderedBy
      <3> QED BY <3>2, <3>4
    <2>2. ASSUME NEW n \in 1..Len(s), NEW m \in 1..Len(s), n < m, NEW e \in Range(s[n]), NEW f \in Range(s[m])
          PROVE  <<e, f>> \in B
      <3>1. e \in T /\ f \in T
        BY <1>3, <1>5
      <3>2. Within(e, in[n].from, in[n].to) /\ Within(f, in[m].from, in[m].to)
        BY <1>2, <1>5 DEF Segment
      <3>3. in[n].to <= in[m].from
        BY <1>1, <1>5, <2>2, FarApart
      <3>4. in[n].to \in Nat /\ in[m].from \in Nat
        BY <1>1, <1>5, WordsGood DEF GoodWord
      <3>5. e.to <= f.from
        BY <3>2, <3>3, <3>4 DEF Within, Spanned
      <3> QED BY <3>1, <3>5
    <2> HIDE DEF B
    <2> QED BY <2>1, <2>2 DEF AllOrderedBy
  <1>10. OrderedBy(B, all)
    <2> HIDE DEF B
    <2> QED BY <1>7, <1>9, FlattenOrder
  <1> HIDE DEF all
  <1>11. Len(all) \in Nat /\ DOMAIN all = 1..Len(all)
    BY <1>8, LenProperties
  <1>12. ASSUME NEW i \in 1..Len(all)
         PROVE  Spanned(all[i]) /\ \E m \in DOMAIN in : in[m].from <= all[i].from /\ all[i].to <= in[m].to
    <2>1. all[i] \in Range(all)
      BY <1>11 DEF Range
    <2>2. PICK n \in 1..Len(ws) : all[i] \in Range(s[n])
      BY <1>5, <1>8, <2>1
    <2>3. Within(all[i], in[n].from, in[n].to)
      BY <1>2, <2>2 DEF Segment
    <2> QED BY <1>1, <2>3 DEF Within
  <1>13. ASSUME NEW i \in 1..Len(all), i < Len(all) PROVE all[i].to <= all[i + 1].from
    <2>1. i + 1 \in 1..Len(all) /\ i < i + 1
      BY <1>11, <1>13
    <2>2. <<all[i], all[i + 1]>> \in B
      BY <1>10, <2>1 DEF OrderedBy
    <2> QED BY <2>2
  <1>14. Placing(all, in)
    BY <1>11, <1>12, <1>13 DEF Placing
  <1> QED BY <1>14 DEF all, s

\* They stay there when analyses are forced.
LEMMA ForcedPlaced ==
  ASSUME NEW in, NEW ws, Placing(ws, in), NEW u, u = [n \in 1..Len(ws) |-> ForceOne(ws[n])]
  PROVE  Placing(u, in)
  <1>1. Len(ws) \in Nat /\ u = [n \in 1..Len(ws) |-> u[n]]
    BY DEF Placing
  <1>2. Len(u) = Len(ws) /\ DOMAIN u = 1..Len(ws)
    BY <1>1, SeqOfFunction
  <1>3. ASSUME NEW n \in 1..Len(ws) PROVE Spanned(u[n]) /\ u[n].from = ws[n].from /\ u[n].to = ws[n].to
    <2>1. u[n] = ForceOne(ws[n]) /\ Spanned(ws[n])
      BY DEF Placing
    <2> QED BY <2>1, ForceOneSpan
  <1>4. ASSUME NEW n \in 1..Len(ws), n < Len(ws) PROVE u[n].to <= u[n + 1].from
    <2>1. n + 1 \in 1..Len(ws)
      BY <1>1, <1>4
    <2> QED BY <1>3, <1>4, <2>1 DEF Placing
  <1>5. ASSUME NEW n \in 1..Len(ws) PROVE \E m \in DOMAIN in : in[m].from <= u[n].from /\ u[n].to <= in[m].to
    BY <1>3 DEF Placing
  <1> QED BY <1>1, <1>2, <1>3, <1>4, <1>5 DEF Placing

-----------------------------------------------------------------------------
(* The steps of the tagger.                                                  *)

\* The tagger has no sentence yet.
LEMMA InvInit == InitTagger => TaggerInv
  BY DEF InitTagger, TaggerInv, InSentence, Untouched, InTrellis, AsReceived, Marked, InPlace

\* A sentence is received.
LEMMA InvReceive ==
  ASSUME TaggerInv, NEW ws \in Sentences, Receive(ws)
  PROVE  TaggerInv'
  BY DEF Receive, TaggerInv, InSentence, Untouched, InTrellis, AsReceived, Marked, InPlace

\* The first column is made.
LEMMA InvAnnotate ==
  ASSUME TaggerInv, Annotate
  PROVE  TaggerInv'
  <1>1. /\ phase = "start" /\ words = input /\ input \in Sentences /\ opt \in Options
        /\ trl' = <<FirstColumn(input)>> /\ t' = 1 /\ words' = words /\ input' = input /\ opt' = opt
        /\ phase' = IF Len(input) = 1 THEN "end" ELSE "column"
    BY DEF TaggerInv, InSentence, Untouched, Annotate, N
  <1>2. Len(input) \in Nat \ {0}
    BY <1>1, SentenceHas
  <1>3. TrellisOf(opt'.kbest, trl', input, 1)
    BY <1>1, TrellisBegins
  <1>4. Sequence(trl')
    <2>1. PICK c : c = FirstColumn(input)
      OBVIOUS
    <2>2. <<c>> \in Seq({c})
      OBVIOUS
    <2> QED BY <1>1, <2>1, <2>2 DEF Sequence
  <1>5. Len(trl') = 1
    BY <1>1
  <1>6. InTrellis'
    <2>1. /\ Sequence(trl') /\ Len(trl') = t' /\ TrellisOf(opt'.kbest, trl', input', t') /\ phase' \notin {"select", "tagged"}
          /\ phase' = "column" => t' \in 1..(Len(input') - 1)
          /\ phase' = "end" => t' = Len(input')
      <3>1. phase' = "column" => 1 \in 1..(Len(input) - 1)
        <4>1. PICK l : l = Len(input)
          OBVIOUS
        <4>2. phase' = "column" => l # 1
          BY <1>1, <4>1
        <4>3. l \in Nat \ {0}
          BY <1>2, <4>1
        <4>4. l # 1 => 1 \in 1..(l - 1)
          BY <4>3
        <4> QED BY <4>1, <4>2, <4>4
      <3>2. phase' \notin {"select", "tagged"} /\ (phase' = "end" => 1 = Len(input))
        BY <1>1
      <3>3. input' = input /\ t' = 1
        BY <1>1
      <3> QED BY <1>3, <1>4, <1>5, <3>1, <3>2, <3>3
    <2> QED BY <2>1 DEF InTrellis
  <1>7. phase' \in {"end", "column"}
    BY <1>1
  <1>8. InSentence' /\ Untouched' /\ AsReceived' /\ Marked' /\ InPlace'
    BY <1>1, <1>7 DEF InSentence, Untouched, AsReceived, Marked, InPlace
  <1> QED BY <1>1, <1>6, <1>7, <1>8 DEF TaggerInv

\* The next column is made.
LEMMA InvColumn ==
  ASSUME TaggerInv, Column
  PROVE  TaggerInv'
  <1>1. /\ phase = "column" /\ words = input /\ input \in Sentences /\ opt \in Options
        /\ trl' = Append(trl, NextColumn(input, t, trl[t])) /\ t' = t + 1
        /\ words' = words /\ input' = input /\ opt' = opt
        /\ phase' = IF t + 1 = Len(input) THEN "end" ELSE "column"
    BY DEF TaggerInv, InSentence, Untouched, Column, N
  <1>2. Len(input) \in Nat \ {0}
    BY <1>1, SentenceHas
  <1>3. PICK S : trl \in Seq(S)
    BY <1>1 DEF TaggerInv, InTrellis, Sequence
  <1>4. Len(trl) = t /\ t \in 1..(Len(input) - 1) /\ TrellisOf(opt.kbest, trl, input, t)
    BY <1>1, <1>2 DEF TaggerInv, InTrellis
  <1>5. Len(trl') = t + 1 /\ Sequence(trl') /\ TrellisOf(opt.kbest, trl', input, t + 1)
    <2>1. PICK U : U = Append(trl, NextColumn(input, t, trl[t]))
      OBVIOUS
    <2>2. Len(U) = t + 1 /\ Sequence(U) /\ TrellisOf(opt.kbest, U, input, t + 1)
      <3>1. PICK T, m : T = trl /\ m = t
        OBVIOUS
      <3>2. /\ input \in Sentences /\ T \in Seq(S) /\ m \in 1..(Len(input) - 1) /\ Len(T) = m
            /\ TrellisOf(opt.kbest, T, input, m) /\ U = Append(T, NextColumn(input, m, T[m]))
        BY <1>1, <1>3, <1>4, <2>1, <3>1
      <3>3. Len(U) = m + 1 /\ Sequence(U) /\ TrellisOf(opt.kbest, U, input, m + 1)
        <4>1. Grown(U, T, input, m)
          BY <3>2 DEF Grown, Sequence
        <4> QED BY <3>2, <4>1, TrellisGrows
      <3> QED BY <3>1, <3>3
    <2> QED BY <1>1, <2>1, <2>2
  <1>6. InTrellis'
    <2>1. /\ Sequence(trl') /\ Len(trl') = t' /\ TrellisOf(opt'.kbest, trl', input', t') /\ phase' \notin {"select", "tagged"}
          /\ phase' = "column" => t' \in 1..(Len(input') - 1)
          /\ phase' = "end" => t' = Len(input')
      BY <1>1, <1>2, <1>4, <1>5
    <2> QED BY <2>1 DEF InTrellis
  <1>7. phase' \in {"end", "column"}
    BY <1>1
  <1>8. InSentence' /\ Untouched' /\ AsReceived' /\ Marked' /\ InPlace'
    BY <1>1, <1>7 DEF InSentence, Untouched, AsReceived, Marked, InPlace
  <1> QED BY <1>1, <1>6, <1>7, <1>8 DEF TaggerInv

\* The end is made, and what was selected in sequence 0 is erased.
LEMMA InvTerminate ==
  ASSUME TaggerInv, Terminate
  PROVE  TaggerInv'
  <1>1. /\ phase = "end" /\ words = input /\ input \in Sentences /\ opt \in Options
        /\ trl' = Append(trl, EndColumn(input, trl[Len(input)])) /\ t' = 0
        /\ words' = [n \in 1..Len(input) |-> unselect_all_analysis(input[n], 0)]
        /\ phase' = "select" /\ input' = input /\ opt' = opt
    BY DEF TaggerInv, InSentence, Untouched, Terminate, N
  <1>2. Len(input) \in Nat \ {0}
    BY <1>1, SentenceHas
  <1>3. PICK S : trl \in Seq(S)
    BY <1>1 DEF TaggerInv, InTrellis, Sequence
  <1>4. Len(trl) = Len(input) /\ TrellisOf(opt.kbest, trl, input, Len(input))
    BY <1>1, <1>2 DEF TaggerInv, InTrellis
  <1>5. TrellisOf(opt'.kbest, trl', input, Len(input) + 1)
    BY <1>1, <1>3, <1>4, TrellisEnds
  <1>6. Len(words') = Len(input) /\ DOMAIN words' = 1..Len(input)
    <2>1. words' = [n \in 1..Len(input) |-> words'[n]]
      BY <1>1
    <2> QED BY <1>2, <2>1, SeqOfFunction
  <1>7. ASSUME NEW n \in 1..Len(input)
        PROVE  Kept(words'[n], input[n]) /\ \A m \in DOMAIN input[n].analyses : words'[n].analyses[m].sel = {}
    <2>1. PICK v : v = input[n]
      OBVIOUS
    <2>2. GoodWord(v) /\ Kept(v, v) /\ words'[n] = unselect_all_analysis(v, 0)
      BY <1>1, <2>1, WordsGood, KeptAtFirst
    <2>3. Kept(unselect_all_analysis(v, 0), v)
          /\ \A m \in DOMAIN v.analyses : unselect_all_analysis(v, 0).analyses[m].sel = v.analyses[m].sel \ {0}
      BY <2>2, UnselectKeeps
    <2>4. \A m \in DOMAIN v.analyses : v.analyses[m].sel \subseteq {0}
      BY <2>2 DEF GoodWord
    <2> QED BY <2>1, <2>2, <2>3, <2>4
  <1>8. AllKept(words', input)
    BY <1>6, <1>7 DEF AllKept
  <1>9. SelectedBy(words', input, trl', 0)
    BY <1>7 DEF SelectedBy
  <1>10. Len(trl'[Len(input) + 1][endState]) \in Nat
    BY <1>1, <1>5, KbestNumber, LengthOfBest
  <1>11. Marked'
    BY <1>1, <1>9, <1>10 DEF Marked
  <1>12. InSentence' /\ Untouched' /\ InTrellis' /\ AsReceived' /\ InPlace'
    <2>1. /\ phase' \in {"select", "tagged"} /\ input' \in Sentences
          /\ TrellisOf(opt'.kbest, trl', input', Len(input') + 1) /\ AllKept(words', input')
      BY <1>1, <1>5, <1>8
    <2> QED BY <2>1 DEF InSentence, Untouched, InTrellis, AsReceived, InPlace
  <1> QED BY <1>1, <1>11, <1>12 DEF TaggerInv

\* As many paths as the end has.
LEMMA InSelect ==
  ASSUME TaggerInv, phase \in {"select", "tagged"}
  PROVE  /\ input \in Sentences /\ opt \in Options /\ opt.kbest \in Nat \ {0}
         /\ AllKept(words, input) /\ N = Len(input) /\ Len(input) \in Nat \ {0}
         /\ TrellisOf(opt.kbest, trl, input, N + 1) /\ SelectedBy(words, input, trl, t)
         /\ Best = trl[Len(input) + 1][endState] /\ t \in 0..Len(Best) /\ (phase = "tagged" => t = Len(Best))
         /\ Len(Best) \in Nat /\ Len(Best) <= opt.kbest /\ DOMAIN Best = 1..Len(Best)
  <1>1. input \in Sentences /\ opt \in Options /\ AllKept(words, input) /\ TrellisOf(opt.kbest, trl, input, Len(input) + 1)
    BY DEF TaggerInv, InSentence, AsReceived, InTrellis
  <1>2. opt.kbest \in Nat \ {0} /\ N = Len(input) /\ Len(input) \in Nat \ {0}
    BY <1>1, KbestNumber, SentenceHas DEF N, AllKept
  <1>3. PICK L : L = trl[Len(input) + 1][endState]
    OBVIOUS
  <1>4. Best = L
    BY <1>2, <1>3 DEF Best
  <1>5. /\ SelectedBy(words, input, trl, t) /\ t \in 0..Len(L) /\ (phase = "tagged" => t = Len(L))
    BY <1>3 DEF TaggerInv, Marked
  <1>6. Len(L) \in Nat /\ Len(L) <= opt.kbest /\ DOMAIN L = 1..Len(L)
    BY <1>1, <1>2, <1>3, LengthOfBest
  <1> QED BY <1>1, <1>2, <1>3, <1>4, <1>5, <1>6

\* The analyses of one more path are selected.
LEMMA InvSelectPath ==
  ASSUME TaggerInv, SelectPath
  PROVE  TaggerInv'
  <1>1. /\ phase = "select" /\ t < Len(Best) /\ t' = t + 1 /\ UNCHANGED <<input, opt, phase, trl>>
        /\ words' = [n \in 1..N |-> Select(words[n], Path(t)[n][2], t)]
    BY DEF SelectPath
  <1>2. /\ input \in Sentences /\ opt \in Options
        /\ AllKept(words, input) /\ N = Len(input) /\ Len(input) \in Nat \ {0}
        /\ TrellisOf(opt.kbest, trl, input, N + 1) /\ SelectedBy(words, input, trl, t)
        /\ Best = trl[Len(input) + 1][endState] /\ t \in 0..Len(Best) /\ Len(Best) \in Nat
    BY <1>1, InSelect
  <1>3. PICK p : p = PathOf(trl, Len(input), t)
    OBVIOUS
  <1>4. Path(t) = p
    BY <1>2, <1>3, PathIsOf
  <1>5. Len(words') = Len(input) /\ DOMAIN words' = 1..Len(input)
    <2>1. words' = [n \in 1..Len(input) |-> words'[n]]
      BY <1>1, <1>2
    <2> QED BY <1>2, <2>1, SeqOfFunction
  <1>6. ASSUME NEW n \in 1..Len(input)
        PROVE  /\ Kept(words'[n], input[n])
               /\ \A m \in DOMAIN input[n].analyses : words'[n].analyses[m].sel =
                    IF m \in Likely(input[n], p[n][2]) THEN words[n].analyses[m].sel \cup {t}
                    ELSE words[n].analyses[m].sel
    <2>1. PICK v, w, tag : v = input[n] /\ w = words[n] /\ tag = p[n][2]
      OBVIOUS
    <2>2. Kept(w, v) /\ words'[n] = Select(w, tag, t)
      BY <1>1, <1>2, <1>4, <2>1 DEF AllKept
    <2>3. Kept(Select(w, tag, t), v) /\ Selects(Select(w, tag, t), w, v, tag, t)
      BY <2>2, SelectKeeps
    <2> QED BY <2>1, <2>2, <2>3 DEF Selects
  <1>7. AllKept(words', input)
    BY <1>5, <1>6 DEF AllKept
  <1>8. ASSUME NEW n \in 1..Len(input), NEW a \in DOMAIN input[n].analyses
        PROVE  words'[n].analyses[a].sel =
                 {kth \in 0..((t + 1) - 1) : a \in Likely(input[n], PathOf(trl, Len(input), kth)[n][2])}
    <2> DEFINE P(kth) == a \in Likely(input[n], PathOf(trl, Len(input), kth)[n][2])
    <2>1. words[n].analyses[a].sel = {kth \in 0..(t - 1) : P(kth)}
      BY <1>2 DEF SelectedBy
    <2>2. words'[n].analyses[a].sel =
            IF P(t) THEN words[n].analyses[a].sel \cup {t} ELSE words[n].analyses[a].sel
      BY <1>3, <1>6
    <2> HIDE DEF P
    <2>3. \A kth : kth \in 0..((t + 1) - 1) <=> kth \in 0..(t - 1) \/ kth = t
      BY <1>2
    <2>4. words'[n].analyses[a].sel = {kth \in 0..((t + 1) - 1) : P(kth)}
      BY <2>1, <2>2, <2>3
    <2> QED BY <2>4 DEF P
  <1>9. SelectedBy(words', input, trl, t + 1)
    BY <1>8 DEF SelectedBy
  <1>10. Marked'
    BY <1>1, <1>2, <1>9 DEF Marked
  <1>11. InSentence' /\ Untouched' /\ InTrellis' /\ AsReceived' /\ InPlace'
    <2>1. /\ phase' \in {"select", "tagged"} /\ input' \in Sentences
          /\ TrellisOf(opt'.kbest, trl', input', Len(input') + 1) /\ AllKept(words', input')
      BY <1>1, <1>2, <1>7
    <2> QED BY <2>1 DEF InSentence, Untouched, InTrellis, AsReceived, InPlace
  <1> QED BY <1>1, <1>2, <1>10, <1>11 DEF TaggerInv

\* All paths have been followed.
LEMMA InvEndSelect ==
  ASSUME TaggerInv, EndSelect
  PROVE  TaggerInv'
  <1>1. /\ phase = "select" /\ t >= Len(Best) /\ phase' = "tagged" /\ UNCHANGED <<words, input, opt, t, trl>>
    BY DEF EndSelect
  <1>2. /\ input \in Sentences /\ opt \in Options
        /\ AllKept(words, input) /\ N = Len(input) /\ Len(input) \in Nat \ {0}
        /\ TrellisOf(opt.kbest, trl, input, N + 1) /\ SelectedBy(words, input, trl, t)
        /\ Best = trl[Len(input) + 1][endState] /\ t \in 0..Len(Best) /\ Len(Best) \in Nat
    BY <1>1, InSelect
  <1>3. t = Len(trl[Len(input) + 1][endState])
    BY <1>1, <1>2
  <1>4. Marked'
    BY <1>1, <1>2, <1>3 DEF Marked
  <1>5. InSentence' /\ Untouched' /\ InTrellis' /\ AsReceived' /\ InPlace'
    <2>1. /\ phase' \in {"select", "tagged"} /\ input' \in Sentences
          /\ TrellisOf(opt'.kbest, trl', input', Len(input') + 1) /\ AllKept(words', input')
      BY <1>1, <1>2
    <2> QED BY <2>1 DEF InSentence, Untouched, InTrellis, AsReceived, InPlace
  <1> QED BY <1>1, <1>2, <1>4, <1>5 DEF TaggerInv

\* An analysis of each word may be forced.
LEMMA InvForceTagged ==
  ASSUME TaggerInv, ForceTagged
  PROVE  TaggerInv'
  <1>1. /\ phase = "tagged" /\ phase' = "retok" /\ UNCHANGED <<input, opt, t, trl>>
        /\ (words' = words \/ words' = [n \in 1..N |-> ForceOne(words[n])])
    BY DEF ForceTagged, force_select
  <1>2. /\ input \in Sentences /\ opt \in Options
        /\ AllKept(words, input) /\ N = Len(input) /\ Len(input) \in Nat \ {0}
    BY <1>1, InSelect
  <1>3. AllKept(words', input)
    <2>1. CASE words' = words
      BY <1>2, <2>1
    <2>2. CASE words' = [n \in 1..N |-> ForceOne(words[n])]
      <3>1. words' = [n \in 1..Len(input) |-> words'[n]]
        BY <1>2, <2>2
      <3>2. Len(words') = Len(input) /\ DOMAIN words' = 1..Len(input)
        BY <1>2, <3>1, SeqOfFunction
      <3>3. ASSUME NEW n \in 1..Len(input) PROVE Kept(words'[n], input[n])
        <4>1. words'[n] = ForceOne(words[n]) /\ Kept(words[n], input[n])
          BY <1>2, <2>2 DEF AllKept
        <4> QED BY <4>1, ForceOneKeeps
      <3> QED BY <3>2, <3>3 DEF AllKept
    <2> QED BY <1>1, <2>1, <2>2
  <1>4. InSentence' /\ Untouched' /\ InTrellis' /\ AsReceived' /\ Marked' /\ InPlace'
    BY <1>1, <1>2, <1>3 DEF InSentence, Untouched, InTrellis, AsReceived, Marked, InPlace
  <1> QED BY <1>1, <1>2, <1>4 DEF TaggerInv

\* Words may be retokenized.
LEMMA InvRetokenize ==
  ASSUME TaggerInv, retokenize
  PROVE  TaggerInv'
  <1>1. /\ phase = "retok" /\ phase' = "forced" /\ UNCHANGED <<input, opt, t, trl>>
        /\ (words' = words \/ words' = FlattenSeq([n \in 1..Len(words) |-> Retokenized(words[n])]))
    BY DEF retokenize, N
  <1>2. input \in Sentences /\ opt \in Options /\ AllKept(words, input)
    BY <1>1 DEF TaggerInv, InSentence, AsReceived
  <1>3. Placing(words', input)
    BY <1>1, <1>2, PlacedAtFirst, RetokenizedPlaced
  <1>4. InSentence' /\ Untouched' /\ InTrellis' /\ AsReceived' /\ Marked' /\ InPlace'
    BY <1>1, <1>2, <1>3 DEF InSentence, Untouched, InTrellis, AsReceived, Marked, InPlace
  <1> QED BY <1>1, <1>2, <1>4 DEF TaggerInv

\* An analysis of each of the words there are now may be forced.
LEMMA InvForceRetokenized ==
  ASSUME TaggerInv, ForceRetokenized
  PROVE  TaggerInv'
  <1>1. /\ phase = "forced" /\ phase' = "done" /\ UNCHANGED <<input, opt, t, trl>>
        /\ (words' = words \/ words' = [n \in 1..Len(words) |-> ForceOne(words[n])])
    BY DEF ForceRetokenized, force_select, N
  <1>2. input \in Sentences /\ opt \in Options /\ Placing(words, input)
    BY <1>1 DEF TaggerInv, InSentence, InPlace
  <1>3. Placing(words', input)
    BY <1>1, <1>2, ForcedPlaced
  <1>4. InSentence' /\ Untouched' /\ InTrellis' /\ AsReceived' /\ Marked' /\ InPlace'
    BY <1>1, <1>2, <1>3 DEF InSentence, Untouched, InTrellis, AsReceived, Marked, InPlace
  <1> QED BY <1>1, <1>2, <1>4 DEF TaggerInv

\* The program may end where there is none to force.
LEMMA InvForceNothing ==
  ASSUME TaggerInv, ForceNothing
  PROVE  TaggerInv'
  <1>1. phase = "forced" /\ phase' = "crash" /\ UNCHANGED <<words, input, opt, t, trl>>
    BY DEF ForceNothing
  <1>2. input \in Sentences /\ opt \in Options /\ Placing(words, input)
    BY <1>1 DEF TaggerInv, InSentence, InPlace
  <1>3. InSentence' /\ Untouched' /\ InTrellis' /\ AsReceived' /\ Marked' /\ InPlace'
    BY <1>1, <1>2 DEF InSentence, Untouched, InTrellis, AsReceived, Marked, InPlace
  <1> QED BY <1>1, <1>2, <1>3 DEF TaggerInv

\* Nothing happens.
LEMMA InvStutter ==
  ASSUME TaggerInv, UNCHANGED tagger
  PROVE  TaggerInv'
  <1>1. words' = words /\ input' = input /\ opt' = opt /\ phase' = phase /\ t' = t /\ trl' = trl
    BY DEF tagger
  <1>2. InSentence' /\ Untouched' /\ InTrellis' /\ AsReceived' /\ InPlace'
    BY <1>1 DEF TaggerInv, InSentence, Untouched, InTrellis, AsReceived, InPlace
  <1>3. Marked'
    BY <1>1 DEF TaggerInv, Marked
  <1> QED BY <1>1, <1>2, <1>3 DEF TaggerInv

\* The inductive invariant of the tagger.
THEOREM TaggerInductive == SpecTagger => []TaggerInv
  <1>1. InitTagger => TaggerInv
    BY InvInit
  <1>2. TaggerInv /\ [Tag \/ \E ws \in Sentences : Receive(ws)]_tagger => TaggerInv'
    <2> SUFFICES ASSUME TaggerInv, [Tag \/ \E ws \in Sentences : Receive(ws)]_tagger PROVE TaggerInv'
      OBVIOUS
    <2>1. CASE \E ws \in Sentences : Receive(ws)
      BY <2>1, InvReceive
    <2>2. CASE Tag
      BY <2>2, InvAnnotate, InvColumn, InvTerminate, InvSelectPath, InvEndSelect, InvForceTagged,
         InvRetokenize, InvForceRetokenized, InvForceNothing DEF Tag
    <2>3. CASE UNCHANGED tagger
      BY <2>3, InvStutter
    <2> QED BY <2>1, <2>2, <2>3
  <1> QED BY <1>1, <1>2, PTL DEF SpecTagger

-----------------------------------------------------------------------------
(* The properties.                                                           *)

\* The tags on the paths are the sequences that the paths stand for.
LEMMA FoundAre ==
  ASSUME TaggerInv, phase \in {"select", "tagged"}
  PROVE  \E E : /\ KBestOf(Best, E, Seqs(input, N), Scores(input, N))
                /\ \A m \in 1..Len(Best) : TagsOnPath(m - 1) = E[m] /\ E[m] \in Seqs(input, N)
  <1>1. /\ input \in Sentences /\ opt.kbest \in Nat \ {0} /\ N = Len(input) /\ Len(input) \in Nat \ {0}
        /\ TrellisOf(opt.kbest, trl, input, Len(input) + 1) /\ Best = trl[Len(input) + 1][endState]
        /\ Len(Best) \in Nat
    BY InSelect
  <1>2. PICK E : Ends(trl, input, E)
    BY <1>1, EndGood
  <1>3. KBestOf(Best, E, Seqs(input, N), Scores(input, N))
    BY <1>1, <1>2 DEF Ends
  <1>4. ASSUME NEW m \in 1..Len(Best) PROVE TagsOnPath(m - 1) = E[m] /\ E[m] \in Seqs(input, N)
    <2>1. PICK bp : bp = m - 1
      OBVIOUS
    <2>2. bp \in Nat /\ bp + 1 = m
      BY <1>1, <2>1
    <2>3. \A i \in 1..N : Path(bp)[i][2] = E[bp + 1][i]
      BY <1>1, <1>2, <2>2, PathIs
    <2>4. PICK q : q = E[m]
      OBVIOUS
    <2>5. q \in Seqs(input, N)
      BY <1>3, <2>4 DEF KBestOf
    <2>6. q = [i \in 1..N |-> q[i]]
      BY <2>5 DEF Seqs
    <2>7. \A i \in 1..N : Path(bp)[i][2] = q[i]
      BY <2>2, <2>3, <2>4
    <2>8. TagsOnPath(bp) = [i \in 1..N |-> q[i]]
      BY <2>7, Zenon DEF TagsOnPath
    <2> QED BY <2>1, <2>4, <2>5, <2>6, <2>8
  <1> QED BY <1>3, <1>4

\* KBest follows from the inductive invariant.
LEMMA BestFound ==
  ASSUME TaggerInv
  PROVE  KBest
  <1> SUFFICES ASSUME phase = "tagged"
               PROVE  LET found == [m \in DOMAIN Best |-> TagsOnPath(m - 1)] IN
                      /\ Len(found) = opt.kbest \/ Range(found) = TagSequences
                      /\ IsInjective(found)
                      /\ \A m \in DOMAIN found :
                           /\ Best[m].prob = Score(input, found[m], N)
                           /\ \A s \in TagSequences \ {found[o] : o \in 1..m} :
                                NoWorse(Best[m].prob, Score(input, s, N))
    BY DEF KBest
  <1> DEFINE found == [m \in DOMAIN Best |-> TagsOnPath(m - 1)]
  <1>1. Len(Best) \in Nat /\ DOMAIN Best = 1..Len(Best)
    BY InSelect
  <1>2. PICK E : /\ KBestOf(Best, E, Seqs(input, N), Scores(input, N))
                 /\ \A m \in 1..Len(Best) : TagsOnPath(m - 1) = E[m] /\ E[m] \in Seqs(input, N)
    BY FoundAre
  <1>3. PICK l : l = Len(Best)
    OBVIOUS
  <1>4. PICK Q : Q = TagSequences
    OBVIOUS
  <1>5. Q = Seqs(input, N) /\ \A q \in Q : Scores(input, N)[q] = Score(input, q, N)
    BY <1>4 DEF TagSequences, Seqs, Scores
  <1>6. found = [m \in 1..l |-> found[m]] /\ \A m \in 1..l : found[m] = E[m] /\ found[m] \in Q
    BY <1>1, <1>2, <1>3, <1>5
  <1> HIDE DEF found
  <1>7. Len(found) = l /\ DOMAIN found = 1..l
    BY <1>1, <1>3, <1>6, SeqOfFunction
  <1>8. /\ Sorted(Best)
        /\ \A i \in 1..l : Best[i].prob = Score(input, found[i], N)
        /\ \A i, j \in 1..l : found[i] = found[j] => i = j
    BY <1>2, <1>3, <1>5, <1>6 DEF KBestOf
  <1>9. ASSUME NEW q \in Q PROVE (\E kth \in 1..l : found[kth] = q) \/ LeftOut(Best, Score(input, q, N))
    <2>1. (\E kth \in 1..l : E[kth] = q) \/ LeftOut(Best, Scores(input, N)[q])
      BY <1>2, <1>3, <1>5 DEF KBestOf
    <2>2. CASE \E kth \in 1..l : E[kth] = q
      BY <1>6, <2>2
    <2>3. CASE LeftOut(Best, Scores(input, N)[q])
      BY <1>5, <2>3
    <2> QED BY <2>1, <2>2, <2>3
  <1>10. Len(found) = opt.kbest \/ Range(found) = Q
    <2> SUFFICES ASSUME Len(found) # opt.kbest PROVE Range(found) = Q
      OBVIOUS
    <2>1. \A q \in Q : \E kth \in 1..l : found[kth] = q
      BY <1>3, <1>7, <1>9 DEF LeftOut
    <2> QED BY <1>6, <1>7, <2>1 DEF Range
  <1>11. IsInjective(found)
    BY <1>7, <1>8 DEF IsInjective
  <1>12. ASSUME NEW m \in 1..l, NEW s \in Q \ {found[o] : o \in 1..m}
         PROVE  NoWorse(Best[m].prob, Score(input, s, N))
    <2>1. CASE \E kth \in 1..l : found[kth] = s
      <3>1. PICK kth \in 1..l : found[kth] = s
        BY <2>1
      <3>2. kth > m
        BY <1>1, <1>3, <3>1
      <3>3. NoWorse(Best[m].prob, Best[kth].prob)
        BY <1>1, <1>3, <1>8, <3>2 DEF Sorted
      <3>4. Best[kth].prob = Score(input, s, N)
        BY <1>8, <3>1
      <3> QED BY <3>3, <3>4
    <2>2. CASE LeftOut(Best, Score(input, s, N))
      BY <1>3, <2>2 DEF LeftOut
    <2> QED BY <1>9, <2>1, <2>2
  <1>13. \A m \in DOMAIN found : /\ Best[m].prob = Score(input, found[m], N)
                                /\ \A s \in Q \ {found[o] : o \in 1..m} : NoWorse(Best[m].prob, Score(input, s, N))
    BY <1>7, <1>8, <1>12
  <1> QED BY <1>4, <1>10, <1>11, <1>13 DEF found

\* So does SelectedOnPath.
LEMMA PathsSelect ==
  ASSUME TaggerInv
  PROVE  SelectedOnPath
  <1> SUFFICES ASSUME phase = "tagged", NEW n \in 1..N, NEW m \in 0..(opt.kbest - 1)
               PROVE  {get_short_tag(a.tag) : a \in {b \in Range(words[n].analyses) : m \in b.sel}}
                        = IF m < Len(Best) THEN {TagsOnPath(m)[n]} ELSE {}
    BY DEF SelectedOnPath
  <1>1. /\ input \in Sentences /\ opt.kbest \in Nat \ {0}
        /\ AllKept(words, input) /\ N = Len(input) /\ Len(input) \in Nat \ {0}
        /\ SelectedBy(words, input, trl, Len(Best)) /\ Len(Best) \in Nat
    BY InSelect
  <1>2. PICK v, w, l : v = input[n] /\ w = words[n] /\ l = Len(Best)
    OBVIOUS
  <1>3. PICK tag : tag = TagsOnPath(m)[n]
    OBVIOUS
  <1>4. PathOf(trl, Len(input), m)[n][2] = tag
    BY <1>1, <1>3, PathIsOf DEF TagsOnPath
  <1>5. GoodWord(v) /\ Kept(w, v)
    BY <1>1, <1>2, WordsGood DEF AllKept
  <1>6. ASSUME NEW a \in DOMAIN v.analyses
        PROVE  /\ a \in DOMAIN w.analyses /\ w.analyses[a].tag = v.analyses[a].tag
               /\ m \in w.analyses[a].sel <=> m < l /\ a \in Likely(v, tag)
    <2>1. a \in DOMAIN w.analyses /\ w.analyses[a].tag = v.analyses[a].tag
      BY <1>5 DEF Kept, AsCame
    <2>2. w.analyses[a].sel = {kth \in 0..(l - 1) : a \in Likely(input[n], PathOf(trl, Len(input), kth)[n][2])}
      BY <1>1, <1>2 DEF SelectedBy
    <2>3. m \in 0..(l - 1) <=> m < l
      BY <1>1, <1>2
    <2>4. m \in w.analyses[a].sel <=> m \in 0..(l - 1) /\ a \in Likely(v, tag)
      BY <1>2, <1>4, <2>2
    <2> QED BY <2>1, <2>3, <2>4
  <1> DEFINE tags == {get_short_tag(a.tag) : a \in {b \in Range(w.analyses) : m \in b.sel}}
  <1>7. DOMAIN w.analyses = DOMAIN v.analyses
    BY <1>5 DEF Kept
  <1>8. CASE m < l
    <2>1. PICK E : \A kth \in 1..l : TagsOnPath(kth - 1) = E[kth] /\ E[kth] \in Seqs(input, N)
      BY <1>2, FoundAre
    <2>2. m + 1 \in 1..l /\ (m + 1) - 1 = m
      BY <1>1, <1>2, <1>8
    <2>3. E[m + 1] \in Seqs(input, N) /\ tag = E[m + 1][n]
      BY <1>3, <2>1, <2>2
    <2>4. tag \in TagsOf(v)
      BY <1>2, <2>3, SeqsAre
    <2>5. /\ Likely(v, tag) # {}
          /\ \A a \in Likely(v, tag) : a \in DOMAIN v.analyses /\ get_short_tag(v.analyses[a].tag) = tag
      BY <1>5, <2>4, LikelyHasTag
    <2>6. \A x \in tags : x = tag
      BY <1>6, <1>7, <2>5 DEF Range
    <2>7. tag \in tags
      <3>1. PICK a \in DOMAIN v.analyses : a \in Likely(v, tag) /\ get_short_tag(v.analyses[a].tag) = tag
        BY <2>5
      <3>2. w.analyses[a] \in Range(w.analyses) /\ m \in w.analyses[a].sel /\ get_short_tag(w.analyses[a].tag) = tag
        BY <1>6, <1>7, <1>8, <3>1 DEF Range
      <3> QED BY <3>2
    <2> QED BY <1>2, <1>3, <1>8, <2>6, <2>7
  <1>9. CASE ~(m < l)
    <2>1. \A b \in Range(w.analyses) : m \notin b.sel
      BY <1>6, <1>7, <1>9 DEF Range
    <2>2. tags = {}
      BY <2>1
    <2> QED BY <1>2, <1>9, <2>2
  <1> QED BY <1>8, <1>9

\* And SpansKept.
LEMMA WordsPlaced ==
  ASSUME TaggerInv
  PROVE  SpansKept
  <1>1. phase \in {"idle", "start", "column", "end", "select", "tagged", "retok", "forced", "done", "crash"}
    BY DEF TaggerInv
  <1>2. ASSUME Placing(words, input) PROVE SpansKept
    BY <1>2 DEF Placing, SpansKept, Spanned, N
  <1>3. CASE phase = "idle"
    BY <1>3 DEF TaggerInv, InSentence, SpansKept, N
  <1>4. CASE phase \in {"start", "column", "end"}
    <2>1. input \in Sentences /\ words = input
      BY <1>4 DEF TaggerInv, InSentence, Untouched
    <2>2. AllKept(words, input)
      <3>1. DOMAIN input = 1..Len(input)
        BY <2>1, SentenceHas
      <3>2. \A n \in 1..Len(input) : Kept(input[n], input[n])
        BY <2>1, WordsGood, KeptAtFirst
      <3> QED BY <2>1, <3>1, <3>2 DEF AllKept
    <2> QED BY <1>2, <2>1, <2>2, PlacedAtFirst
  <1>5. CASE phase \in {"select", "tagged", "retok"}
    <2>1. input \in Sentences /\ AllKept(words, input)
      BY <1>5 DEF TaggerInv, InSentence, AsReceived
    <2> QED BY <1>2, <2>1, PlacedAtFirst
  <1>6. CASE phase \in {"forced", "done", "crash"}
    BY <1>2, <1>6 DEF TaggerInv, InPlace
  <1> QED BY <1>1, <1>3, <1>4, <1>5, <1>6

\* The tagger finds as many different sequences of tags as were asked for, best first,
\* and leaves out none that is better, whatever the tables, the rules and the sentence.
THEOREM BestSequences == SpecTagger => []KBest
  BY TaggerInductive, BestFound, PTL

\* When the sentence is tagged, sequence m selects of each word an analysis with the tag
\* that path m of the trellis gives it, and no sequence that was not found selects any.
THEOREM SelectionOfPaths == SpecTagger => []SelectedOnPath
  BY TaggerInductive, PathsSelect, PTL

\* Retokenization and forcing leave the words in order, without overlap, within the words
\* that the tagger received.
THEOREM RetokenizedInPlace == SpecTagger => []SpansKept
  BY TaggerInductive, WordsPlaced, PTL

-----------------------------------------------------------------------------
(* The chart: which edge is better.                                          *)

\* What a grammar that was read is like, one with a start symbol.
Sane(g) == /\ g.start # NoSym /\ g.start.cond = NoCond
           /\ NoSym \notin g.nonterminal /\ IsFiniteSet(g.nonterminal)
           /\ \A s \in g.nonterminal : s.cond = NoCond
           /\ Sequence(g.rules) /\ Sequence(g.wild)

\* An edge of a terminal with a form, the most specific one.
FormEdge(e) == ~C!active(e) /\ e.head.cond.kind = "form"

\* The chart's operators are those of the modules it is used with.
LEMMA SameSymbols == C!NoSym = NoSym /\ C!NoCond = NoCond /\ C!NoEdge.head = NoSym
  BY DEF C!NoSym, NoSym, C!NoCond, NoCond, C!NoEdge, C!Edge

\* So is the one that flattens sequences.
LEMMA SameFlatten == \A s : C!FlattenSeq(s) = FlattenSeq(s)
  BY DEF C!FlattenSeq, FlattenSeq

\* Such an edge is better than none.
LEMMA FormBetter ==
  ASSUME NEW g, Sane(g), NEW e, FormEdge(e)
  PROVE  C!better_edge(g, e, C!NoEdge)
  <1>0. PICK h : h = e.head
    OBVIOUS
  <1>5. h.cond.kind = "form" /\ NoCond.kind = "none"
    BY <1>0 DEF FormEdge, NoCond
  <1>1. e.head # g.start /\ e.head \notin g.nonterminal
    <2>1. g.start.cond = NoCond /\ \A s \in g.nonterminal : s.cond = NoCond
      BY DEF Sane
    <2> QED BY <1>0, <1>5, <2>1
  <1>2. C!get_specificity(e.head) = 0 /\ C!get_specificity(NoSym) = 2
    BY DEF FormEdge, C!get_specificity, NoSym, NoCond
  <1> QED BY <1>1, <1>2, SameSymbols DEF C!better_edge, C!is_terminal, Sane

\* What has no symbol is better than nothing.
LEMMA NothingBetter ==
  ASSUME NEW g, Sane(g), NEW e, e.head = NoSym, NEW f
  PROVE  ~C!better_edge(g, e, f)
  <1>1. C!get_specificity(f.head) \in 0..2 /\ C!get_specificity(NoSym) = 2
    <2>1. C!get_specificity(NoSym) = 2
      BY DEF C!get_specificity, NoSym, NoCond
    <2>2. PICK h : h = f.head
      OBVIOUS
    <2>3. C!get_specificity(h) \in 0..2
      <3>1. CASE h.cond.kind = "form"
        BY <3>1 DEF C!get_specificity
      <3>2. CASE h.cond.kind = "lemma"
        BY <3>2 DEF C!get_specificity
      <3>3. CASE h.cond.kind # "form" /\ h.cond.kind # "lemma"
        BY <3>3 DEF C!get_specificity
      <3> QED BY <3>1, <3>2, <3>3
    <2> QED BY <2>1, <2>2, <2>3
  <1> QED BY <1>1 DEF C!better_edge, C!is_terminal, Sane

\* What BestFrom asks of its recursive function.
Bests(f, g, e, edges) ==
  f = [n \in 0..Len(edges) |->
        IF n = 0 THEN e
        ELSE IF ~C!active(edges[n]) /\ C!better_edge(g, edges[n], f[n - 1]) THEN edges[n] ELSE f[n - 1]]

\* It exists, and is worth an edge of the list or the one it began with.
LEMMA BestsExist ==
  ASSUME NEW g, NEW e, NEW V, e \in V, NEW edges \in Seq(V)
  PROVE  \E f : Bests(f, g, e, edges) /\ C!BestFrom(g, e, edges) = f[Len(edges)] /\ f \in [0..Len(edges) -> V]
  <1>0. Len(edges) \in Nat /\ \A i \in 1..Len(edges) : edges[i] \in V
    BY LenProperties, ElementOfSeq
  <1> DEFINE Step(v, i) == IF ~C!active(edges[i]) /\ C!better_edge(g, edges[i], v) THEN edges[i] ELSE v
             step == [x \in V \X (1..Len(edges)) |-> Step(x[1], x[2])]
             f == CHOOSE f : f = [n \in 0..Len(edges) |->
                    IF n = 0 THEN e
                    ELSE IF ~C!active(edges[n]) /\ C!better_edge(g, edges[n], f[n - 1]) THEN edges[n] ELSE f[n - 1]]
  <1>1. \A v \in V, i \in 1..Len(edges) : Step(v, i) \in V
    BY <1>0
  <1> HIDE DEF Step
  <1>2. step \in [V \X (1..Len(edges)) -> V]
    BY <1>1
  <1>3. PICK h : Recurs(h, V, e, Len(edges), step)
    <2> HIDE DEF step
    <2> QED BY <1>0, <1>2, Recursion
  <1>4. /\ h \in [0..Len(edges) -> V] /\ h[0] = e
        /\ \A i \in 1..Len(edges) : h[i] = Step(h[i - 1], i)
    <2>1. /\ h \in [0..Len(edges) -> V] /\ h[0] = e
          /\ \A i \in 1..Len(edges) : h[i] = step[<<h[i - 1], i>>]
      BY <1>3 DEF Recurs
    <2>2. ASSUME NEW i \in 1..Len(edges) PROVE step[<<h[i - 1], i>>] = Step(h[i - 1], i)
      <3>1. h[i - 1] \in V
        BY <1>0, <2>1
      <3> QED BY <3>1
    <2> HIDE DEF step
    <2> QED BY <2>1, <2>2
  <1>5. Bests(h, g, e, edges)
    BY <1>0, <1>4 DEF Bests, Step
  <1>6. Bests(f, g, e, edges)
    BY <1>5 DEF Bests
  <1>7. C!BestFrom(g, e, edges) = f[Len(edges)]
    BY DEF C!BestFrom
  <1> HIDE DEF f, step
  <1>8. f[0] = e /\ \A i \in 1..Len(edges) : f[i] = Step(f[i - 1], i)
    <2>1. f = [n \in 0..Len(edges) |-> IF n = 0 THEN e ELSE Step(f[n - 1], n)]
      BY <1>6, Zenon DEF Bests, Step
    <2>2. f[0] = e
      <3>1. 0 \in 0..Len(edges)
        BY <1>0
      <3> QED BY <2>1, <3>1, Zenon
    <2>3. ASSUME NEW i \in 1..Len(edges) PROVE f[i] = Step(f[i - 1], i)
      <3>1. i \in 0..Len(edges) /\ i # 0
        BY <1>0
      <3> QED BY <2>1, <3>1, Zenon
    <2> QED BY <2>2, <2>3
  <1>9. \A i \in 0..Len(edges) : f[i] \in V
    <2>1. f[0] \in V /\ \A i \in 1..Len(edges) : f[i - 1] \in V => f[i] \in V
      BY <1>1, <1>8
    <2> QED BY <1>0, <2>1, Stays
  <1>10. f \in [0..Len(edges) -> V]
    BY <1>6, <1>9 DEF Bests
  <1> QED BY <1>6, <1>7, <1>10

\* A list with the edge of a form has a best edge.
LEMMA BestOfForm ==
  ASSUME NEW g, Sane(g), NEW T, NEW edges \in Seq(T), NEW p \in DOMAIN edges, FormEdge(edges[p])
  PROVE  C!BestFrom(g, C!NoEdge, edges) # C!NoEdge
  <1>0. Len(edges) \in Nat /\ p \in 1..Len(edges)
    BY LenProperties
  <1>1. PICK V, z : V = T \cup {z} /\ z = C!NoEdge
    OBVIOUS
  <1>2. PICK f : Bests(f, g, C!NoEdge, edges) /\ C!BestFrom(g, C!NoEdge, edges) = f[Len(edges)]
    <2>1. z \in V /\ edges \in Seq(V)
      BY <1>1
    <2>2. \E f : Bests(f, g, z, edges) /\ C!BestFrom(g, z, edges) = f[Len(edges)] /\ f \in [0..Len(edges) -> V]
      BY <2>1, BestsExist, Zenon
    <2> QED BY <1>1, <2>2
  <1>3. ASSUME NEW i \in 1..Len(edges)
        PROVE  f[i] = IF ~C!active(edges[i]) /\ C!better_edge(g, edges[i], f[i - 1]) THEN edges[i] ELSE f[i - 1]
    <2>1. i \in 0..Len(edges) /\ i # 0
      BY <1>0
    <2> QED BY <1>2, <2>1, Zenon DEF Bests
  <1>4. ASSUME NEW i \in 1..Len(edges), C!better_edge(g, edges[i], f[i - 1]) PROVE edges[i] # C!NoEdge
    BY <1>4, NothingBetter, SameSymbols
  <1>5. f[p] # C!NoEdge
    <2>1. CASE f[p - 1] = C!NoEdge
      <3>1. ~C!active(edges[p]) /\ C!better_edge(g, edges[p], f[p - 1])
        BY <2>1, FormBetter DEF FormEdge
      <3> QED BY <1>0, <1>3, <1>4, <3>1
    <2>2. CASE f[p - 1] # C!NoEdge
      BY <1>0, <1>3, <1>4, <2>2
    <2> QED BY <2>1, <2>2
  <1> DEFINE S == {m \in Nat : p + m <= Len(edges) => f[p + m] # C!NoEdge}
  <1>6. 0 \in S
    BY <1>0, <1>5
  <1>7. ASSUME NEW m \in Nat, m \in S PROVE m + 1 \in S
    <2> SUFFICES ASSUME p + (m + 1) <= Len(edges) PROVE f[p + (m + 1)] # C!NoEdge
      OBVIOUS
    <2>1. p + (m + 1) \in 1..Len(edges) /\ (p + (m + 1)) - 1 = p + m /\ f[p + m] # C!NoEdge
      BY <1>0, <1>7
    <2> QED BY <1>3, <1>4, <2>1
  <1>8. Nat \subseteq S
    <2> HIDE DEF S
    <2> QED BY <1>6, <1>7, Induct
  <1>9. Len(edges) - p \in Nat /\ p + (Len(edges) - p) = Len(edges)
    BY <1>0
  <1> QED BY <1>2, <1>8, <1>9

\* The greatest of some numbers is one of them.
LEMMA GreatestOf ==
  ASSUME NEW m \in Nat, NEW P \in SUBSET (0..m), P # {}
  PROVE  C!Max(P) \in P
  <1>1. P \in SUBSET Nat /\ IsFiniteSet(P)
    <2>1. IsFiniteSet(0..m)
      <3>1. 0 \in Int /\ m \in Int
        OBVIOUS
      <3> QED BY <3>1, FS_Interval
    <2>2. IsFiniteSet(P)
      BY <2>1, FS_Subset
    <2> QED BY <2>2
  <1>2. \E p \in P : \A q \in P : p >= q
    BY <1>1, MostOf
  <1> QED BY <1>2 DEF C!Max

\* The row of height h over the words b..a+b has this cell.
InRow(c, a, b, h) == \E n \in 1..(a - h + 1) : c = <<h, b + n - 1>>

\* The best of a row is in the row.
LEMMA RowIs ==
  ASSUME NEW g, NEW C0, NEW a \in Nat, NEW b \in Nat, NEW h \in 0..a
  PROVE  C!RowBest(g, C0, a, b, h) = C!NoCell \/ InRow(C!RowBest(g, C0, a, b, h), a, b, h)
  <1> DEFINE best == CHOOSE f : f = [n \in 0..(a - h + 1) |->
                       IF n = 0 THEN C!NoEdge ELSE C!BestFrom(g, f[n - 1], C0[<<h, b + n - 1>>])]
             better == {n \in 1..(a - h + 1) : best[n] # best[n - 1]}
  <1>1. C!RowBest(g, C0, a, b, h) = IF better = {} THEN C!NoCell ELSE <<h, b + C!Max(better) - 1>>
    BY DEF C!RowBest
  <1>2. better \subseteq 1..(a - h + 1)
    OBVIOUS
  <1> HIDE DEF better
  <1>3. better # {} => C!Max(better) \in better
    <2>1. a - h + 1 \in Nat /\ better \in SUBSET (0..(a - h + 1))
      BY <1>2
    <2> QED BY <2>1, GreatestOf
  <1> QED BY <1>1, <1>2, <1>3 DEF InRow

\* A list of edges with one of a form.
HasForm(edges) == Sequence(edges) /\ \E p \in DOMAIN edges : FormEdge(edges[p])

\* Each of the words b..a+b has such edges.
FormsIn(C0, a, b) == \A n \in 0..a : HasForm(C0[<<0, b + n>>])

\* A cell over some of these words.
CellIn(c, a, b) == \E h \in 0..a : InRow(c, a, b, h)

\* Over words that have edges a cell of the lowest row is found.
LEMMA RowOfWords ==
  ASSUME NEW g, Sane(g), NEW C0, NEW a \in Nat, NEW b \in Nat, FormsIn(C0, a, b)
  PROVE  C!RowBest(g, C0, a, b, 0) # C!NoCell
  <1> DEFINE Cell(n) == C0[<<0, b + n - 1>>]
  <1>1. ASSUME NEW n \in 1..(a + 1) PROVE HasForm(Cell(n))
    <2>1. n - 1 \in 0..a /\ b + (n - 1) = b + n - 1
      OBVIOUS
    <2> QED BY <2>1 DEF FormsIn
  <1> HIDE DEF Cell
  <1>2. PICK z, V : z = C!NoEdge /\ V = {z} \cup UNION {Range(Cell(n)) : n \in 1..(a + 1)}
    OBVIOUS
  <1>3. z \in V /\ \A n \in 1..(a + 1) : Cell(n) \in Seq(V)
    <2>1. ASSUME NEW n \in 1..(a + 1) PROVE Cell(n) \in Seq(V)
      <3>1. PICK s : s = Cell(n)
        OBVIOUS
      <3>2. PICK T : s \in Seq(T)
        BY <1>1, <3>1 DEF HasForm, Sequence
      <3>3. Range(s) \subseteq V
        BY <1>2, <3>1
      <3>4. s \in Seq(V)
        BY <3>2, <3>3, LenProperties DEF Range
      <3> QED BY <3>1, <3>4
    <2> QED BY <1>2, <2>1
  <1>4. ASSUME NEW v \in V, NEW n \in 1..(a + 1) PROVE C!BestFrom(g, v, Cell(n)) \in V
    <2>1. PICK s : s = Cell(n) /\ s \in Seq(V)
      BY <1>3
    <2>2. PICK f : Bests(f, g, v, s) /\ C!BestFrom(g, v, s) = f[Len(s)] /\ f \in [0..Len(s) -> V]
      BY <2>1, BestsExist, Zenon
    <2>3. Len(s) \in 0..Len(s)
      BY <2>1, LenProperties
    <2> QED BY <2>1, <2>2, <2>3
  <1> DEFINE best == CHOOSE f : f = [n \in 0..(a - 0 + 1) |->
                       IF n = 0 THEN C!NoEdge ELSE C!BestFrom(g, f[n - 1], C0[<<0, b + n - 1>>])]
             better == {n \in 1..(a - 0 + 1) : best[n] # best[n - 1]}
             step == [x \in V \X (1..(a + 1)) |-> C!BestFrom(g, x[1], Cell(x[2]))]
  <1>5. C!RowBest(g, C0, a, b, 0) = IF better = {} THEN C!NoCell ELSE <<0, b + C!Max(better) - 1>>
    BY DEF C!RowBest
  <1>6. step \in [V \X (1..(a + 1)) -> V]
    BY <1>4
  <1>7. PICK h : Recurs(h, V, z, a + 1, step)
    <2> HIDE DEF step
    <2>1. a + 1 \in Nat
      OBVIOUS
    <2> QED BY <1>3, <1>6, <2>1, Recursion
  <1>8. /\ h \in [0..(a + 1) -> V] /\ h[0] = z
        /\ \A i \in 1..(a + 1) : h[i] = C!BestFrom(g, h[i - 1], Cell(i))
    <2>1. /\ h \in [0..(a + 1) -> V] /\ h[0] = z
          /\ \A i \in 1..(a + 1) : h[i] = step[<<h[i - 1], i>>]
      BY <1>7 DEF Recurs
    <2>2. ASSUME NEW i \in 1..(a + 1) PROVE step[<<h[i - 1], i>>] = C!BestFrom(g, h[i - 1], Cell(i))
      <3>1. h[i - 1] \in V
        BY <2>1
      <3> QED BY <3>1
    <2> HIDE DEF step
    <2> QED BY <2>1, <2>2
  <1>9. h = [n \in 0..(a - 0 + 1) |->
              IF n = 0 THEN C!NoEdge ELSE C!BestFrom(g, h[n - 1], C0[<<0, b + n - 1>>])]
    <2>1. a - 0 + 1 = a + 1
      OBVIOUS
    <2>2. h = [n \in 0..(a + 1) |-> h[n]]
      BY <1>8
    <2>3. \A n \in 0..(a + 1) : h[n] = IF n = 0 THEN C!NoEdge ELSE C!BestFrom(g, h[n - 1], C0[<<0, b + n - 1>>])
      BY <1>2, <1>8 DEF Cell
    <2> QED BY <2>1, <2>2, <2>3
  <1>10. best = [n \in 0..(a - 0 + 1) |->
              IF n = 0 THEN C!NoEdge ELSE C!BestFrom(g, best[n - 1], C0[<<0, b + n - 1>>])]
    BY <1>9
  <1> HIDE DEF best, step
  <1>11. best[1] = C!BestFrom(g, C!NoEdge, Cell(1)) /\ best[0] = C!NoEdge
    <2>1. 0 \in 0..(a - 0 + 1) /\ 1 \in 0..(a - 0 + 1) /\ 1 - 1 = 0 /\ 1 # 0
      OBVIOUS
    <2>2. best[0] = C!NoEdge
      BY <1>10, <2>1, Zenon
    <2>3. best[1] = C!BestFrom(g, best[1 - 1], C0[<<0, b + 1 - 1>>])
      BY <1>10, <2>1, Zenon
    <2> QED BY <2>1, <2>2, <2>3 DEF Cell
  <1>12. best[1] # best[0]
    <2>1. PICK s : s = Cell(1)
      OBVIOUS
    <2>2. PICK T, p : s \in Seq(T) /\ p \in DOMAIN s /\ FormEdge(s[p])
      BY <1>1, <2>1 DEF HasForm, Sequence
    <2>3. C!BestFrom(g, C!NoEdge, s) # C!NoEdge
      BY <2>2, BestOfForm
    <2> QED BY <1>11, <2>1, <2>3
  <1>13. better # {}
    <2>1. 1 \in 1..(a - 0 + 1) /\ 1 - 1 = 0
      OBVIOUS
    <2> QED BY <1>12, <2>1
  <1> HIDE DEF better
  <1>14. <<0, b + C!Max(better) - 1>> # C!NoCell
    BY DEF C!NoCell
  <1> QED BY <1>5, <1>13, <1>14

\* So the highest row with a cell is found, and a cell of it within the words.
LEMMA HighestOfWords ==
  ASSUME NEW g, Sane(g), NEW C0, NEW a \in Nat, NEW b \in Nat, FormsIn(C0, a, b)
  PROVE  CellIn(C!Highest(g, C0, a, b), a, b)
  <1> DEFINE rows == {h \in 0..a : C!RowBest(g, C0, a, b, h) # C!NoCell}
  <1>1. C!Highest(g, C0, a, b) = IF rows = {} THEN C!NoCell ELSE C!RowBest(g, C0, a, b, C!Max(rows))
    BY DEF C!Highest
  <1>2. 0 \in rows
    <2>1. 0 \in 0..a
      OBVIOUS
    <2>2. C!RowBest(g, C0, a, b, 0) # C!NoCell
      BY RowOfWords
    <2> QED BY <2>1, <2>2
  <1>3. C!Max(rows) \in rows
    <2>1. rows \in SUBSET (0..a)
      OBVIOUS
    <2> HIDE DEF rows
    <2> QED BY <1>2, <2>1, GreatestOf
  <1>4. PICK h : h = C!Max(rows)
    OBVIOUS
  <1>5. h \in 0..a /\ C!RowBest(g, C0, a, b, h) # C!NoCell
    BY <1>3, <1>4
  <1> HIDE DEF rows
  <1>6. C!Highest(g, C0, a, b) = C!RowBest(g, C0, a, b, h)
    BY <1>1, <1>2, <1>4
  <1>7. InRow(C!RowBest(g, C0, a, b, h), a, b, h)
    <2>1. C!RowBest(g, C0, a, b, h) = C!NoCell \/ InRow(C!RowBest(g, C0, a, b, h), a, b, h)
      BY <1>5, RowIs
    <2> QED BY <1>5, <2>1
  <1> QED BY <1>5, <1>6, <1>7 DEF CellIn

-----------------------------------------------------------------------------
(* The cover of a sentence.                                                  *)

\* What cover asks of the values of its recursive function.
Under(g, C0, room, f, w) ==
  LET c == C!Highest(g, C0, w[1], w[2])
      end == c[1] + c[2] + 1
  IN IF w[1] < 0 \/ w[1] + w[2] >= room THEN <<>>
     ELSE IF c = C!NoCell THEN <<C!NoCell>>
     ELSE f[<<c[2] - w[2] - 1, w[2]>>] \o <<c>> \o f[<<w[1] + w[2] - end, end>>]

\* Every word of a sentence has edges.
FormsOver(g, C0, room) == Sane(g) /\ \A n \in 0..(room - 1) : HasForm(C0[<<0, n>>])

\* A cell of a cover over words y..x+y, and what it leaves on both sides.
Splits(c, g, C0, room, x, y) ==
  /\ C!Highest(g, C0, x, y) = c /\ c # C!NoCell
  /\ <<c[2] - y - 1, y>> \in (-1..(x - 1)) \X (0..room)
  /\ <<x + y - (c[1] + c[2] + 1), c[1] + c[2] + 1>> \in (-1..(x - 1)) \X (0..room)

\* What is left on both sides of a cell of a cover has fewer words.
LEMMA LeftAndRight ==
  ASSUME NEW g, NEW C0, NEW room \in Nat, FormsOver(g, C0, room),
         NEW x \in Nat, NEW y \in Nat, x + y < room
  PROVE  \E c \in Nat \X Nat : Splits(c, g, C0, room, x, y)
  <1>1. ASSUME NEW n \in 0..x PROVE HasForm(C0[<<0, y + n>>])
    <2>1. y + n \in 0..(room - 1)
      OBVIOUS
    <2> QED BY <2>1 DEF FormsOver
  <1>2. CellIn(C!Highest(g, C0, x, y), x, y)
    <2>1. Sane(g) /\ FormsIn(C0, x, y)
      BY <1>1 DEF FormsOver, FormsIn
    <2> QED BY <2>1, HighestOfWords
  <1>9. PICK h \in 0..x : \E n \in 1..(x - h + 1) : C!Highest(g, C0, x, y) = <<h, y + n - 1>>
    BY <1>2 DEF CellIn, InRow
  <1>3. PICK n \in 1..(x - h + 1) : C!Highest(g, C0, x, y) = <<h, y + n - 1>>
    BY <1>9
  <1>4. PICK c : c = <<h, y + n - 1>>
    OBVIOUS
  <1>5. c \in Nat \X Nat /\ c[1] = h /\ c[2] = y + n - 1
    BY <1>4
  <1>6. c # C!NoCell
    BY <1>5 DEF C!NoCell
  <1>7. c[2] - y - 1 \in -1..(x - 1) /\ x + y - (c[1] + c[2] + 1) \in -1..(x - 1) /\ c[1] + c[2] + 1 \in 0..room /\ y \in 0..room
    BY <1>5
  <1> QED BY <1>3, <1>4, <1>5, <1>6, <1>7 DEF Splits

\* Such a function of all the words to cover.
Covers(f, g, C0, room, m) == f = [w \in (-1..(m - 1)) \X (0..room) |-> Under(g, C0, room, f, w)]

\* Functions that agree on fewer words give the same cover.
LEMMA UnderSame ==
  ASSUME NEW g, NEW C0, NEW room \in Nat, FormsOver(g, C0, room), NEW w \in (-1..(room - 1)) \X (0..room),
         NEW f, NEW h, \A u \in (-1..(w[1] - 1)) \X (0..room) : f[u] = h[u]
  PROVE  Under(g, C0, room, f, w) = Under(g, C0, room, h, w)
  <1>1. CASE w[1] < 0 \/ w[1] + w[2] >= room
    BY <1>1 DEF Under
  <1>2. CASE ~(w[1] < 0 \/ w[1] + w[2] >= room)
    <2>1. w[1] \in Nat /\ w[2] \in Nat /\ w[1] + w[2] < room
      BY <1>2
    <2>2. PICK c \in Nat \X Nat : Splits(c, g, C0, room, w[1], w[2])
      <3>1. PICK x, y : x = w[1] /\ y = w[2] /\ x \in Nat /\ y \in Nat /\ x + y < room
        BY <2>1
      <3>2. \E c \in Nat \X Nat : Splits(c, g, C0, room, x, y)
        BY <3>1, LeftAndRight
      <3> QED BY <3>1, <3>2
    <2>3. /\ f[<<c[2] - w[2] - 1, w[2]>>] = h[<<c[2] - w[2] - 1, w[2]>>]
          /\ f[<<w[1] + w[2] - (c[1] + c[2] + 1), c[1] + c[2] + 1>>] = h[<<w[1] + w[2] - (c[1] + c[2] + 1), c[1] + c[2] + 1>>]
      BY <2>2 DEF Splits
    <2> QED BY <1>2, <2>2, <2>3 DEF Under, Splits
  <1> QED BY <1>1, <1>2

\* The function by which cover is defined exists.
LEMMA CoversExist ==
  ASSUME NEW g, NEW C0, NEW room \in Nat, FormsOver(g, C0, room)
  PROVE  \E f : Covers(f, g, C0, room, room)
  <1> DEFINE S == {m \in Nat : m <= room => \E f : Covers(f, g, C0, room, m)}
  <1>1. 0 \in S
    <2> DEFINE f == [w \in (-1..(0 - 1)) \X (0..room) |-> <<>>]
    <2>1. ASSUME NEW w \in (-1..(0 - 1)) \X (0..room) PROVE Under(g, C0, room, f, w) = <<>>
      BY DEF Under
    <2>2. f = [w \in (-1..(0 - 1)) \X (0..room) |-> Under(g, C0, room, f, w)]
      BY <2>1
    <2> HIDE DEF f
    <2>3. Covers(f, g, C0, room, 0)
      BY <2>2 DEF Covers
    <2> QED BY <2>3
  <1>2. ASSUME NEW m \in Nat, m \in S PROVE m + 1 \in S
    <2> SUFFICES ASSUME m + 1 <= room PROVE \E f : Covers(f, g, C0, room, m + 1)
      OBVIOUS
    <2>1. PICK f : Covers(f, g, C0, room, m)
      BY <1>2
    <2> DEFINE D == (-1..((m + 1) - 1)) \X (0..room)
               h == [w \in D |-> IF w[1] < m THEN f[w] ELSE Under(g, C0, room, f, w)]
    <2>2. ASSUME NEW w \in D PROVE h[w] = Under(g, C0, room, h, w)
      <3>1. w \in (-1..(room - 1)) \X (0..room) /\ w[1] \in -1..m
        OBVIOUS
      <3>2. \A u \in (-1..(w[1] - 1)) \X (0..room) : f[u] = h[u]
        <4>1. ASSUME NEW u \in (-1..(w[1] - 1)) \X (0..room) PROVE f[u] = h[u]
          <5>1. u \in D /\ u[1] < m
            BY <3>1
          <5> QED BY <5>1
        <4> QED BY <4>1
      <3>3. h[w] = IF w[1] < m THEN f[w] ELSE Under(g, C0, room, f, w)
        OBVIOUS
      <3> HIDE DEF h
      <3>4. Under(g, C0, room, f, w) = Under(g, C0, room, h, w)
        BY <3>1, <3>2, UnderSame
      <3>5. w[1] < m => f[w] = Under(g, C0, room, f, w)
        <4> SUFFICES ASSUME w[1] < m PROVE f[w] = Under(g, C0, room, f, w)
          OBVIOUS
        <4>1. w \in (-1..(m - 1)) \X (0..room)
          BY <3>1
        <4> QED BY <2>1, <4>1 DEF Covers
      <3> QED BY <3>3, <3>4, <3>5
    <2>3. h = [w \in D |-> h[w]]
      OBVIOUS
    <2> HIDE DEF h
    <2>4. Covers(h, g, C0, room, m + 1)
      BY <2>2, <2>3 DEF Covers
    <2> QED BY <2>4
  <1> HIDE DEF S
  <1>3. room \in S
    BY <1>1, <1>2, Induct
  <1> QED BY <1>3 DEF S

\* Over words that have edges a cover is one of cells.
LEMMA CoverOfCells ==
  ASSUME NEW g, NEW C0, NEW room \in Nat, FormsOver(g, C0, room), NEW a \in -1..(room - 1), NEW b \in 0..room
  PROVE  C!cover(g, C0, room, a, b) \in Seq(Nat \X Nat)
  <1> DEFINE U == CHOOSE f : f = [w \in (-1..(room - 1)) \X (0..room) |->
        LET End(c)      == c[1] + c[2] + 1
            Covering(c) ==
              IF c = C!NoCell THEN <<C!NoCell>>
              ELSE f[<<c[2] - w[2] - 1, w[2]>>] \o <<c>> \o f[<<w[1] + w[2] - End(c), End(c)>>]
        IN IF w[1] < 0 \/ w[1] + w[2] >= room THEN <<>> ELSE Covering(C!Highest(g, C0, w[1], w[2]))]
  <1>1. C!cover(g, C0, room, a, b) = U[<<a, b>>]
    BY DEF C!cover
  <1>2. Covers(U, g, C0, room, room)
    <2>1. \E f : Covers(f, g, C0, room, room)
      BY CoversExist
    <2> QED BY <2>1 DEF Covers, Under
  <1> HIDE DEF U
  <1> DEFINE S == {m \in Nat : m <= room => \A w \in (-1..(m - 1)) \X (0..room) : U[w] \in Seq(Nat \X Nat)}
  <1>3. \A w \in (-1..(room - 1)) \X (0..room) : U[w] = Under(g, C0, room, U, w)
    BY <1>2 DEF Covers
  <1>4. 0 \in S
    <2>1. ASSUME 0 <= room, NEW w \in (-1..(0 - 1)) \X (0..room) PROVE U[w] \in Seq(Nat \X Nat)
      <3>1. w \in (-1..(room - 1)) \X (0..room) /\ w[1] < 0
        OBVIOUS
      <3>2. U[w] = <<>>
        BY <1>3, <3>1 DEF Under
      <3> QED BY <3>2
    <2> QED BY <2>1
  <1>5. ASSUME NEW m \in Nat, m \in S PROVE m + 1 \in S
    <2> SUFFICES ASSUME m + 1 <= room, NEW w \in (-1..((m + 1) - 1)) \X (0..room) PROVE U[w] \in Seq(Nat \X Nat)
      OBVIOUS
    <2>1. w \in (-1..(room - 1)) \X (0..room) /\ w[1] \in -1..m
      OBVIOUS
    <2>2. \A u \in (-1..(m - 1)) \X (0..room) : U[u] \in Seq(Nat \X Nat)
      BY <1>5
    <2>3. CASE w[1] < 0 \/ w[1] + w[2] >= room
      <3>1. U[w] = <<>>
        BY <1>3, <2>1, <2>3 DEF Under
      <3> QED BY <3>1
    <2>4. CASE ~(w[1] < 0 \/ w[1] + w[2] >= room)
      <3>1. w[1] \in Nat /\ w[2] \in Nat /\ w[1] + w[2] < room
        BY <2>1, <2>4
      <3>2. PICK c \in Nat \X Nat : Splits(c, g, C0, room, w[1], w[2])
        <4>1. PICK x, y : x = w[1] /\ y = w[2] /\ x \in Nat /\ y \in Nat /\ x + y < room
          BY <3>1
        <4>2. \E c \in Nat \X Nat : Splits(c, g, C0, room, x, y)
          BY <4>1, LeftAndRight
        <4> QED BY <4>1, <4>2
      <3>3. PICK u, v : u = <<c[2] - w[2] - 1, w[2]>> /\ v = <<w[1] + w[2] - (c[1] + c[2] + 1), c[1] + c[2] + 1>>
        OBVIOUS
      <3>4. u \in (-1..(m - 1)) \X (0..room) /\ v \in (-1..(m - 1)) \X (0..room)
        <4>1. -1..(w[1] - 1) \subseteq -1..(m - 1)
          BY <2>1
        <4> QED BY <3>2, <3>3, <4>1 DEF Splits
      <3>5. U[w] = U[u] \o <<c>> \o U[v]
        BY <1>3, <2>1, <2>4, <3>2, <3>3 DEF Under, Splits
      <3>6. PICK s, r : s = U[u] /\ r = U[v] /\ s \in Seq(Nat \X Nat) /\ r \in Seq(Nat \X Nat)
        BY <2>2, <3>4
      <3>7. <<c>> \in Seq(Nat \X Nat)
        OBVIOUS
      <3>8. s \o <<c>> \o r \in Seq(Nat \X Nat)
        <4>1. PICK P : P = Nat \X Nat
          OBVIOUS
        <4>2. s \in Seq(P) /\ <<c>> \in Seq(P) /\ r \in Seq(P)
          BY <3>6, <3>7, <4>1
        <4>3. s \o <<c>> \in Seq(P)
          BY <4>2, ConcatProperties
        <4>4. (s \o <<c>>) \o r \in Seq(P)
          BY <4>2, <4>3, ConcatProperties
        <4> QED BY <4>1, <4>4
      <3> QED BY <3>5, <3>6, <3>8
    <2> QED BY <2>3, <2>4
  <1>6. Nat \subseteq S
    <2> HIDE DEF S
    <2> QED BY <1>4, <1>5, Induct
  <1>7. <<a, b>> \in (-1..(room - 1)) \X (0..room)
    OBVIOUS
  <1> QED BY <1>1, <1>6, <1>7

\* The parser does not give up on words that have edges.
LEMMA CoverFound ==
  ASSUME NEW g, NEW C0, NEW room \in Nat \ {0}, FormsOver(g, C0, room)
  PROVE  C!NoCell \notin Range(C!cover(g, C0, room, room - 1, 0))
  <1>1. PICK cov : cov = C!cover(g, C0, room, room - 1, 0)
    OBVIOUS
  <1>2. cov \in Seq(Nat \X Nat)
    <2>1. room \in Nat /\ room - 1 \in -1..(room - 1) /\ 0 \in 0..room
      OBVIOUS
    <2> QED BY <1>1, <2>1, CoverOfCells
  <1>3. \A x \in Range(cov) : x \in Nat \X Nat
    BY <1>2, ElementOfSeq DEF Range
  <1>4. C!NoCell \notin Nat \X Nat
    BY DEF C!NoCell
  <1> QED BY <1>1, <1>3, <1>4

-----------------------------------------------------------------------------
(* The edges over a word.                                                    *)

\* What begins with a rule of the grammar over the cell c.
Starts(g, c) == {C!shift(C!Edge(r), c) : r \in Range(g.rules) \cup Range(g.wild)}

\* Of each element of s, f keeps it alone or nothing.
Filters(f, s) == f = [n \in DOMAIN s |-> f[n]] /\ \A n \in DOMAIN s : f[n] = <<s[n]>> \/ f[n] = <<>>

\* What is left of a sequence is one, and has what was kept.
LEMMA FilterRow ==
  ASSUME NEW S, NEW n \in Nat, NEW s, DOMAIN s = 1..n, \A i \in 1..n : s[i] \in S, NEW f, Filters(f, s)
  PROVE  /\ FlattenSeq(f) \in Seq(S)
         /\ \A i \in 1..n : f[i] = <<s[i]>> => s[i] \in Range(FlattenSeq(f))
  <1>1. ASSUME NEW i \in 1..n PROVE f[i] \in Seq(S)
    <2>1. f[i] = <<s[i]>> \/ f[i] = <<>>
      BY DEF Filters
    <2>2. PICK x : x = s[i] /\ x \in S
      OBVIOUS
    <2>3. <<x>> \in Seq(S) /\ <<>> \in Seq(S)
      BY <2>2
    <2> QED BY <2>1, <2>2, <2>3
  <1>2. f \in [1..n -> Seq(S)]
    BY <1>1 DEF Filters
  <1>3. f \in Seq(Seq(S)) /\ Len(f) = n
    BY <1>2, RowSeq
  <1>4. FlattenSeq(f) \in Seq(S) /\ Range(FlattenSeq(f)) = UNION {Range(f[i]) : i \in 1..Len(f)}
    BY <1>3, FlattenType, FlattenRange
  <1>5. ASSUME NEW i \in 1..n, f[i] = <<s[i]>> PROVE s[i] \in Range(FlattenSeq(f))
    <2>1. s[i] \in Range(f[i])
      BY <1>5 DEF Range
    <2> QED BY <1>3, <1>4, <2>1
  <1> QED BY <1>4, <1>5

\* It is a sequence of the same elements.
LEMMA FilterSeq ==
  ASSUME NEW S, NEW s \in Seq(S), NEW f, Filters(f, s)
  PROVE  FlattenSeq(f) \in Seq(S)
  <1>1. PICK n : n = Len(s) /\ n \in Nat /\ DOMAIN s = 1..n /\ \A i \in 1..n : s[i] \in S
    BY LenProperties, ElementOfSeq
  <1> QED BY <1>1, FilterRow

\* The rules for a symbol, and the edges that are complete.
LEMMA RulesRight ==
  ASSUME NEW g, NEW S, g.rules \in Seq(S), NEW sym
  PROVE  C!get_rules_right(g, sym) \in Seq(S)
  <1> DEFINE f == [n \in DOMAIN g.rules |-> IF Head(g.rules[n].right) = sym THEN <<g.rules[n]>> ELSE <<>>]
  <1>1. C!get_rules_right(g, sym) = FlattenSeq(f)
    BY SameFlatten DEF C!get_rules_right, C!Those
  <1>2. Filters(f, g.rules)
    BY DEF Filters
  <1> HIDE DEF f
  <1> QED BY <1>1, <1>2, FilterSeq

\* Also the rules that begin with a wildcard.
LEMMA RulesWild ==
  ASSUME NEW g, NEW S, g.wild \in Seq(S), NEW sym
  PROVE  C!get_rules_right_wildcard(g, sym) \in Seq(S)
  <1> DEFINE f == [n \in DOMAIN g.wild |-> IF Head(Head(g.wild[n].right).cat) = Head(sym.cat) THEN <<g.wild[n]>> ELSE <<>>]
  <1>1. C!get_rules_right_wildcard(g, sym) = FlattenSeq(f)
    BY SameFlatten DEF C!get_rules_right_wildcard, C!Those
  <1>2. Filters(f, g.wild)
    BY DEF Filters
  <1> HIDE DEF f
  <1> QED BY <1>1, <1>2, FilterSeq

\* The edges of a list that are complete.
LEMMA CompleteSeq ==
  ASSUME NEW S, NEW s \in Seq(S)
  PROVE  C!Complete(s) \in Seq({e.head : e \in S})
  <1> DEFINE f == [n \in DOMAIN s |-> IF ~C!active(s[n]) THEN <<s[n]>> ELSE <<>>]
  <1>1. C!Complete(s) = [n \in DOMAIN FlattenSeq(f) |-> FlattenSeq(f)[n].head]
    BY SameFlatten DEF C!Complete, C!Those
  <1>2. Filters(f, s)
    BY DEF Filters
  <1> HIDE DEF f
  <1>3. PICK d : d = FlattenSeq(f) /\ d \in Seq(S)
    BY <1>2, FilterSeq
  <1>4. [n \in DOMAIN d |-> d[n].head] \in Seq({e.head : e \in S})
    BY <1>3, LenProperties, ElementOfSeq
  <1> QED BY <1>1, <1>3, <1>4

\* The edges that begin with rules.
LEMMA ShiftedSeq ==
  ASSUME NEW g, NEW c, NEW s \in Seq(Range(g.rules) \cup Range(g.wild))
  PROVE  C!Shifted(s, c) \in Seq(Starts(g, c))
  <1> DEFINE R == Range(g.rules) \cup Range(g.wild)
             f == [n \in DOMAIN s |-> C!shift(C!Edge(s[n]), c)]
  <1>1. C!Shifted(s, c) = f
    BY DEF C!Shifted
  <1>2. Len(s) \in Nat /\ DOMAIN s = 1..Len(s) /\ \A n \in DOMAIN s : s[n] \in R
    <2> HIDE DEF R
    <2>1. s \in Seq(R)
      BY DEF R
    <2> QED BY <2>1, LenProperties, ElementOfSeq
  <1>3. \A n \in DOMAIN s : f[n] \in Starts(g, c)
    BY <1>2 DEF Starts
  <1>4. f = [n \in 1..Len(s) |-> f[n]]
    BY <1>2
  <1> HIDE DEF f
  <1>5. f \in Seq(Starts(g, c))
    BY <1>2, <1>3, <1>4
  <1> QED BY <1>1, <1>5

\* The edges that symbols begin.
NewEdges(g, c, syms) == FlattenSeq([n \in DOMAIN syms |-> C!Shifted(C!get_rules_right(g, syms[n]), c)])

\* They begin with rules of the grammar.
LEMMA NewSeq ==
  ASSUME NEW g, Sequence(g.rules), NEW c, NEW S, NEW syms \in Seq(S)
  PROVE  NewEdges(g, c, syms) \in Seq(Starts(g, c))
  <1> DEFINE R == Range(g.rules) \cup Range(g.wild)
             f == [n \in DOMAIN syms |-> C!Shifted(C!get_rules_right(g, syms[n]), c)]
  <1>1. g.rules \in Seq(R)
    <2>1. PICK T : g.rules \in Seq(T)
      BY DEF Sequence
    <2> QED BY <2>1, LenProperties DEF Range
  <1>2. Len(syms) \in Nat /\ DOMAIN syms = 1..Len(syms)
    BY LenProperties
  <1>3. ASSUME NEW n \in DOMAIN syms PROVE f[n] \in Seq(Starts(g, c))
    <2>1. PICK s : s = C!get_rules_right(g, syms[n])
      OBVIOUS
    <2>2. s \in Seq(R)
      <3> HIDE DEF R
      <3> QED BY <1>1, <2>1, RulesRight
    <2>3. C!Shifted(s, c) \in Seq(Starts(g, c))
      BY <2>2, ShiftedSeq
    <2> QED BY <2>1, <2>3
  <1>4. f = [n \in 1..Len(syms) |-> f[n]]
    BY <1>2
  <1>5. NewEdges(g, c, syms) = FlattenSeq(f)
    BY DEF NewEdges
  <1> HIDE DEF f
  <1>6. f \in [1..Len(syms) -> Seq(Starts(g, c))]
    BY <1>2, <1>3, <1>4
  <1>7. f \in Seq(Seq(Starts(g, c)))
    BY <1>2, <1>6, RowSeq
  <1> QED BY <1>5, <1>7, FlattenType

\* So do those of every generation.
LEMMA BegunSeq ==
  ASSUME NEW g, Sequence(g.rules), IsFiniteSet(g.nonterminal), NEW c, NEW S, NEW d \in Seq(S)
  PROVE  C!Begun(g, d, c) \in Seq(Starts(g, c))
  <1> DEFINE New(syms) == C!FlattenSeq([n \in DOMAIN syms |-> C!Shifted(C!get_rules_right(g, syms[n]), c)])
             new == CHOOSE new : new = [n \in 0..C!Cardinality(g.nonterminal) |->
                      New(IF n = 0 THEN d ELSE C!Complete(new[n - 1]))]
             row == [n \in 1..(1 + C!Cardinality(g.nonterminal)) |-> new[n - 1]]
  <1>1. C!Begun(g, d, c) = C!FlattenSeq(row)
    BY DEF C!Begun
  <1>2. PICK m : m = C!Cardinality(g.nonterminal) /\ m \in Nat
    <2>1. C!Cardinality(g.nonterminal) = Cardinality(g.nonterminal)
      BY DEF C!Cardinality, Cardinality
    <2> QED BY <2>1, FS_CardinalityType
  <1>3. \A syms : New(syms) = NewEdges(g, c, syms)
    BY SameFlatten DEF NewEdges
  <1> HIDE DEF New
  <1>4. PICK V : V = Seq(Starts(g, c))
    OBVIOUS
  <1>5. New(d) \in V
    BY <1>3, <1>4, NewSeq
  <1>6. ASSUME NEW v \in V PROVE New(C!Complete(v)) \in V
    <2>1. PICK T, x : T = Starts(g, c) /\ x = C!Complete(v) /\ v \in Seq(T)
      BY <1>4
    <2>2. x \in Seq({e.head : e \in T})
      BY <2>1, CompleteSeq
    <2>3. NewEdges(g, c, x) \in V
      <3>1. PICK H : H = {e.head : e \in T}
        OBVIOUS
      <3>2. x \in Seq(H)
        BY <2>2, <3>1
      <3> QED BY <1>4, <3>2, NewSeq
    <2> QED BY <1>3, <2>1, <2>3
  <1> DEFINE step == [x \in V \X (1..m) |-> New(C!Complete(x[1]))]
  <1>7. step \in [V \X (1..m) -> V]
    BY <1>6
  <1>8. PICK h : Recurs(h, V, New(d), m, step)
    <2> HIDE DEF step
    <2> QED BY <1>2, <1>5, <1>7, Recursion
  <1>9. /\ h \in [0..m -> V] /\ h[0] = New(d)
        /\ \A i \in 1..m : h[i] = New(C!Complete(h[i - 1]))
    <2>1. /\ h \in [0..m -> V] /\ h[0] = New(d)
          /\ \A i \in 1..m : h[i] = step[<<h[i - 1], i>>]
      BY <1>8 DEF Recurs
    <2>2. ASSUME NEW i \in 1..m PROVE step[<<h[i - 1], i>>] = New(C!Complete(h[i - 1]))
      <3>1. h[i - 1] \in V
        BY <1>2, <2>1
      <3> QED BY <3>1
    <2> HIDE DEF step
    <2> QED BY <2>1, <2>2
  <1>10. h = [n \in 0..m |-> New(IF n = 0 THEN d ELSE C!Complete(h[n - 1]))]
    <2>1. \A n \in 0..m : h[n] = New(IF n = 0 THEN d ELSE C!Complete(h[n - 1]))
      <3>1. ASSUME NEW n \in 0..m PROVE h[n] = New(IF n = 0 THEN d ELSE C!Complete(h[n - 1]))
        <4>1. CASE n = 0
          BY <1>9, <4>1
        <4>2. CASE n # 0
          BY <1>2, <1>9, <4>2
        <4> QED BY <4>1, <4>2
      <3> QED BY <3>1
    <2>2. h = [n \in 0..m |-> h[n]]
      BY <1>9
    <2> QED BY <2>1, <2>2
  <1>11. new = [n \in 0..m |-> New(IF n = 0 THEN d ELSE C!Complete(new[n - 1]))]
    BY <1>2, <1>10
  <1>12. row = [n \in 1..(1 + m) |-> new[n - 1]]
    BY <1>2
  <1> HIDE DEF new, row, step
  <1>13. \A n \in 0..m : new[n] \in V
    <2>1. new[0] = New(d)
      BY <1>2, <1>11
    <2>2. ASSUME NEW i \in 1..m, new[i - 1] \in V PROVE new[i] \in V
      <3>1. i \in 0..m /\ i # 0
        BY <1>2
      <3>2. new[i] = New(C!Complete(new[i - 1]))
        BY <1>11, <3>1
      <3> QED BY <1>6, <2>2, <3>2
    <2> QED BY <1>2, <1>5, <2>1, <2>2, Stays
  <1>14. row \in [1..(1 + m) -> V]
    <2>1. \A n \in 1..(1 + m) : n - 1 \in 0..m
      BY <1>2
    <2> QED BY <1>12, <1>13, <2>1
  <1>15. row \in Seq(Seq(Starts(g, c)))
    <2>1. 1 + m \in Nat
      BY <1>2
    <2> QED BY <1>4, <1>14, <2>1, RowSeq
  <1> QED BY <1>1, <1>15, SameFlatten, FlattenType

\* All the edges that follow from one.
LEMMA AllRules ==
  ASSUME NEW g, Sane(g), NEW e, NEW c
  PROVE  C!find_all_rules(g, e, c) \in Seq(Starts(g, c))
  <1> DEFINE R == Range(g.rules) \cup Range(g.wild)
             found == C!get_rules_right_wildcard(g, e.head)
             f == [n \in DOMAIN found |-> IF C!check_match(Head(found[n].right), e.head) THEN <<found[n]>> ELSE <<>>]
             wild == IF C!is_terminal(g, e.head) THEN C!Shifted(C!FlattenSeq(f), c) ELSE <<>>
  <1>1. C!find_all_rules(g, e, c) = wild \o C!Begun(g, Append(C!Complete(wild), e.head), c)
    BY DEF C!find_all_rules, C!Those
  <1>2. found \in Seq(R)
    <2>1. PICK T : g.wild \in Seq(T)
      BY DEF Sane, Sequence
    <2>2. g.wild \in Seq(R)
      BY <2>1, LenProperties DEF Range
    <2> HIDE DEF R
    <2> QED BY <2>2, RulesWild
  <1>3. FlattenSeq(f) \in Seq(R)
    <2>1. Filters(f, found)
      BY DEF Filters
    <2> HIDE DEF f, found, R
    <2> QED BY <1>2, <2>1, FilterSeq
  <1>4. wild \in Seq(Starts(g, c))
    <2>1. PICK s : s = FlattenSeq(f)
      OBVIOUS
    <2>2. C!FlattenSeq(f) = s
      BY <2>1, SameFlatten
    <2>3. C!Shifted(s, c) \in Seq(Starts(g, c))
      BY <1>3, <2>1, ShiftedSeq
    <2>4. <<>> \in Seq(Starts(g, c))
      OBVIOUS
    <2> HIDE DEF f
    <2> QED BY <2>2, <2>3, <2>4
  <1> HIDE DEF wild, R, f, found
  <1>5. PICK T : T = Starts(g, c)
    OBVIOUS
  <1>6. PICK d, H : d = Append(C!Complete(wild), e.head) /\ d \in Seq(H)
    <2>1. PICK w, H : w = C!Complete(wild) /\ H = {x.head : x \in T} \cup {e.head}
      OBVIOUS
    <2>2. w \in Seq({x.head : x \in T})
      BY <1>4, <1>5, <2>1, CompleteSeq
    <2>3. w \in Seq(H) /\ e.head \in H
      BY <2>1, <2>2
    <2>4. Append(w, e.head) \in Seq(H)
      BY <2>3, AppendProperties
    <2> QED BY <2>1, <2>4
  <1>7. C!Begun(g, d, c) \in Seq(T)
    BY <1>5, <1>6, BegunSeq DEF Sane
  <1>8. wild \o C!Begun(g, d, c) \in Seq(T)
    BY <1>4, <1>5, <1>7, ConcatProperties
  <1> QED BY <1>1, <1>5, <1>6, <1>8

\* An edge over a cell, with what follows from it.
LEMMA WithHas ==
  ASSUME NEW g, Sane(g), NEW e, ~C!active(e), NEW c, NEW T, Starts(g, c) \cup {e} \subseteq T
  PROVE  C!With(g, e, c) \in Seq(T) /\ e \in Range(C!With(g, e, c))
  <1>1. PICK r : r = C!find_all_rules(g, e, c) /\ r \in Seq(T)
    <2>1. C!find_all_rules(g, e, c) \in Seq(Starts(g, c))
      BY AllRules
    <2> QED BY <2>1
  <1>2. C!With(g, e, c) = <<e>> \o r
    BY <1>1 DEF C!With
  <1>3. <<e>> \in Seq(T) /\ Range(<<e>>) = {e}
    BY DEF Range
  <1>4. <<e>> \o r \in Seq(T) /\ Range(<<e>> \o r) = Range(<<e>>) \cup Range(r)
    BY <1>1, <1>3, RangeConcat, ConcatProperties
  <1> QED BY <1>2, <1>3, <1>4

\* The edge of a terminal.
Terminal(a, cond) ==
  C!Edge([head |-> [cat |-> a.tag, star |-> FALSE, cond |-> cond], right |-> <<>>, gov |-> 0])

\* It is complete; with a form, it is the edge of a form.
LEMMA TerminalIs ==
  ASSUME NEW a, NEW cond
  PROVE  ~C!active(Terminal(a, cond)) /\ (cond.kind = "form" => FormEdge(Terminal(a, cond)))
  BY DEF Terminal, C!Edge, C!active, FormEdge

\* The cell of a word with an analysis has an edge for the form.
LEMMA CellOfWord ==
  ASSUME NEW g, Sane(g), NEW form, NEW A, NEW analyses \in Seq(A), analyses # <<>>, NEW c
  PROVE  HasForm(C!WordCell(g, form, analyses, c))
  <1> DEFINE Of(kind, x) == [kind |-> kind, of |-> x]
             E(n, m) == Terminal(analyses[n], IF m = 1 THEN C!NoCond ELSE IF m = 2 THEN Of("form", form) ELSE Of("lemma", analyses[n].lemma))
             Part(n) == C!With(g, E(n, 1), c) \o C!With(g, E(n, 2), c) \o C!With(g, E(n, 3), c)
             s == [n \in DOMAIN analyses |-> Part(n)]
  <1>1. C!WordCell(g, form, analyses, c) = C!FlattenSeq(s)
    BY DEF C!WordCell, Terminal
  <1>2. PICK l : l = Len(analyses) /\ l \in Nat \ {0} /\ DOMAIN analyses = 1..l
    BY LenProperties, EmptySeq
  <1>3. PICK T : T = Starts(g, c) \cup UNION {{E(n, m) : m \in 1..3} : n \in 1..l}
    OBVIOUS
  <1>4. ASSUME NEW n \in 1..l PROVE Part(n) \in Seq(T) /\ E(n, 2) \in Range(Part(n))
    <2>1. \A m \in 1..3 : ~C!active(E(n, m)) /\ Starts(g, c) \cup {E(n, m)} \subseteq T
      BY <1>3, TerminalIs
    <2> HIDE DEF E
    <2>2. PICK e, f, h : e = E(n, 1) /\ f = E(n, 2) /\ h = E(n, 3)
      OBVIOUS
    <2>3. /\ ~C!active(e) /\ Starts(g, c) \cup {e} \subseteq T
          /\ ~C!active(f) /\ Starts(g, c) \cup {f} \subseteq T
          /\ ~C!active(h) /\ Starts(g, c) \cup {h} \subseteq T
      BY <2>1, <2>2
    <2>4. PICK x, y, z : x = C!With(g, e, c) /\ y = C!With(g, f, c) /\ z = C!With(g, h, c)
      OBVIOUS
    <2>5. x \in Seq(T) /\ y \in Seq(T) /\ z \in Seq(T) /\ f \in Range(y)
      BY <2>3, <2>4, WithHas
    <2>6. x \o y \in Seq(T) /\ Range(x \o y) = Range(x) \cup Range(y)
      BY <2>5, RangeConcat, ConcatProperties
    <2>7. PICK u : u = x \o y /\ u \in Seq(T) /\ Range(u) = Range(x) \cup Range(y)
      BY <2>6
    <2>8. u \o z \in Seq(T) /\ Range(u \o z) = Range(u) \cup Range(z)
      <3>1. u \in Seq(T) /\ z \in Seq(T)
        BY <2>5, <2>7
      <3>2. u \o z \in Seq(T)
        BY <3>1, ConcatProperties
      <3>3. Range(u \o z) = Range(u) \cup Range(z)
        BY <3>1, RangeConcat
      <3> QED BY <3>2, <3>3
    <2> QED BY <2>2, <2>4, <2>5, <2>7, <2>8
  <1>5. s = [n \in 1..l |-> Part(n)]
    BY <1>2
  <1>6. FormEdge(E(1, 2))
    BY TerminalIs
  <1> HIDE DEF E, Part, s
  <1>7. s \in [1..l -> Seq(T)] /\ s[1] = Part(1)
    BY <1>2, <1>4, <1>5
  <1>8. s \in Seq(Seq(T)) /\ Len(s) = l
    BY <1>2, <1>7, RowSeq
  <1>9. PICK q : q = FlattenSeq(s) /\ q \in Seq(T) /\ Range(q) = UNION {Range(s[n]) : n \in 1..Len(s)}
    BY <1>8, FlattenType, FlattenRange
  <1>10. E(1, 2) \in Range(q)
    <2>1. 1 \in 1..l
      BY <1>2
    <2>2. E(1, 2) \in Range(s[1])
      BY <1>4, <1>7, <2>1
    <2> QED BY <1>8, <1>9, <2>1, <2>2
  <1>11. HasForm(q)
    BY <1>6, <1>9, <1>10 DEF HasForm, Sequence, Range
  <1> QED BY <1>1, <1>9, <1>11, SameFlatten

-----------------------------------------------------------------------------
(* What is selected of the words.                                            *)

\* A word with a list of analyses, and one of which each of the first m sequences selects
\* some, and no other does.
HasList(w) == /\ "analyses" \in DOMAIN w /\ Sequence(w.analyses)
              /\ \A i \in DOMAIN w.analyses : "sel" \in DOMAIN w.analyses[i]
MarkedUpTo(w, m) ==
  /\ HasList(w)
  /\ \A kth \in 0..(m - 1) : \E i \in DOMAIN w.analyses : kth \in w.analyses[i].sel
  /\ \A i \in DOMAIN w.analyses : w.analyses[i].sel \subseteq 0..(m - 1)

\* A list of analyses is numbered from 1.
LEMMA ListIs ==
  ASSUME NEW w, HasList(w)
  PROVE  /\ Len(w.analyses) \in Nat /\ DOMAIN w.analyses = 1..Len(w.analyses)
         /\ \A i \in DOMAIN w.analyses : w.analyses[i] \in Range(w.analyses)
  <1>1. PICK s, T : s = w.analyses /\ s \in Seq(T)
    BY DEF HasList, Sequence
  <1> QED BY <1>1, LenProperties DEF Range

\* Selected gives what a sequence selects.
LEMMA SelectedSome ==
  ASSUME NEW w, HasList(w), NEW kth, NEW i \in DOMAIN w.analyses, kth \in w.analyses[i].sel
  PROVE  \E A : Selected(w, kth) \in Seq(A) /\ Selected(w, kth) # <<>>
  <1> DEFINE f == [n \in DOMAIN w.analyses |-> IF kth \in w.analyses[n].sel THEN <<w.analyses[n]>> ELSE <<>>]
  <1>1. Selected(w, kth) = FlattenSeq(f)
    BY DEF Selected
  <1>2. PICK s, n : s = w.analyses /\ n = Len(s) /\ n \in Nat /\ DOMAIN s = 1..n /\ \A j \in 1..n : s[j] \in Range(s)
    BY ListIs
  <1>3. Filters(f, s) /\ f[i] = <<s[i]>>
    BY <1>2 DEF Filters
  <1> HIDE DEF f
  <1>4. FlattenSeq(f) \in Seq(Range(s)) /\ s[i] \in Range(FlattenSeq(f))
    BY <1>2, <1>3, FilterRow
  <1>5. FlattenSeq(f) # <<>>
    BY <1>4, Empty
  <1> QED BY <1>1, <1>4, <1>5

\* selected_begin finds one that is selected.
LEMMA BeginSelected ==
  ASSUME NEW w, HasList(w), NEW kth, NEW i \in DOMAIN w.analyses, kth \in w.analyses[i].sel
  PROVE  selected_begin(w, kth) \in DOMAIN w.analyses /\ kth \in w.analyses[selected_begin(w, kth)].sel
  <1> DEFINE I == {n \in 1..Len(w.analyses) : kth \in w.analyses[n].sel}
             b == selected_begin(w, kth)
  <1>1. i \in I /\ I \in SUBSET Nat /\ I \subseteq DOMAIN w.analyses
    BY ListIs
  <1>2. \E n \in I : \A j \in I : n <= j
    BY <1>1, Least
  <1>3. b = IF I # {} THEN Min(I) ELSE 0
    BY DEF selected_begin, SelectInSeq
  <1>4. b = CHOOSE n \in I : \A j \in I : n <= j
    BY <1>1, <1>3 DEF Min
  <1>5. b \in I
    <2> HIDE DEF b, I
    <2> QED BY <1>2, <1>4
  <1> QED BY <1>1, <1>5

\* Forcing an analysis keeps some selected.
LEMMA ForceMarked ==
  ASSUME NEW m \in Nat \ {0}, NEW w, MarkedUpTo(w, m)
  PROVE  MarkedUpTo(ForceOne(w), m)
  <1> DEFINE as == [i \in DOMAIN w.analyses |-> unmark_selected(w.analyses[i], 0)]
             u == unselect_all_analysis(w, 0)
             b == selected_begin(w, 0)
             bs == [as EXCEPT ![b] = mark_selected(@, 0)]
  <1>1. HasList(w) /\ Len(w.analyses) \in Nat /\ DOMAIN w.analyses = 1..Len(w.analyses)
    BY ListIs DEF MarkedUpTo
  <1>2. b \in DOMAIN w.analyses
    <2>1. 0 \in 0..(m - 1)
      OBVIOUS
    <2>2. PICK i \in DOMAIN w.analyses : 0 \in w.analyses[i].sel
      BY <2>1 DEF MarkedUpTo
    <2> QED BY <1>1, <2>2, BeginSelected
  <1>3. u = [w EXCEPT !.analyses = as]
    BY Zenon DEF unselect_all_analysis
  <1>4. "analyses" \in DOMAIN w
    BY <1>1 DEF HasList
  <1>5. u.analyses = as /\ DOMAIN u = DOMAIN w
    BY <1>3, <1>4
  <1>6. ForceOne(w) = [u EXCEPT !.analyses = [u.analyses EXCEPT ![b] = mark_selected(@, 0)]]
    BY Zenon DEF ForceOne, select_analysis
  <1>7. DOMAIN as = 1..Len(w.analyses) /\ DOMAIN bs = 1..Len(w.analyses)
    BY <1>1
  <1>8. ASSUME NEW i \in DOMAIN w.analyses
        PROVE  /\ DOMAIN bs[i] = DOMAIN w.analyses[i]
               /\ bs[i].sel = IF i = b THEN w.analyses[i].sel \cup {0} ELSE w.analyses[i].sel \ {0}
    <2>1. PICK a : a = w.analyses[i]
      OBVIOUS
    <2>2. "sel" \in DOMAIN a
      BY <1>1, <2>1 DEF HasList
    <2>3. PICK c : c = as[i]
      OBVIOUS
    <2>4. c = [a EXCEPT !.sel = a.sel \ {0}]
      BY <2>1, <2>3 DEF unmark_selected
    <2>5. DOMAIN c = DOMAIN a /\ c.sel = a.sel \ {0}
      BY <2>2, <2>4
    <2>6. CASE i = b
      <3>1. bs[i] = [c EXCEPT !.sel = c.sel \cup {0}]
        BY <1>7, <2>3, <2>6, <1>1 DEF mark_selected
      <3>2. DOMAIN bs[i] = DOMAIN a /\ bs[i].sel = (a.sel \ {0}) \cup {0}
        BY <2>2, <2>5, <3>1
      <3> QED BY <2>1, <2>6, <3>2
    <2>7. CASE i # b
      <3>1. bs[i] = c
        BY <1>1, <1>7, <2>3, <2>7
      <3> QED BY <2>1, <2>5, <2>7, <3>1
    <2> QED BY <2>6, <2>7
  <1> HIDE DEF as, u
  <1>9. ForceOne(w).analyses = bs /\ DOMAIN ForceOne(w) = DOMAIN w
    <2>1. "analyses" \in DOMAIN u
      BY <1>4, <1>5
    <2> QED BY <1>5, <1>6, <2>1
  <1>10. Sequence(bs)
    <2>1. bs = [i \in 1..Len(w.analyses) |-> bs[i]]
      BY <1>7
    <2> HIDE DEF bs
    <2> QED BY <1>1, <2>1, SeqOfFunction DEF Sequence
  <1> HIDE DEF bs
  <1>11. HasList(ForceOne(w))
    BY <1>1, <1>4, <1>7, <1>8, <1>9, <1>10 DEF HasList
  <1>12. ASSUME NEW kth \in 0..(m - 1) PROVE \E i \in DOMAIN bs : kth \in bs[i].sel
    <2>1. CASE kth = 0
      BY <1>1, <1>2, <1>7, <1>8, <2>1
    <2>2. CASE kth # 0
      <3>1. PICK i \in DOMAIN w.analyses : kth \in w.analyses[i].sel
        BY DEF MarkedUpTo
      <3> QED BY <1>1, <1>7, <1>8, <2>2, <3>1
    <2> QED BY <2>1, <2>2
  <1>13. ASSUME NEW i \in DOMAIN bs PROVE bs[i].sel \subseteq 0..(m - 1)
    <2>1. i \in DOMAIN w.analyses /\ w.analyses[i].sel \subseteq 0..(m - 1) /\ 0 \in 0..(m - 1)
      BY <1>1, <1>7 DEF MarkedUpTo
    <2> QED BY <1>8, <2>1
  <1> QED BY <1>9, <1>11, <1>12, <1>13 DEF MarkedUpTo

\* The words of a sentence, all marked like that.
AllMarked(ws, m) == /\ m \in Nat \ {0} /\ Len(ws) \in Nat \ {0} /\ DOMAIN ws = 1..Len(ws)
                    /\ \A n \in 1..Len(ws) : MarkedUpTo(ws[n], m)

\* There are no more sequences then.
LEMMA KbestOfMarked ==
  ASSUME NEW m, NEW ws, AllMarked(ws, m)
  PROVE  num_kbest(ws) \in 0..m
  <1>1. m \in Nat \ {0} /\ MarkedUpTo(ws[1], m) /\ Len(ws) # 0
    <2>1. 1 \in 1..Len(ws)
      BY DEF AllMarked
    <2> QED BY <2>1 DEF AllMarked
  <1> DEFINE P == {0} \cup {1 + max_kbest(a) : a \in Range(ws[1].analyses)}
  <1>2. num_kbest(ws) = Max(P)
    <2>1. ws # <<>>
      BY <1>1
    <2> QED BY <2>1 DEF num_kbest
  <1>3. ASSUME NEW a \in Range(ws[1].analyses) PROVE 1 + max_kbest(a) \in 0..m
    <2>1. a.sel \subseteq 0..(m - 1)
      BY <1>1 DEF MarkedUpTo, Range
    <2>2. CASE a.sel = {}
      BY <1>1, <2>2 DEF max_kbest
    <2>3. CASE a.sel # {}
      <3>1. PICK s : s = a.sel /\ s \in SUBSET (0..(m - 1)) /\ s # {} /\ m - 1 \in Nat
        BY <1>1, <2>1, <2>3
      <3>2. Max(s) \in s
        <4>1. C!Max(s) = Max(s)
          BY DEF C!Max, Max
        <4> QED BY <3>1, <4>1, GreatestOf
      <3>3. max_kbest(a) = Max(s)
        BY <2>3, <3>1 DEF max_kbest
      <3> QED BY <1>1, <3>1, <3>2, <3>3
    <2> QED BY <2>2, <2>3
  <1>4. P \in SUBSET (0..m) /\ P # {} /\ m \in Nat
    BY <1>1, <1>3
  <1> HIDE DEF P
  <1>5. Max(P) \in P
    <2>1. C!Max(P) = Max(P)
      BY DEF C!Max, Max
    <2> QED BY <1>4, <2>1, GreatestOf
  <1> QED BY <1>2, <1>4, <1>5

\* A word that came has its list of analyses.
LEMMA KeptHasList ==
  ASSUME NEW v, GoodWord(v), NEW w, Kept(w, v)
  PROVE  HasList(w) /\ DOMAIN w.analyses = DOMAIN v.analyses
  <1>1. PICK l, as : l = Len(v.analyses) /\ l \in Nat /\ DOMAIN v.analyses = 1..l /\ as = w.analyses
    BY DEF GoodWord
  <1>2. "analyses" \in DOMAIN w /\ as = [i \in 1..l |-> as[i]] /\ DOMAIN as = 1..l
        /\ \A i \in DOMAIN as : "sel" \in DOMAIN as[i]
    BY <1>1 DEF Kept, AsCame
  <1>3. Sequence(as)
    BY <1>1, <1>2, SeqOfFunction DEF Sequence
  <1> QED BY <1>1, <1>2, <1>3 DEF HasList

\* A word of a sentence has a tag.
LEMMA HasTag ==
  ASSUME NEW ws \in Sentences, NEW n \in 1..Len(ws)
  PROVE  TagsOf(ws[n]) # {}
  <1>1. Analysed(ws[n])
    BY SentenceHas, TaggerAssumption DEF SentencesAssumption
  <1>2. PICK a \in Range(ws[n].analyses) : 0 \in a.sel
    BY <1>1 DEF Analysed
  <1>3. PICK o \in DOMAIN ws[n].analyses : a = ws[n].analyses[o]
    BY DEF Range
  <1> QED BY <1>2, <1>3 DEF TagsOf

\* The tagger finds a sequence at least, and as many select some analysis of each word.
LEMMA TaggedMarked ==
  ASSUME TaggerInv, phase = "tagged"
  PROVE  \E m \in 1..opt.kbest : AllMarked(words, m)
  <1>1. /\ input \in Sentences /\ opt.kbest \in Nat \ {0}
        /\ AllKept(words, input) /\ N = Len(input) /\ Len(input) \in Nat \ {0}
        /\ SelectedBy(words, input, trl, Len(Best)) /\ Len(Best) \in Nat /\ Len(Best) <= opt.kbest
    BY InSelect
  <1>2. PICK l : l = Len(Best)
    OBVIOUS
  <1>3. PICK E : /\ KBestOf(Best, E, Seqs(input, N), Scores(input, N))
                 /\ \A m \in 1..Len(Best) : TagsOnPath(m - 1) = E[m] /\ E[m] \in Seqs(input, N)
    BY FoundAre
  <1>4. l # 0
    <2> DEFINE q == [n \in 1..N |-> CHOOSE tag : tag \in TagsOf(input[n])]
    <2>1. \A n \in 1..N : q[n] \in TagsOf(input[n])
      BY <1>1, HasTag
    <2>2. q = [n \in 1..N |-> q[n]]
      OBVIOUS
    <2> HIDE DEF q
    <2>3. q \in Seqs(input, N)
      BY <2>1, <2>2, SeqsAre
    <2>4. (\E kth \in 1..Len(Best) : E[kth] = q) \/ LeftOut(Best, Scores(input, N)[q])
      BY <1>3, <2>3 DEF KBestOf
    <2> QED BY <1>1, <1>2, <2>4 DEF LeftOut
  <1>5. l \in Nat \ {0} /\ l \in 1..opt.kbest
    BY <1>1, <1>2, <1>4
  <1>6. ASSUME NEW n \in 1..Len(input) PROVE MarkedUpTo(words[n], l)
    <2>1. PICK v, w : v = input[n] /\ w = words[n]
      OBVIOUS
    <2>2. GoodWord(v) /\ Kept(w, v)
      BY <1>1, <2>1, WordsGood DEF AllKept
    <2>3. HasList(w) /\ DOMAIN w.analyses = DOMAIN v.analyses
      BY <2>2, KeptHasList
    <2>4. ASSUME NEW i \in DOMAIN w.analyses
          PROVE  w.analyses[i].sel = {kth \in 0..(l - 1) : i \in Likely(v, PathOf(trl, Len(input), kth)[n][2])}
      BY <1>1, <1>2, <2>1, <2>3 DEF SelectedBy
    <2>5. ASSUME NEW kth \in 0..(l - 1) PROVE \E i \in DOMAIN w.analyses : kth \in w.analyses[i].sel
      <3>1. PICK tag : tag = TagsOnPath(kth)[n]
        OBVIOUS
      <3>2. PathOf(trl, Len(input), kth)[n][2] = tag
        BY <1>1, <3>1, PathIsOf DEF TagsOnPath
      <3>3. kth + 1 \in 1..l /\ (kth + 1) - 1 = kth
        BY <1>5
      <3>4. E[kth + 1] \in Seqs(input, N) /\ tag = E[kth + 1][n]
        BY <1>2, <1>3, <3>1, <3>3
      <3>5. tag \in TagsOf(v)
        BY <1>1, <2>1, <3>4, SeqsAre
      <3>6. PICK i \in DOMAIN v.analyses : i \in Likely(v, tag)
        BY <2>2, <3>5, LikelyHasTag
      <3> QED BY <2>3, <2>4, <3>2, <3>6
    <2>6. \A i \in DOMAIN w.analyses : w.analyses[i].sel \subseteq 0..(l - 1)
      BY <2>4
    <2> QED BY <2>1, <2>3, <2>5, <2>6 DEF MarkedUpTo
  <1>7. AllMarked(words, l)
    BY <1>1, <1>5, <1>6 DEF AllMarked, AllKept
  <1> QED BY <1>5, <1>7

\* Forcing keeps the words marked.
LEMMA ForcedMarked ==
  ASSUME NEW m, NEW ws, AllMarked(ws, m), NEW u, u = [n \in 1..Len(ws) |-> ForceOne(ws[n])]
  PROVE  AllMarked(u, m)
  <1>1. Len(ws) \in Nat \ {0} /\ u = [n \in 1..Len(ws) |-> u[n]] /\ m \in Nat \ {0}
    BY DEF AllMarked
  <1>2. Len(u) = Len(ws) /\ DOMAIN u = 1..Len(ws)
    BY <1>1, SeqOfFunction
  <1>3. ASSUME NEW n \in 1..Len(ws) PROVE MarkedUpTo(u[n], m)
    <2>1. MarkedUpTo(ws[n], m) /\ u[n] = ForceOne(ws[n])
      BY DEF AllMarked
    <2> QED BY <1>1, <2>1, ForceMarked
  <1> QED BY <1>1, <1>2, <1>3 DEF AllMarked

\* A part of a contraction that has an analysis is marked for the first sequence.
PartGood(x) == /\ {"from", "to", "analyses"} \subseteq DOMAIN x /\ Sequence(x.analyses)
               /\ \A b \in Range(x.analyses) : "sel" \in DOMAIN b /\ b.sel \subseteq {0}
               /\ Analysed(x)

\* Its place is of no matter.
LEMMA PartMarked ==
  ASSUME NEW x, PartGood(x), NEW a, NEW b, NEW p, p = [x EXCEPT !.from = a, !.to = b]
  PROVE  MarkedUpTo(p, 1)
  <1>1. "analyses" \in DOMAIN p /\ p.analyses = x.analyses
    BY DEF PartGood
  <1>2. PICK as : as = x.analyses /\ Sequence(as)
    BY DEF PartGood
  <1>3. \A i \in DOMAIN as : as[i] \in Range(as)
    BY DEF Range
  <1>4. \A i \in DOMAIN as : "sel" \in DOMAIN as[i] /\ as[i].sel \subseteq {0}
    BY <1>2, <1>3 DEF PartGood
  <1>5. \E i \in DOMAIN as : 0 \in as[i].sel
    BY <1>2 DEF PartGood, Analysed, Range
  <1>6. \A j \in 0..(1 - 1) : j = 0
    OBVIOUS
  <1>7. 0 \in 0..(1 - 1)
    OBVIOUS
  <1> QED BY <1>1, <1>2, <1>4, <1>5, <1>6, <1>7 DEF MarkedUpTo, HasList

\* What stands for a word after retokenization is marked for the first sequence, when the
\* parts of contractions are.
LEMMA RetokenizedMarked ==
  ASSUME NEW w, MarkedUpTo(w, 1),
         \A i \in DOMAIN w.analyses : LET lw == w.analyses[i].retok IN Sequence(lw) /\ \A x \in Range(lw) : PartGood(x)
  PROVE  \E T : /\ Retokenized(w) \in Seq(T) /\ Retokenized(w) # <<>>
                /\ \A x \in Range(Retokenized(w)) : MarkedUpTo(x, 1)
  <1> DEFINE b == selected_begin(w, 0)
             lw == w.analyses[b].retok
  <1>1. b \in DOMAIN w.analyses
    <2>1. HasList(w) /\ 0 \in 0..(1 - 1)
      BY DEF MarkedUpTo
    <2>2. PICK i \in DOMAIN w.analyses : 0 \in w.analyses[i].sel
      BY <2>1 DEF MarkedUpTo
    <2> QED BY <2>1, <2>2, BeginSelected
  <1>2. PICK s : s = lw /\ Sequence(s) /\ \A x \in Range(s) : PartGood(x)
    BY <1>1
  <1>3. Retokenized(w) = IF get_n_selected(w, 0) = 1 /\ s # <<>> THEN Parts(w, s) ELSE <<w>>
    BY <1>2 DEF Retokenized
  <1> HIDE DEF b, lw
  <1>4. CASE get_n_selected(w, 0) = 1 /\ s # <<>>
    <2>1. PICK T : s \in Seq(T)
      BY <1>2 DEF Sequence
    <2>2. PICK l : l = Len(s) /\ l \in Nat \ {0} /\ DOMAIN s = 1..l /\ \A i \in 1..l : s[i] \in Range(s)
      BY <1>4, <2>1, LenProperties, EmptySeq DEF Range
    <2>3. PICK f : Parts(w, s) = [m \in DOMAIN s |-> [s[m] EXCEPT !.from = f[m - 1], !.to = f[m]]]
      BY DEF Parts
    <2>4. PICK p : p = Parts(w, s)
      OBVIOUS
    <2>5. p = [m \in 1..l |-> p[m]] /\ DOMAIN p = 1..l
      BY <2>2, <2>3, <2>4
    <2>6. p \in Seq(Range(p)) /\ Len(p) = l
      BY <2>2, <2>5, SeqOfFunction DEF Range
    <2>7. ASSUME NEW m \in 1..l PROVE MarkedUpTo(p[m], 1)
      <3>1. PICK x, y, z : x = s[m] /\ y = f[m - 1] /\ z = f[m]
        OBVIOUS
      <3>2. PartGood(x) /\ p[m] = [x EXCEPT !.from = y, !.to = z]
        BY <1>2, <2>2, <2>3, <2>4, <3>1
      <3> QED BY <3>2, PartMarked
    <2>8. p # <<>> /\ \A x \in Range(p) : MarkedUpTo(x, 1)
      BY <2>2, <2>5, <2>6, <2>7, Empty DEF Range
    <2> QED BY <1>3, <1>4, <2>4, <2>6, <2>8
  <1>5. CASE ~(get_n_selected(w, 0) = 1 /\ s # <<>>)
    <2>1. PICK p : p = <<w>>
      OBVIOUS
    <2>2. Range(p) = {w} /\ p \in Seq({w}) /\ p # <<>>
      BY <2>1 DEF Range
    <2> QED BY <1>3, <1>5, <2>1, <2>2
  <1> QED BY <1>4, <1>5

\* When words that a contraction is made of are not in every sequence that is parsed.
Excused ==
  \/ opt.retok /\ opt.kbest > 1
  \/ opt.retok /\ \E w \in Range(input) : \E a \in Range(w.analyses) : \E v \in Range(a.retok) : ~Analysed(v)

\* The parts of contractions are as the assumption has them.
LEMMA PartsGood ==
  ASSUME NEW ws \in Sentences, NEW n \in 1..Len(ws), NEW i \in DOMAIN ws[n].analyses,
         \A x \in Range(ws[n].analyses[i].retok) : Analysed(x)
  PROVE  /\ Sequence(ws[n].analyses[i].retok)
         /\ \A x \in Range(ws[n].analyses[i].retok) : PartGood(x)
  <1>1. PICK a : a = ws[n].analyses[i] /\ a \in Range(ws[n].analyses)
    BY DEF Range
  <1>2. n \in DOMAIN ws
    BY SentenceHas
  <1>3. /\ a.retok \in Seq(Range(a.retok))
        /\ \A v \in Range(a.retok) :
             /\ {"from", "to", "analyses"} \subseteq DOMAIN v
             /\ v.analyses \in Seq(Range(v.analyses))
             /\ \A b \in Range(v.analyses) : "sel" \in DOMAIN b /\ b.sel \subseteq {0}
    BY <1>1, <1>2, TaggerAssumption DEF SentencesAssumption
  <1>4. ASSUME NEW v \in Range(a.retok) PROVE PartGood(v)
    <2>1. Sequence(v.analyses)
      BY <1>3 DEF Sequence
    <2> QED BY <1>1, <1>3, <1>4, <2>1 DEF PartGood
  <1>5. Sequence(a.retok)
    BY <1>3 DEF Sequence
  <1> QED BY <1>1, <1>4, <1>5

\* Retokenization leaves a sentence marked of which one sequence was found.
LEMMA FlatMarked ==
  ASSUME NEW in \in Sentences, NEW ws, AllKept(ws, in), AllMarked(ws, 1),
         \A n \in 1..Len(in) : \A i \in DOMAIN in[n].analyses : \A x \in Range(in[n].analyses[i].retok) : Analysed(x)
  PROVE  AllMarked(FlattenSeq([n \in 1..Len(ws) |-> Retokenized(ws[n])]), 1)
  <1>1. PICK l : l = Len(ws) /\ l \in Nat \ {0} /\ l = Len(in)
    BY DEF AllMarked, AllKept
  <1>2. ASSUME NEW n \in 1..l
        PROVE  \E T : /\ Retokenized(ws[n]) \in Seq(T) /\ Retokenized(ws[n]) # <<>>
                      /\ \A x \in Range(Retokenized(ws[n])) : MarkedUpTo(x, 1)
    <2>1. PICK v, w : v = in[n] /\ w = ws[n]
      OBVIOUS
    <2>2. GoodWord(v) /\ Kept(w, v) /\ MarkedUpTo(w, 1)
      BY <1>1, <2>1, WordsGood DEF AllKept, AllMarked
    <2>3. ASSUME NEW i \in DOMAIN w.analyses PROVE Sequence(w.analyses[i].retok) /\ \A x \in Range(w.analyses[i].retok) : PartGood(x)
      <3>1. i \in DOMAIN v.analyses /\ w.analyses[i].retok = v.analyses[i].retok
        BY <2>2 DEF Kept, AsCame
      <3>2. Sequence(in[n].analyses[i].retok) /\ \A x \in Range(in[n].analyses[i].retok) : PartGood(x)
        BY <1>1, <2>1, <3>1, PartsGood
      <3> QED BY <2>1, <3>1, <3>2
    <2>4. \A i \in DOMAIN w.analyses : LET lw == w.analyses[i].retok IN Sequence(lw) /\ \A x \in Range(lw) : PartGood(x)
      BY <2>3
    <2> QED BY <2>1, <2>2, <2>4, RetokenizedMarked
  <1> DEFINE f == [n \in 1..l |-> Retokenized(ws[n])]
             T == UNION {Range(f[n]) : n \in 1..l}
  <1>3. ASSUME NEW n \in 1..l PROVE f[n] \in Seq(T) /\ f[n] # <<>> /\ \A x \in Range(f[n]) : MarkedUpTo(x, 1)
    <2>1. PICK U : f[n] \in Seq(U) /\ f[n] # <<>> /\ \A x \in Range(f[n]) : MarkedUpTo(x, 1)
      BY <1>2
    <2>2. PICK s : s = f[n] /\ Range(s) \subseteq T
      OBVIOUS
    <2> HIDE DEF f, T
    <2>3. s = [j \in 1..Len(s) |-> s[j]] /\ Len(s) \in Nat /\ \A j \in 1..Len(s) : s[j] \in Range(s)
      BY <2>1, <2>2, LenProperties DEF Range
    <2>4. s \in Seq(T)
      BY <2>2, <2>3
    <2> QED BY <2>1, <2>2, <2>4
  <1>4. f = [n \in 1..l |-> f[n]]
    OBVIOUS
  <1>5. FlattenSeq([n \in 1..Len(ws) |-> Retokenized(ws[n])]) = FlattenSeq(f)
    BY <1>1
  <1> HIDE DEF f, T
  <1>6. f \in Seq(Seq(T)) /\ Len(f) = l
    BY <1>1, <1>3, <1>4, RowSeq
  <1>7. PICK q : q = FlattenSeq(f) /\ q \in Seq(T) /\ Range(q) = UNION {Range(f[n]) : n \in 1..l}
    BY <1>6, FlattenType, FlattenRange
  <1>8. Len(q) \in Nat /\ DOMAIN q = 1..Len(q) /\ \A n \in 1..Len(q) : q[n] \in Range(q)
    BY <1>7, LenProperties DEF Range
  <1>9. Len(q) # 0
    <2>1. 1 \in 1..l
      BY <1>1
    <2>2. PICK s : s = f[1] /\ s \in Seq(T) /\ s # <<>>
      BY <1>3, <2>1
    <2>3. s[1] \in Range(s)
      <3>1. Len(s) \in Nat \ {0} /\ DOMAIN s = 1..Len(s)
        BY <2>2, LenProperties, EmptySeq
      <3>2. 1 \in DOMAIN s
        BY <3>1
      <3> QED BY <3>2 DEF Range
    <2>4. s[1] \in Range(q)
      BY <1>7, <2>1, <2>2, <2>3
    <2> QED BY <1>8, <2>4 DEF Range
  <1>10. \A n \in 1..Len(q) : MarkedUpTo(q[n], 1)
    BY <1>3, <1>7, <1>8
  <1>11. AllMarked(q, 1)
    BY <1>8, <1>9, <1>10 DEF AllMarked
  <1> QED BY <1>5, <1>7, <1>11

\* From the tagger on, each sequence that is left selects some analysis of each word.
Chosen == \E m \in 1..opt.kbest : AllMarked(words, m)

\* What the tagger owes to the parser.
MarksInv == /\ phase = "retok" => Chosen
            /\ phase \in {"forced", "done"} => Excused \/ Chosen

\* The steps after the selection keep to it: forcing,
LEMMA MarksForceTagged ==
  ASSUME TaggerInv, ForceTagged
  PROVE  MarksInv'
  <1>1. phase = "tagged" /\ phase' = "retok" /\ opt' = opt /\ (words' = words \/ words' = [n \in 1..Len(words) |-> ForceOne(words[n])])
    BY DEF ForceTagged, force_select, N
  <1>2. PICK m \in 1..opt.kbest : AllMarked(words, m)
    BY <1>1, TaggedMarked
  <1>3. AllMarked(words', m)
    BY <1>1, <1>2, ForcedMarked
  <1> QED BY <1>1, <1>3 DEF MarksInv, Chosen

\* retokenization,
LEMMA MarksRetokenize ==
  ASSUME TaggerInv, MarksInv, retokenize
  PROVE  MarksInv'
  <1>1. /\ phase = "retok" /\ phase' = "forced" /\ opt' = opt /\ input' = input
        /\ words' = IF opt.retok THEN FlattenSeq([n \in 1..Len(words) |-> Retokenized(words[n])]) ELSE words
    BY DEF retokenize, N
  <1>2. PICK m \in 1..opt.kbest : AllMarked(words, m)
    BY <1>1 DEF MarksInv, Chosen
  <1>3. input \in Sentences /\ opt \in Options /\ AllKept(words, input)
    BY <1>1 DEF TaggerInv, InSentence, AsReceived
  <1>4. CASE ~opt.retok
    BY <1>1, <1>2, <1>4 DEF MarksInv, Chosen
  <1>5. CASE opt.retok /\ ~Excused
    <2>1. opt.kbest = 1 /\ m = 1
      BY <1>3, <1>5, KbestNumber DEF Excused
    <2>2. ASSUME NEW n \in 1..Len(input), NEW i \in DOMAIN input[n].analyses, NEW x \in Range(input[n].analyses[i].retok)
          PROVE  Analysed(x)
      <3>1. input[n] \in Range(input) /\ input[n].analyses[i] \in Range(input[n].analyses)
        BY <1>3, SentenceHas DEF Range
      <3> QED BY <1>5, <3>1 DEF Excused
    <2>3. AllMarked(FlattenSeq([n \in 1..Len(words) |-> Retokenized(words[n])]), 1)
      BY <1>2, <1>3, <2>1, <2>2, FlatMarked
    <2>4. AllMarked(words', 1) /\ 1 \in 1..opt'.kbest
      BY <1>1, <1>5, <2>1, <2>3
    <2> QED BY <1>1, <2>4 DEF MarksInv, Chosen
  <1>6. CASE Excused
    BY <1>1, <1>6 DEF MarksInv, Excused
  <1> QED BY <1>4, <1>5, <1>6

\* and forcing again.
LEMMA MarksForceRetokenized ==
  ASSUME TaggerInv, MarksInv, ForceRetokenized
  PROVE  MarksInv'
  <1>1. /\ phase = "forced" /\ phase' = "done" /\ opt' = opt /\ input' = input
        /\ (words' = words \/ words' = [n \in 1..Len(words) |-> ForceOne(words[n])])
    BY DEF ForceRetokenized, force_select, N
  <1>2. CASE Excused
    BY <1>1, <1>2 DEF MarksInv, Excused
  <1>3. CASE ~Excused
    <2>1. PICK m \in 1..opt.kbest : AllMarked(words, m)
      BY <1>1, <1>3 DEF MarksInv, Chosen
    <2>2. AllMarked(words', m)
      BY <1>1, <2>1, ForcedMarked
    <2> QED BY <1>1, <2>2 DEF MarksInv, Chosen
  <1> QED BY <1>2, <1>3

\* The steps before are none of its concern.
LEMMA MarksTag ==
  ASSUME TaggerInv, MarksInv, Tag
  PROVE  MarksInv'
  <1>1. CASE Annotate \/ Column \/ Terminate \/ SelectPath \/ EndSelect
    <2>1. phase' \notin {"retok", "forced", "done"}
      BY <1>1 DEF Annotate, Column, Terminate, SelectPath, EndSelect
    <2> QED BY <2>1 DEF MarksInv
  <1>2. CASE ForceNothing
    BY <1>2 DEF ForceNothing, MarksInv
  <1> QED BY <1>1, <1>2, MarksForceTagged, MarksRetokenize, MarksForceRetokenized DEF Tag

\* Nothing happens.
LEMMA MarksStutter ==
  ASSUME MarksInv, UNCHANGED tagger
  PROVE  MarksInv'
  BY DEF MarksInv, Chosen, Excused, tagger

-----------------------------------------------------------------------------
(* The grammar that was read.                                                *)

\* What the reader keeps of a grammar is fit for the parser: symbols have names and no
\* condition, those of the right sides of rules apart.
Symbols(S)  == NoSym \notin S /\ IsFiniteSet(S) /\ \A s \in S : s.cond = NoCond
GramInv ==
  /\ file \in Files /\ pos \in Nat \ {0}
  /\ DOMAIN gram = {"rules", "wild", "nonterminal", "prior", "hidden", "flat", "notop", "onlytop", "start"}
  /\ Sequence(gram.rules) /\ Sequence(gram.wild)
  /\ Symbols(gram.nonterminal)
  /\ gram.start = NoSym \/ gram.start \in gram.nonterminal

\* A grammar with a start symbol is one the parser can use.
LEMMA SaneGrammar ==
  ASSUME GramInv, gram.start # NoSym
  PROVE  Sane(gram)
  BY DEF GramInv, Symbols, Sane

\* A file is a sequence of tokens.
LEMMA FileLength ==
  ASSUME file \in Files
  PROVE  Len(file) \in Nat /\ DOMAIN file = 1..Len(file)
  <1>1. PICK T : file \in Seq(T)
    BY FilesAssumption
  <1> QED BY <1>1, LenProperties

\* The symbol that is read as the head of a rule, or as the start symbol.
LEMMA CategoryIs ==
  ASSUME GramInv, To(2) \/ To(9)
  PROVE  Category # NoSym /\ Category.cond = NoCond
  <1> DEFINE u == CHOOSE tr \in trans : tr[1] = stat /\ tr[2] = Tok.kind
  <1>1. PICK n \in {2, 9} : NewStat(stat, Tok.kind) = n /\ pos <= Len(file)
    BY DEF To
  <1>2. \E tr \in trans : tr[1] = stat /\ tr[2] = Tok.kind
    BY <1>1 DEF NewStat
  <1>3. u \in trans /\ u[2] = Tok.kind
    BY <1>2
  <1>4. u[3] = n
    BY <1>1, <1>2 DEF NewStat
  <1> HIDE DEF u
  <1>5. u[2] = "CATEGORY"
    BY <1>1, <1>3, <1>4 DEF trans, Directives
  <1>6. pos \in DOMAIN file /\ Tok = file[pos]
    BY <1>1, FileLength DEF GramInv, Tok
  <1>7. Tok.text.cat # <<>>
    BY <1>3, <1>5, <1>6, FilesAssumption DEF GramInv
  <1> QED BY <1>7 DEF Category, NoSym

\* One more nonterminal.
LEMMA OneMoreSymbol ==
  ASSUME NEW S, Symbols(S), NEW s, s # NoSym, s.cond = NoCond
  PROVE  Symbols(S \cup {s})
  BY FS_AddElement DEF Symbols

\* The reader goes forwards.
LEMMA GoesForward ==
  ASSUME file \in Files, pos \in Nat \ {0}, Read
  PROVE  pos' \in Nat \ {0} /\ file' = file
  <1>1. CASE Error
    <2> DEFINE ends == {p \in pos..Len(file) : file[p].kind \in {"DOT", "UNKNOWN"}}
    <2>1. /\ IF ends = {} THEN pos' = Len(file) + 1 /\ stat' = 1
             ELSE LET p == CHOOSE q \in ends : \A r \in ends : q <= r IN
                  IF file[p].kind = "DOT" THEN pos' = p + 1 /\ stat' = 1 ELSE pos' = p /\ stat' = HUNG
          /\ file' = file
      BY <1>1 DEF Error
    <2>2. ends \in SUBSET Nat /\ \A p \in ends : p # 0
      BY FileLength
    <2> HIDE DEF ends
    <2>3. CASE ends = {}
      BY <2>1, <2>3, FileLength
    <2>4. CASE ends # {}
      <3>1. \E q \in ends : \A r \in ends : q <= r
        BY <2>2, <2>4, Least
      <3>2. PICK p : p = CHOOSE q \in ends : \A r \in ends : q <= r
        OBVIOUS
      <3>3. p \in ends
        BY <3>1, <3>2
      <3>4. pos' = p + 1 \/ pos' = p
        BY <2>1, <2>4, <3>2
      <3> QED BY <2>1, <2>2, <3>3, <3>4
    <2> QED BY <2>3, <2>4
  <1>2. CASE ~Error
    <2>1. \E n : To(n)
      BY <1>2 DEF Read, EndRule, EndOther, RuleHead, Arrow, Comma, Bar, RightSymbol, Specific, Directive,
         Listed, NotAllowed, StartDirective, StartSymbol, GovernorMark
    <2> QED BY <2>1 DEF To
  <1> QED BY <1>1, <1>2

\* Every step of the reader keeps the grammar fit.
LEMMA GramRead ==
  ASSUME GramInv, Read
  PROVE  GramInv'
  <1>1. pos' \in Nat \ {0} /\ file' = file
    BY GoesForward DEF GramInv
  <1> DEFINE Keeps(g) == /\ DOMAIN g = {"rules", "wild", "nonterminal", "prior", "hidden", "flat", "notop", "onlytop", "start"}
                         /\ Sequence(g.rules) /\ Sequence(g.wild) /\ Symbols(g.nonterminal)
                         /\ g.start = NoSym \/ g.start \in g.nonterminal
  <1>2. PICK g : g = gram /\ Keeps(g)
    BY DEF GramInv
  <1> SUFFICES Keeps(gram')
    BY <1>1 DEF GramInv, Symbols
  <1>3. CASE UNCHANGED gram
    BY <1>2, <1>3
  <1>4. CASE StoreRule
    <2>1. PICK r, w : gram' = [g EXCEPT !.rules = Append(g.rules, r), !.wild = w] /\ (w = g.wild \/ w = Append(g.wild, r))
      <3>1. PICK r : gram' = [gram EXCEPT !.rules = Append(@, r), !.wild = IF wildcard THEN Append(@, r) ELSE @]
        BY <1>4 DEF StoreRule
      <3> QED BY <1>2, <3>1
    <2>2. Sequence(Append(g.rules, r)) /\ Sequence(Append(g.wild, r))
      <3>1. Sequence(g.rules) /\ Sequence(g.wild)
        BY <1>2 DEF Sequence
      <3>2. Sequence(Append(g.rules, r)) /\ Sequence(Append(g.wild, r))
        BY <3>1, Appended
      <3> QED BY <3>2 DEF Sequence
    <2>3. PICK rs : rs = Append(g.rules, r)
      OBVIOUS
    <2>4. Sequence(rs) /\ Sequence(w) /\ gram' = [g EXCEPT !.rules = rs, !.wild = w]
      BY <1>2, <2>1, <2>2, <2>3
    <2>5. /\ DOMAIN gram' = DOMAIN g /\ gram'.rules = rs /\ gram'.wild = w
          /\ gram'.nonterminal = g.nonterminal /\ gram'.start = g.start
      BY <1>2, <2>4
    <2> QED BY <1>2, <2>4, <2>5
  <1>5. CASE RuleHead
    <2>1. PICK s : s = Category /\ s # NoSym /\ s.cond = NoCond
      BY <1>5, CategoryIs DEF RuleHead
    <2>2. gram' = [g EXCEPT !.nonterminal = g.nonterminal \cup {s}]
      BY <1>2, <1>5, <2>1 DEF RuleHead
    <2>3. PICK S : S = g.nonterminal \cup {s} /\ Symbols(S)
      BY <1>2, <2>1, OneMoreSymbol
    <2>4. /\ DOMAIN gram' = DOMAIN g /\ gram'.rules = g.rules /\ gram'.wild = g.wild
          /\ gram'.nonterminal = S /\ gram'.start = g.start
      BY <1>2, <2>2, <2>3
    <2> QED BY <1>2, <2>3, <2>4
  <1>6. CASE StartSymbol
    <2>1. PICK s : s = Category /\ s # NoSym /\ s.cond = NoCond
      BY <1>6, CategoryIs DEF StartSymbol
    <2>2. gram' = [g EXCEPT !.start = s, !.nonterminal = g.nonterminal \cup {s}]
      BY <1>2, <1>6, <2>1 DEF StartSymbol
    <2>3. PICK S : S = g.nonterminal \cup {s} /\ Symbols(S)
      BY <1>2, <2>1, OneMoreSymbol
    <2>4. /\ DOMAIN gram' = DOMAIN g /\ gram'.rules = g.rules /\ gram'.wild = g.wild
          /\ gram'.nonterminal = S /\ gram'.start = s
      BY <1>2, <2>2, <2>3
    <2> QED BY <1>2, <2>3, <2>4
  <1>7. CASE Listed
    <2>1. \E x : \/ gram' = [gram EXCEPT !.prior = x] \/ gram' = [gram EXCEPT !.hidden = x]
                 \/ gram' = [gram EXCEPT !.flat = x] \/ gram' = [gram EXCEPT !.notop = x]
                 \/ gram' = [gram EXCEPT !.onlytop = x]
      <3>1. CASE gram' = [gram EXCEPT !.prior = Append(@, Category)]
        BY <3>1
      <3>2. CASE gram' = [gram EXCEPT !.hidden = @ \cup {Category}]
        BY <3>2
      <3>3. CASE gram' = [gram EXCEPT !.flat = @ \cup {Category}]
        BY <3>3
      <3>4. CASE gram' = [gram EXCEPT !.notop = @ \cup {Category}]
        BY <3>4
      <3>5. CASE gram' = [gram EXCEPT !.onlytop = @ \cup {Category}]
        BY <3>5
      <3> QED BY <1>7, <3>1, <3>2, <3>3, <3>4, <3>5 DEF Listed
    <2>2. PICK x : \/ gram' = [gram EXCEPT !.prior = x] \/ gram' = [gram EXCEPT !.hidden = x]
                   \/ gram' = [gram EXCEPT !.flat = x] \/ gram' = [gram EXCEPT !.notop = x]
                   \/ gram' = [gram EXCEPT !.onlytop = x]
      BY <2>1
    <2>3. /\ DOMAIN gram' = DOMAIN g /\ gram'.rules = g.rules /\ gram'.wild = g.wild
          /\ gram'.nonterminal = g.nonterminal /\ gram'.start = g.start
      BY <1>2, <2>2
    <2> QED BY <1>2, <2>3
  <1> QED BY <1>3, <1>4, <1>5, <1>6, <1>7 DEF Read, Error, EndRule, EndOther, Arrow, Comma, Bar, RightSymbol, Specific,
     Directive, NotAllowed, StartDirective, GovernorMark

\* Nothing is read.
LEMMA GramStutter ==
  ASSUME GramInv, UNCHANGED reader
  PROVE  GramInv'
  BY DEF GramInv, Symbols, reader

\* Before the first token there is no symbol.
LEMMA GramInit == InitGrammar => GramInv
  <1> SUFFICES ASSUME InitGrammar PROVE GramInv
    OBVIOUS
  <1>1. gram = [rules |-> <<>>, wild |-> <<>>, nonterminal |-> {}, prior |-> <<>>, hidden |-> {},
                flat |-> {}, notop |-> {}, onlytop |-> {}, start |-> NoSym] /\ file \in Files /\ pos = 1
    BY DEF InitGrammar
  <1>2. Sequence(<<>>)
    BY Empty DEF Sequence
  <1>3. Symbols({})
    BY FS_EmptySet DEF Symbols
  <1> QED BY <1>1, <1>2, <1>3 DEF GramInv

-----------------------------------------------------------------------------
(* The parser, and the analysis as a whole.                                  *)

\* What the cells of the words are like while the chart is filled, of a sentence whose
\* words have analyses, and with a grammar that has a start symbol.
Fine == gram.start # NoSym /\ ~Excused
FormsInCells == \A n \in 0..(size - 1) : <<0, n>> \in DOMAIN cells /\ HasForm(cells[<<0, n>>])

\* Where the parser is, and how far the chart is filled.
ParserInv ==
  /\ at \in {"idle", "load", "fill", "tree", "done", "crash"}
  /\ stage \in {"read", "tag"} => at = "idle"
  /\ stage = "parse" => phase = "done"
  /\ at \in {"load", "fill", "tree"} => k \in Nat
  /\ at = "fill" => next[1] \in Nat \ {0} /\ (Fine => FormsInCells)
  /\ at = "crash" => ~Fine

\* The inductive invariant of the analysis.
AnalysisInv == TaggerInv /\ MarksInv /\ GramInv /\ ParserInv

\* Some sequence selects of each word the analyses that its cell is loaded with.
LEMMA Loaded ==
  ASSUME Sane(gram), k \in Nat, Chosen, load_sentence, UNCHANGED words
  PROVE  FormsInCells'
  <1>1. /\ k < num_kbest(words) /\ words' = words
        /\ cells' = [c \in {<<0, n - 1>> : n \in DOMAIN words} |->
                      C!WordCell(gram, words[c[2] + 1].form, Selected(words[c[2] + 1], k), c)]
    BY DEF load_sentence
  <1>2. PICK m : AllMarked(words, m)
    BY DEF Chosen
  <1>3. m \in Nat \ {0} /\ Len(words) \in Nat \ {0} /\ DOMAIN words = 1..Len(words)
        /\ \A n \in 1..Len(words) : MarkedUpTo(words[n], m)
    BY <1>2 DEF AllMarked
  <1>4. k \in 0..(m - 1)
    <2>1. num_kbest(words) \in 0..m
      BY <1>2, KbestOfMarked
    <2> QED BY <1>1, <1>3, <2>1
  <1>5. ASSUME NEW n \in 0..(Len(words) - 1)
        PROVE  <<0, n>> \in DOMAIN cells' /\ HasForm(cells'[<<0, n>>])
    <2>1. n + 1 \in 1..Len(words) /\ (n + 1) - 1 = n
      BY <1>3
    <2>2. PICK c : c = <<0, n>>
      OBVIOUS
    <2>11. c[2] = n
      BY <2>2
    <2>3. c \in {<<0, o - 1>> : o \in DOMAIN words}
      BY <1>3, <2>1, <2>2
    <2>4. PICK w : w = words[n + 1] /\ MarkedUpTo(w, m)
      BY <1>3, <2>1
    <2>5. HasList(w)
      BY <2>4 DEF MarkedUpTo
    <2>6. PICK i \in DOMAIN w.analyses : k \in w.analyses[i].sel
      BY <1>4, <2>4 DEF MarkedUpTo
    <2>7. PICK A, as, form : as = Selected(w, k) /\ as \in Seq(A) /\ as # <<>> /\ form = w.form
      BY <2>5, <2>6, SelectedSome
    <2>8. HasForm(C!WordCell(gram, form, as, c))
      BY <2>7, CellOfWord
    <2>9. c \in DOMAIN cells' /\ cells'[c] = C!WordCell(gram, words[c[2] + 1].form, Selected(words[c[2] + 1], k), c)
      BY <1>1, <2>3
    <2>10. cells'[c] = C!WordCell(gram, form, as, c)
      BY <2>4, <2>7, <2>9, <2>11
    <2> QED BY <2>2, <2>8, <2>9, <2>10
  <1> QED BY <1>1, <1>5 DEF FormsInCells, size

\* Filling other cells leaves those of the words.
LEMMA CellFilled ==
  ASSUME FillCell, UNCHANGED words, next[1] \in Nat \ {0}
  PROVE  next'[1] \in Nat \ {0} /\ (FormsInCells => FormsInCells')
  <1>1. PICK l, i, x : /\ l = next[1] /\ l \in Nat \ {0} /\ i = next[2]
                       /\ next' = IF i + 1 < size - l THEN <<l, i + 1>> ELSE <<l + 1, 0>>
                       /\ x = C!LongCell(gram, cells, l, i)
                       /\ cells' = [c \in DOMAIN cells \cup {next} |-> IF c = next THEN x ELSE cells[c]]
    BY DEF FillCell
  <1>2. next'[1] \in Nat \ {0}
    <2>1. CASE i + 1 < size - l
      <3>1. PICK y : next' = <<l, y>>
        BY <1>1, <2>1
      <3> QED BY <1>1, <3>1
    <2>2. CASE ~(i + 1 < size - l)
      BY <1>1, <2>2
    <2> QED BY <2>1, <2>2
  <1>3. ASSUME FormsInCells, NEW n \in 0..(size - 1)
        PROVE  <<0, n>> \in DOMAIN cells' /\ HasForm(cells'[<<0, n>>])
    <2>1. PICK c : c = <<0, n>>
      OBVIOUS
    <2>2. c # next
      <3>1. c[1] = 0
        BY <2>1
      <3> QED BY <1>1, <3>1
    <2>3. c \in DOMAIN cells /\ HasForm(cells[c])
      BY <1>3, <2>1 DEF FormsInCells
    <2>4. c \in DOMAIN cells' /\ cells'[c] = cells[c]
      BY <1>1, <2>2, <2>3
    <2> QED BY <2>1, <2>3, <2>4
  <1> QED BY <1>2, <1>3 DEF FormsInCells, size

\* The parser gives up only on a sentence that is not fine.
LEMMA RootFound ==
  ASSUME GramInv, ParserInv, MarksInv, phase = "done", FindRoot, UNCHANGED <<words, gram, opt, input>>
  PROVE  at' \in {"tree", "crash"} /\ (at' = "crash" => ~Fine) /\ k' = k
  <1>1. PICK cov : /\ cov = C!cover(gram, cells, size, size - 1, 0)
                   /\ at' = "tree" \/ (at' = "crash" /\ C!NoCell \in Range(cov))
                   /\ at = "fill" /\ k' = k
    BY DEF FindRoot
  <1>2. ASSUME at' = "crash", Fine PROVE FALSE
    <2>1. Sane(gram) /\ FormsInCells
      BY <1>1, <1>2, SaneGrammar DEF ParserInv, Fine
    <2>2. size \in Nat \ {0}
      BY <1>2 DEF MarksInv, Chosen, AllMarked, Fine, size
    <2>3. FormsOver(gram, cells, size)
      BY <2>1 DEF FormsOver, FormsInCells
    <2>4. C!NoCell \notin Range(C!cover(gram, cells, size, size - 1, 0))
      BY <2>2, <2>3, CoverFound
    <2> QED BY <1>1, <1>2, <2>4
  <1> QED BY <1>1, <1>2

\* Every step of the parser keeps what is said of it.
LEMMA ParserParses ==
  ASSUME GramInv, ParserInv, MarksInv, phase = "done", stage = "parse", Parse, UNCHANGED <<reader, tagger>>
  PROVE  /\ at' \in {"load", "fill", "tree", "done", "crash"}
         /\ at' \in {"load", "fill", "tree"} => k' \in Nat
         /\ at' = "fill" => next'[1] \in Nat \ {0} /\ (Fine => FormsInCells')
         /\ at' = "crash" => ~Fine
  <1>1. UNCHANGED <<words, gram, opt, input>>
    BY DEF reader, tagger
  <1>2. CASE Analyze
    BY <1>2 DEF Analyze
  <1>3. CASE load_sentence
    <2>1. at' = "fill" /\ next' = <<1, 0>> /\ k' = k /\ at = "load" /\ k \in Nat
      BY <1>3 DEF load_sentence, ParserInv
    <2>2. ASSUME Fine PROVE FormsInCells'
      <3>1. Sane(gram) /\ Chosen
        BY <2>2, SaneGrammar DEF Fine, MarksInv
      <3> QED BY <1>1, <1>3, <2>1, <3>1, Loaded
    <2> QED BY <2>1, <2>2
  <1>4. CASE FillCell
    <2>1. at' = at /\ at = "fill" /\ k' = k
      BY <1>4 DEF FillCell
    <2>2. k \in Nat /\ next[1] \in Nat \ {0} /\ (Fine => FormsInCells)
      BY <2>1 DEF ParserInv
    <2> QED BY <1>1, <1>4, <2>1, <2>2, CellFilled
  <1>5. CASE FindRoot
    <2>1. k \in Nat
      BY <1>5 DEF FindRoot, ParserInv
    <2> QED BY <1>1, <1>5, <2>1, RootFound
  <1>6. CASE GetTree
    BY <1>6 DEF GetTree, ParserInv
  <1>7. CASE Parsed
    BY <1>7 DEF Parsed
  <1> QED BY <1>2, <1>3, <1>4, <1>5, <1>6, <1>7 DEF Parse

\* Every step of the tagger keeps the inductive invariant of the tagger.
LEMMA InvTag ==
  ASSUME TaggerInv, Tag
  PROVE  TaggerInv'
  BY InvAnnotate, InvColumn, InvTerminate, InvSelectPath, InvEndSelect, InvForceTagged,
     InvRetokenize, InvForceRetokenized, InvForceNothing DEF Tag

\* Every step of the analysis keeps the whole.
LEMMA AnalysisStep ==
  ASSUME AnalysisInv, [Next]_vars
  PROVE  AnalysisInv'
  <1>0. TaggerInv /\ MarksInv /\ GramInv /\ ParserInv
    BY DEF AnalysisInv
  <1>1. CASE ReadStep
    <2>1. stage = "read" /\ Read /\ UNCHANGED tagger /\ UNCHANGED <<at, stage>>
      BY <1>1 DEF ReadStep, parser
    <2>2. TaggerInv' /\ MarksInv' /\ GramInv'
      BY <1>0, <2>1, InvStutter, MarksStutter, GramRead
    <2>3. ParserInv'
      BY <1>0, <2>1 DEF ParserInv
    <2> QED BY <2>2, <2>3 DEF AnalysisInv
  <1>2. CASE TagSentence
    <2>1. PICK ws \in Sentences : Receive(ws)
      BY <1>2 DEF TagSentence
    <2>2. stage = "read" /\ stage' = "tag" /\ UNCHANGED reader /\ at' = at
      BY <1>2 DEF TagSentence, parser
    <2>3. TaggerInv' /\ GramInv'
      BY <1>0, <2>1, <2>2, InvReceive, GramStutter
    <2>4. MarksInv'
      BY <2>1 DEF Receive, MarksInv
    <2>5. ParserInv'
      BY <1>0, <2>2 DEF ParserInv
    <2> QED BY <2>3, <2>4, <2>5 DEF AnalysisInv
  <1>3. CASE TagStep
    <2>1. stage = "tag" /\ Tag /\ stage' = (IF phase' = "done" THEN "parse" ELSE stage) /\ UNCHANGED reader /\ at' = at
      BY <1>3 DEF TagStep, parser
    <2>2. TaggerInv' /\ MarksInv' /\ GramInv'
      BY <1>0, <2>1, InvTag, MarksTag, GramStutter
    <2>3. ParserInv'
      BY <1>0, <2>1 DEF ParserInv
    <2> QED BY <2>2, <2>3 DEF AnalysisInv
  <1>4. CASE ParseStep
    <2>1. /\ stage = "parse" /\ Parse /\ UNCHANGED reader /\ UNCHANGED tagger
          /\ stage' = IF at' = "done" THEN "depend" ELSE stage
      BY <1>4 DEF ParseStep
    <2>2. TaggerInv' /\ MarksInv' /\ GramInv'
      BY <1>0, <2>1, InvStutter, MarksStutter, GramStutter
    <2>3. phase = "done" /\ phase' = phase
      BY <1>0, <2>1 DEF ParserInv, tagger
    <2>4. /\ at' \in {"load", "fill", "tree", "done", "crash"}
          /\ at' \in {"load", "fill", "tree"} => k' \in Nat
          /\ at' = "fill" => next'[1] \in Nat \ {0} /\ (Fine => FormsInCells')
          /\ at' = "crash" => ~Fine
      BY <1>0, <2>1, <2>3, ParserParses
    <2>5. Fine' <=> Fine
      BY <2>1 DEF Fine, Excused, tagger, reader
    <2>6. ParserInv'
      BY <2>1, <2>3, <2>4, <2>5 DEF ParserInv
    <2> QED BY <2>2, <2>6 DEF AnalysisInv
  <1>5. CASE DependStep
    <2>1. stage = "depend" /\ UNCHANGED reader /\ UNCHANGED tagger /\ UNCHANGED <<at, k, cells, next, stage>>
      BY <1>5 DEF DependStep
    <2>2. TaggerInv' /\ MarksInv' /\ GramInv'
      BY <1>0, <2>1, InvStutter, MarksStutter, GramStutter
    <2>3. UNCHANGED <<gram, opt, input, words, phase>>
      BY <2>1 DEF reader, tagger
    <2>4. ParserInv'
      BY <1>0, <2>1, <2>3 DEF ParserInv, Fine, Excused, FormsInCells, size
    <2> QED BY <2>2, <2>4 DEF AnalysisInv
  <1>6. CASE UNCHANGED vars
    <2>1. UNCHANGED reader /\ UNCHANGED tagger /\ UNCHANGED <<at, k, cells, next, stage>>
      BY <1>6 DEF vars, parser
    <2>2. TaggerInv' /\ MarksInv' /\ GramInv'
      BY <1>0, <2>1, InvStutter, MarksStutter, GramStutter
    <2>3. UNCHANGED <<gram, opt, input, words, phase>>
      BY <2>1 DEF reader, tagger
    <2>4. ParserInv'
      BY <1>0, <2>1, <2>3 DEF ParserInv, Fine, Excused, FormsInCells, size
    <2> QED BY <2>2, <2>4 DEF AnalysisInv
  <1>7. CASE Finished
    BY <1>6, <1>7 DEF Finished
  <1> QED BY <1>1, <1>2, <1>3, <1>4, <1>5, <1>6, <1>7 DEF Next

\* It holds at the beginning.
LEMMA AnalysisBegins == Init => AnalysisInv
  <1> SUFFICES ASSUME Init PROVE AnalysisInv
    OBVIOUS
  <1>1. TaggerInv /\ GramInv
    BY InvInit, GramInit DEF Init
  <1>2. phase = "idle" /\ at = "idle" /\ stage = "read"
    BY DEF Init, InitTagger, IdleParser
  <1>3. MarksInv /\ ParserInv
    BY <1>2 DEF MarksInv, ParserInv
  <1> QED BY <1>1, <1>3 DEF AnalysisInv

\* The parser finds an edge over every word of every sentence, and so never gives up, when
\* the grammar has a start symbol and every word that retokenization made has an analysis in
\* each sequence that is parsed: whatever the file, the sentence, the tables and the options.
THEOREM ParserGoesOn == Spec => []EveryWordHasEdges
  <1>1. AnalysisInv => EveryWordHasEdges
    BY DEF AnalysisInv, ParserInv, Fine, Excused, EveryWordHasEdges
  <1>2. AnalysisInv /\ [Next]_vars => AnalysisInv'
    BY AnalysisStep
  <1> QED BY <1>1, <1>2, AnalysisBegins, PTL DEF Spec

-----------------------------------------------------------------------------
(* What holds of the reader and of the tagger holds of the whole.            *)

\* The analysis reads a grammar file as the reader does on its own: neither the tagger nor
\* the parsers touch what was read, so that every governor is within its rule there too.
THEOREM GrammarIsRead == Spec => SpecGrammar /\ []GovernorInRule
  <1>1. Init => InitGrammar
    BY DEF Init
  <1>2. [Next]_vars => [Read]_reader
    BY DEF Next, vars, ReadStep, TagSentence, TagStep, ParseStep, DependStep, Finished
  <1> QED BY <1>1, <1>2, GovernorOfRule, PTL DEF Spec, SpecGrammar

\* And it tags a sentence as the tagger does on its own, so that what was proved of the
\* tagger holds of the sentence that the parser is given.
THEOREM SentenceIsTagged == Spec => SpecTagger /\ []KBest /\ []SelectedOnPath /\ []SpansKept
  <1>1. Init => InitTagger
    BY DEF Init
  <1>2. [Next]_vars => [Tag \/ \E ws \in Sentences : Receive(ws)]_tagger
    BY DEF Next, vars, ReadStep, TagSentence, TagStep, ParseStep, DependStep, Finished
  <1> QED BY <1>1, <1>2, BestSequences, SelectionOfPaths, RetokenizedInPlace, PTL DEF Spec, SpecTagger
=============================================================================
