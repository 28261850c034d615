------------------------------ MODULE Flattening ------------------------------
(***************************************************************************)
(* FlattenSeq, by which the models say in which order words stand that are *)
(* kept in several places: what it does to a sequence that grows at either *)
(* end, and when words may move between neighbours.                        *)
(***************************************************************************)
EXTENDS SequencesExt, SequenceTheorems, FiniteSetTheorems, WellFoundedInduction, TLAPS

-----------------------------------------------------------------------------
(* Induction, over a set of numbers.                                         *)

\* A set of numbers has a least one.
LEMMA Least ==
  ASSUME NEW T \in SUBSET Nat, T # {}
  PROVE  \E m \in T : \A n \in T : m <= n
  <1> DEFINE R == OpToRel(<, Nat)
  <1>1. IsWellFoundedOn(R, Nat)
    BY NatLessThanWellFounded, ZenonT(80)
  <1>2. PICK m \in T : \A n \in T : ~(<<n, m>> \in R)
    <2> HIDE DEF R
    <2> QED BY <1>1, WFMin
  <1>3. \A n \in T : ~(n < m)
    BY <1>2 DEF OpToRel
  <1> HIDE DEF R
  <1> QED BY <1>2, <1>3

\* A set that has 0, and the number after each that it has, has them all.
LEMMA Induct ==
  ASSUME NEW S, 0 \in S, \A n \in Nat : n \in S => n + 1 \in S
  PROVE  Nat \subseteq S
  <1> SUFFICES ASSUME ~(Nat \subseteq S) PROVE FALSE
    OBVIOUS
  <1>1. PICK m \in Nat \ S : \A n \in Nat \ S : m <= n
    BY Least
  <1>2. m # 0 /\ m - 1 \in Nat /\ m - 1 \in S
    BY <1>1
  <1>3. (m - 1) + 1 \in S
    BY <1>2
  <1> QED BY <1>1, <1>3

\* A function that is defined by its value for the number before exists.
Recurs(g, V, b, n, step) ==
  g \in [0..n -> V] /\ g[0] = b /\ \A i \in 1..n : g[i] = step[<<g[i - 1], i>>]

\* There is one for every way to go on from a value.
LEMMA Recursion ==
  ASSUME NEW V, NEW b \in V, NEW n \in Nat, NEW step \in [V \X (1..n) -> V]
  PROVE  \E g : Recurs(g, V, b, n, step)
  <1> DEFINE Upto(m, g) == Recurs(g, V, b, m, step)
             S == {m \in Nat : m <= n => \E g : Upto(m, g)}
  <1>1. 0 \in S
    <2>1. Upto(0, [i \in 0..0 |-> b])
      BY DEF Recurs
    <2> HIDE DEF Upto
    <2> QED BY <2>1
  <1>2. ASSUME NEW m \in Nat, m \in S PROVE m + 1 \in S
    <2> SUFFICES ASSUME m + 1 <= n PROVE \E g : Upto(m + 1, g)
      OBVIOUS
    <2>1. PICK g : Upto(m, g)
      BY <1>2
    <2> DEFINE h == [i \in 0..(m + 1) |-> IF i = m + 1 THEN step[<<g[m], m + 1>>] ELSE g[i]]
    <2>2. g[m] \in V /\ m + 1 \in 1..n /\ <<g[m], m + 1>> \in V \X (1..n)
      BY <2>1 DEF Recurs
    <2>3. step[<<g[m], m + 1>>] \in V
      BY <2>2
    <2>4. h[m + 1] = step[<<g[m], m + 1>>] /\ \A i \in 0..m : h[i] = g[i]
      OBVIOUS
    <2>5. h \in [0..(m + 1) -> V] /\ h[0] = b
      BY <2>1, <2>3 DEF Recurs
    <2> HIDE DEF h
    <2>6. ASSUME NEW i \in 1..(m + 1) PROVE h[i] = step[<<h[i - 1], i>>]
      <3>1. i - 1 \in 0..m /\ (i # m + 1 => i \in 1..m /\ i \in 0..m) /\ (m + 1) - 1 = m
        OBVIOUS
      <3>2. CASE i = m + 1
        BY <2>4, <3>1, <3>2
      <3>3. CASE i # m + 1
        BY <2>1, <2>4, <3>1, <3>3 DEF Recurs
      <3> QED BY <3>2, <3>3
    <2> QED BY <2>5, <2>6 DEF Recurs
  <1> HIDE DEF S
  <1>3. n \in S
    BY <1>1, <1>2, Induct
  <1> QED BY <1>3 DEF S

\* What each value of a function hands on to the next, all of them have.
LEMMA Stays ==
  ASSUME NEW V, NEW n \in Nat, NEW f, f[0] \in V, \A i \in 1..n : f[i - 1] \in V => f[i] \in V
  PROVE  \A i \in 0..n : f[i] \in V
  <1> DEFINE S == {m \in Nat : m <= n => f[m] \in V}
  <1>1. 0 \in S
    OBVIOUS
  <1>2. ASSUME NEW m \in Nat, m \in S PROVE m + 1 \in S
    <2> SUFFICES ASSUME m + 1 <= n PROVE f[m + 1] \in V
      OBVIOUS
    <2>1. m + 1 \in 1..n /\ (m + 1) - 1 = m /\ f[m] \in V
      BY <1>2
    <2>2. f[(m + 1) - 1] \in V => f[m + 1] \in V
      BY <2>1
    <2> QED BY <2>1, <2>2
  <1> HIDE DEF S
  <1>3. Nat \subseteq S
    BY <1>1, <1>2, Induct
  <1> QED BY <1>3 DEF S

-----------------------------------------------------------------------------
\* What the definition of FlattenSeq asks of its recursive function, up to n.
Flattens(g, s, n) == g = [i \in 1..n |-> IF i = 1 THEN s[i] ELSE g[i - 1] \o s[i]]

\* The function by which FlattenSeq is defined exists.
LEMMA FlattensExists ==
  ASSUME NEW s, NEW n \in Nat
  PROVE  \E g : Flattens(g, s, n)
  <1> DEFINE S == {m \in Nat : \E g : Flattens(g, s, m)}
  <1>1. 0 \in S
    <2>1. Flattens([i \in 1..0 |-> s], s, 0)
      BY DEF Flattens
    <2> QED BY <2>1
  <1>2. ASSUME NEW m \in Nat, m \in S PROVE m + 1 \in S
    <2>1. PICK g : Flattens(g, s, m)
      BY <1>2
    <2> DEFINE h == [i \in 1..(m + 1) |-> IF i <= m THEN g[i]
                                          ELSE IF i = 1 THEN s[i] ELSE g[i - 1] \o s[i]]
    <2>2. ASSUME NEW i \in 1..(m + 1)
          PROVE  h[i] = IF i = 1 THEN s[i] ELSE h[i - 1] \o s[i]
      <3>1. CASE i <= m
        <4>1. g[i] = IF i = 1 THEN s[i] ELSE g[i - 1] \o s[i]
          <5> HIDE DEF h
          <5>1. i \in 1..m
            BY <3>1
          <5> QED BY <2>1, <5>1 DEF Flattens
        <4>2. i # 1 => h[i - 1] = g[i - 1]
          BY <3>1
        <4> QED BY <3>1, <4>1, <4>2
      <3>2. CASE i = m + 1
        <4>1. i # 1 => h[i - 1] = g[i - 1]
          BY <3>2
        <4> QED BY <3>2, <4>1
      <3> QED BY <3>1, <3>2
    <2>3. h = [i \in 1..(m + 1) |-> h[i]]
      OBVIOUS
    <2> HIDE DEF h
    <2>4. Flattens(h, s, m + 1)
      BY <2>2, <2>3 DEF Flattens
    <2> QED BY <2>4
  <1> HIDE DEF S
  <1>3. Nat \subseteq S
    BY <1>1, <1>2, Induct
  <1> QED BY <1>3 DEF S

\* There is only one.
LEMMA FlattensUnique ==
  ASSUME NEW s, NEW n \in Nat, NEW g, NEW h, Flattens(g, s, n), Flattens(h, s, n)
  PROVE  g = h
  <1> DEFINE S == {m \in Nat : m \in 1..n => g[m] = h[m]}
  <1>1. 0 \in S
    OBVIOUS
  <1>2. ASSUME NEW m \in Nat, m \in S PROVE m + 1 \in S
    <2> SUFFICES ASSUME m + 1 \in 1..n PROVE g[m + 1] = h[m + 1]
      OBVIOUS
    <2>1. /\ g[m + 1] = IF m + 1 = 1 THEN s[m + 1] ELSE g[(m + 1) - 1] \o s[m + 1]
          /\ h[m + 1] = IF m + 1 = 1 THEN s[m + 1] ELSE h[(m + 1) - 1] \o s[m + 1]
      BY DEF Flattens
    <2>2. m # 0 => g[m] = h[m]
      BY <1>2
    <2> QED BY <2>1, <2>2
  <1> HIDE DEF S
  <1>3. Nat \subseteq S
    BY <1>1, <1>2, Induct
  <1>4. \A m \in 1..n : g[m] = h[m]
    BY <1>3 DEF S
  <1> QED BY <1>4 DEF Flattens

\* FlattenSeq is the last value of that function.
LEMMA FlattenIs ==
  ASSUME NEW s, NEW n \in Nat \ {0}, Len(s) = n, NEW g, Flattens(g, s, n)
  PROVE  FlattenSeq(s) = g[n]
  <1> DEFINE f == CHOOSE f : f = [i \in 1..Len(s) |-> IF i = 1 THEN s[i] ELSE f[i - 1] \o s[i]]
  <1>1. Flattens(f, s, n)
    BY DEF Flattens
  <1>2. FlattenSeq(s) = f[n]
    BY DEF FlattenSeq
  <1> HIDE DEF f
  <1> QED BY <1>1, <1>2, FlattensUnique

\* Nothing is flattened to nothing.
LEMMA FlattenEmpty == FlattenSeq(<<>>) = <<>>
  BY DEF FlattenSeq

\* A sequence more at the end.
LEMMA FlattenAppend ==
  ASSUME NEW T, NEW s \in Seq(Seq(T)), NEW e \in Seq(T)
  PROVE  FlattenSeq(Append(s, e)) = FlattenSeq(s) \o e
  <1> DEFINE n == Len(s)
             t == Append(s, e)
  <1>1. /\ n \in Nat /\ n + 1 \in Nat \ {0} /\ n + 1 \in 1..(n + 1) /\ t \in Seq(Seq(T)) /\ Len(t) = n + 1
        /\ \A i \in 1..n : t[i] = s[i]
        /\ t[n + 1] = e
    BY LenProperties, AppendProperties
  <1>0. s = <<>> <=> n = 0
    BY EmptySeq
  <1> HIDE DEF n, t
  <1>2. PICK h : Flattens(h, t, n + 1)
    BY <1>1, FlattensExists
  <1>3. FlattenSeq(t) = h[n + 1]
    BY <1>1, <1>2, FlattenIs
  <1>4. CASE n = 0
    <2>1. h[1] = t[1]
      BY <1>2, <1>4 DEF Flattens
    <2>2. <<>> \o e = e
      BY ConcatEmptySeq
    <2> QED BY <1>0, <1>1, <1>3, <1>4, <2>1, <2>2, FlattenEmpty DEF t
  <1>5. CASE n # 0
    <2> DEFINE g == [i \in 1..n |-> h[i]]
    <2>1. h[n + 1] = h[n] \o e
      <3>1. h[n + 1] = IF n + 1 = 1 THEN t[n + 1] ELSE h[(n + 1) - 1] \o t[n + 1]
        BY <1>1, <1>2 DEF Flattens
      <3>2. n + 1 # 1 /\ (n + 1) - 1 = n
        BY <1>1, <1>5
      <3> QED BY <1>1, <3>1, <3>2
    <2>2. ASSUME NEW i \in 1..n PROVE g[i] = IF i = 1 THEN s[i] ELSE g[i - 1] \o s[i]
      <3>1. h[i] = IF i = 1 THEN t[i] ELSE h[i - 1] \o t[i]
        <4>1. i \in 1..(n + 1)
          BY <1>1
        <4> QED BY <1>2, <4>1 DEF Flattens
      <3>2. t[i] = s[i] /\ g[i] = h[i] /\ (i # 1 => g[i - 1] = h[i - 1])
        BY <1>1
      <3> QED BY <3>1, <3>2
    <2>3. g = [i \in 1..n |-> g[i]]
      OBVIOUS
    <2>4. g[n] = h[n]
      BY <1>1, <1>5
    <2> HIDE DEF g
    <2>5. Flattens(g, s, n)
      BY <2>2, <2>3 DEF Flattens
    <2>6. FlattenSeq(s) = g[n]
      <3>1. n \in Nat \ {0} /\ Len(s) = n
        BY <1>1, <1>5 DEF n
      <3> QED BY <2>5, <3>1, FlattenIs
    <2> QED BY <1>3, <2>1, <2>4, <2>6 DEF t
  <1> QED BY <1>4, <1>5

\* A sequence of sequences is flattened to a sequence.
LEMMA FlattenType ==
  ASSUME NEW T, NEW s \in Seq(Seq(T))
  PROVE  FlattenSeq(s) \in Seq(T)
  <1> DEFINE S == {n \in Nat : \A r \in Seq(Seq(T)) : Len(r) = n => FlattenSeq(r) \in Seq(T)}
  <1>1. 0 \in S
    BY FlattenEmpty, EmptySeq
  <1>2. ASSUME NEW n \in Nat, n \in S PROVE n + 1 \in S
    <2> SUFFICES ASSUME NEW r \in Seq(Seq(T)), Len(r) = n + 1 PROVE FlattenSeq(r) \in Seq(T)
      OBVIOUS
    <2>1. r # <<>>
      BY EmptySeq
    <2>2. PICK q \in Seq(Seq(T)), e \in Seq(T) : r = Append(q, e)
      BY <2>1, SequenceEmptyOrAppend
    <2>3. Len(q) = n
      BY <2>2, AppendProperties, LenProperties
    <2>4. FlattenSeq(q) \in Seq(T)
      BY <1>2, <2>3
    <2> QED BY <2>2, <2>4, FlattenAppend, ConcatProperties
  <1> HIDE DEF S
  <1>3. Nat \subseteq S
    BY <1>1, <1>2, Induct
  <1> QED BY <1>3, LenProperties DEF S

\* Concatenation may be grouped either way.
LEMMA Regroup ==
  ASSUME NEW T, NEW s \in Seq(Seq(T)), NEW q \in Seq(Seq(T)), NEW x \in Seq(Seq(T))
  PROVE  (s \o q) \o x = s \o (q \o x)
  BY ConcatAssociative, SMTT(40)

\* What holds of a concatenation holds with one more at its end.
LEMMA FlattenConcatAppend ==
  ASSUME NEW T, NEW s \in Seq(Seq(T)), NEW q \in Seq(Seq(T)), NEW e \in Seq(T),
         FlattenSeq(s \o q) = FlattenSeq(s) \o FlattenSeq(q)
  PROVE  FlattenSeq(s \o Append(q, e)) = FlattenSeq(s) \o FlattenSeq(Append(q, e))
  <1>0. ASSUME NEW x \in Seq(Seq(T)) PROVE (s \o q) \o x = s \o (q \o x)
    BY Regroup, SMTT(40)
  <1> DEFINE x == <<e>>
             a == FlattenSeq(s)
             b == FlattenSeq(q)
  <1>1. s \o q \in Seq(Seq(T)) /\ x \in Seq(Seq(T))
    BY ConcatProperties
  <1>2. Append(q, e) = q \o x /\ Append(s \o q, e) = (s \o q) \o x
    BY <1>1, AppendIsConcat
  <1>3. a \in Seq(T) /\ b \in Seq(T)
    BY FlattenType
  <1>4. FlattenSeq(Append(s \o q, e)) = FlattenSeq(s \o q) \o e /\ FlattenSeq(Append(q, e)) = b \o e
    BY <1>1, FlattenAppend
  <1>5. FlattenSeq(s \o q) = a \o b
    OBVIOUS
  <1> HIDE DEF a, b, x
  <1>6. (s \o q) \o x = s \o (q \o x)
    BY <1>0, <1>1
  <1>7. (a \o b) \o e = a \o (b \o e)
    BY <1>3, ConcatAssociative, SMTT(40)
  <1> QED BY <1>2, <1>4, <1>5, <1>6, <1>7 DEF a, b

\* One sequence of sequences behind another.
LEMMA FlattenConcat ==
  ASSUME NEW T, NEW s \in Seq(Seq(T)), NEW t \in Seq(Seq(T))
  PROVE  FlattenSeq(s \o t) = FlattenSeq(s) \o FlattenSeq(t)
  <1> DEFINE S == {n \in Nat : \A r \in Seq(Seq(T)) :
                     Len(r) = n => FlattenSeq(s \o r) = FlattenSeq(s) \o FlattenSeq(r)}
  <1>1. 0 \in S
    <2> SUFFICES FlattenSeq(s \o <<>>) = FlattenSeq(s) \o FlattenSeq(<<>>)
      BY EmptySeq
    <2> QED BY FlattenEmpty, FlattenType, ConcatEmptySeq
  <1>2. ASSUME NEW n \in Nat, n \in S PROVE n + 1 \in S
    <2> SUFFICES ASSUME NEW r \in Seq(Seq(T)), Len(r) = n + 1
                 PROVE  FlattenSeq(s \o r) = FlattenSeq(s) \o FlattenSeq(r)
      OBVIOUS
    <2>1. r # <<>>
      BY EmptySeq
    <2>2. PICK q \in Seq(Seq(T)), e \in Seq(T) : r = Append(q, e)
      BY <2>1, SequenceEmptyOrAppend
    <2>3. Len(q) = n
      BY <2>2, AppendProperties, LenProperties
    <2>4. FlattenSeq(s \o q) = FlattenSeq(s) \o FlattenSeq(q)
      BY <1>2, <2>3
    <2> QED BY <2>2, <2>4, FlattenConcatAppend
  <1> HIDE DEF S
  <1>3. Nat \subseteq S
    BY <1>1, <1>2, Induct
  <1> QED BY <1>3, LenProperties DEF S

\* What is in two sequences, one behind the other.
LEMMA RangeConcat ==
  ASSUME NEW T, NEW s \in Seq(T), NEW t \in Seq(T)
  PROVE  Range(s \o t) = Range(s) \cup Range(t)
  <1>1. /\ DOMAIN s = 1..Len(s) /\ DOMAIN t = 1..Len(t) /\ Len(s) \in Nat /\ Len(t) \in Nat
        /\ DOMAIN (s \o t) = 1..(Len(s) + Len(t))
    BY LenProperties, ConcatProperties
  <1>2. \A i \in 1..(Len(s) + Len(t)) : (s \o t)[i] = IF i <= Len(s) THEN s[i] ELSE t[i - Len(s)]
    BY ConcatProperties
  <1>3. \A e \in Range(s \o t) : e \in Range(s) \cup Range(t)
    BY <1>1, <1>2 DEF Range
  <1>4. ASSUME NEW i \in 1..Len(s) PROVE s[i] \in Range(s \o t)
    BY <1>1, <1>2 DEF Range
  <1>5. ASSUME NEW i \in 1..Len(t) PROVE t[i] \in Range(s \o t)
    <2>1. i + Len(s) \in 1..(Len(s) + Len(t)) /\ ~(i + Len(s) <= Len(s)) /\ (i + Len(s)) - Len(s) = i
      BY <1>1
    <2>2. (s \o t)[i + Len(s)] = t[i]
      BY <1>2, <2>1
    <2> QED BY <1>1, <2>1, <2>2 DEF Range
  <1> QED BY <1>1, <1>3, <1>4, <1>5 DEF Range

\* What is in a sequence of sequences.
LEMMA FlattenRange ==
  ASSUME NEW T, NEW s \in Seq(Seq(T))
  PROVE  Range(FlattenSeq(s)) = UNION {Range(s[n]) : n \in 1..Len(s)}
  <1> DEFINE All(r) == UNION {Range(r[n]) : n \in 1..Len(r)}
             S == {n \in Nat : \A r \in Seq(Seq(T)) : Len(r) = n => Range(FlattenSeq(r)) = All(r)}
  <1>1. 0 \in S
    <2> SUFFICES Range(FlattenSeq(<<>>)) = All(<<>>)
      BY EmptySeq
    <2> QED BY FlattenEmpty DEF Range
  <1>2. ASSUME NEW n \in Nat, n \in S PROVE n + 1 \in S
    <2> SUFFICES ASSUME NEW r \in Seq(Seq(T)), Len(r) = n + 1 PROVE Range(FlattenSeq(r)) = All(r)
      OBVIOUS
    <2>1. r # <<>>
      BY EmptySeq
    <2>2. PICK q \in Seq(Seq(T)), e \in Seq(T) : r = Append(q, e)
      BY <2>1, SequenceEmptyOrAppend
    <2>3. Len(q) = n /\ r[n + 1] = e /\ \A m \in 1..n : r[m] = q[m]
      BY <2>2, AppendProperties, LenProperties
    <2>4. Range(FlattenSeq(q)) = All(q)
      BY <1>2, <2>3
    <2>5. FlattenSeq(r) = FlattenSeq(q) \o e /\ FlattenSeq(q) \in Seq(T)
      BY <2>2, FlattenAppend, FlattenType
    <2>6. Range(FlattenSeq(r)) = Range(FlattenSeq(q)) \cup Range(e)
      BY <2>5, RangeConcat
    <2>7. All(r) = All(q) \cup Range(e)
      <3>1. 1..Len(r) = (1..Len(q)) \cup {n + 1}
        BY <2>3
      <3>2. {Range(r[m]) : m \in 1..Len(r)} = {Range(q[m]) : m \in 1..Len(q)} \cup {Range(e)}
        BY <2>3, <3>1
      <3> QED BY <3>2
    <2> QED BY <2>4, <2>6, <2>7
  <1> HIDE DEF S
  <1>3. Nat \subseteq S
    BY <1>1, <1>2, Induct
  <1> QED BY <1>3, LenProperties DEF S

\* Nothing twice in two sequences, one behind the other.
LEMMA DifferentConcat ==
  ASSUME NEW T, NEW s \in Seq(T), NEW t \in Seq(T), IsInjective(s), IsInjective(t),
         \A e \in Range(s) : e \notin Range(t)
  PROVE  IsInjective(s \o t)
  <1>1. /\ DOMAIN s = 1..Len(s) /\ DOMAIN t = 1..Len(t) /\ Len(s) \in Nat /\ Len(t) \in Nat
        /\ DOMAIN (s \o t) = 1..(Len(s) + Len(t))
    BY LenProperties, ConcatProperties
  <1>2. \A i \in 1..(Len(s) + Len(t)) : (s \o t)[i] = IF i <= Len(s) THEN s[i] ELSE t[i - Len(s)]
    BY ConcatProperties
  <1>3. ASSUME NEW i \in 1..Len(s), NEW j \in 1..Len(t) PROVE s[i] # t[j]
    BY <1>1 DEF Range
  <1> DEFINE c == s \o t
  <1>4. ASSUME NEW i \in 1..(Len(s) + Len(t)), NEW j \in 1..(Len(s) + Len(t)), c[i] = c[j] PROVE i = j
    <2>1. ASSUME NEW k \in 1..(Len(s) + Len(t))
          PROVE  \/ k \in 1..Len(s) /\ c[k] = s[k]
                 \/ k - Len(s) \in 1..Len(t) /\ c[k] = t[k - Len(s)]
      BY <1>1, <1>2
    <2> HIDE DEF c
    <2>2. CASE i \in 1..Len(s) /\ c[i] = s[i] /\ j \in 1..Len(s) /\ c[j] = s[j]
      BY <1>1, <1>4, <2>2 DEF IsInjective
    <2>3. CASE /\ i - Len(s) \in 1..Len(t) /\ c[i] = t[i - Len(s)]
               /\ j - Len(s) \in 1..Len(t) /\ c[j] = t[j - Len(s)]
      <3>1. i - Len(s) = j - Len(s)
        BY <1>1, <1>4, <2>3 DEF IsInjective
      <3> QED BY <1>1, <3>1
    <2>4. CASE i \in 1..Len(s) /\ c[i] = s[i] /\ j - Len(s) \in 1..Len(t) /\ c[j] = t[j - Len(s)]
      BY <1>3, <1>4, <2>4
    <2>5. CASE i - Len(s) \in 1..Len(t) /\ c[i] = t[i - Len(s)] /\ j \in 1..Len(s) /\ c[j] = s[j]
      BY <1>3, <1>4, <2>5
    <2> QED BY <2>1, <2>2, <2>3, <2>4, <2>5
  <1> QED BY <1>1, <1>4 DEF IsInjective

\* Nothing twice in a sequence of sequences.
AllDifferent(s) == /\ \A n \in 1..Len(s) : IsInjective(s[n])
                   /\ \A n, m \in 1..Len(s) : n # m => \A e \in Range(s[n]) : e \notin Range(s[m])

\* Elements that differ stay different.
LEMMA FlattenDifferent ==
  ASSUME NEW T, NEW s \in Seq(Seq(T)), AllDifferent(s)
  PROVE  IsInjective(FlattenSeq(s))
  <1> DEFINE S == {n \in Nat : \A r \in Seq(Seq(T)) :
                     Len(r) = n /\ AllDifferent(r) => IsInjective(FlattenSeq(r))}
  <1>1. 0 \in S
    <2> SUFFICES IsInjective(FlattenSeq(<<>>))
      BY EmptySeq
    <2> QED BY FlattenEmpty DEF IsInjective
  <1>2. ASSUME NEW n \in Nat, n \in S PROVE n + 1 \in S
    <2> SUFFICES ASSUME NEW r \in Seq(Seq(T)), Len(r) = n + 1, AllDifferent(r)
                 PROVE  IsInjective(FlattenSeq(r))
      OBVIOUS
    <2>1. r # <<>>
      BY EmptySeq
    <2>2. PICK q \in Seq(Seq(T)), e \in Seq(T) : r = Append(q, e)
      BY <2>1, SequenceEmptyOrAppend
    <2>3. Len(q) = n /\ r[n + 1] = e /\ \A m \in 1..n : r[m] = q[m]
      BY <2>2, AppendProperties, LenProperties
    <2>4. n + 1 \in 1..(n + 1) /\ \A m \in 1..n : m \in 1..(n + 1) /\ m # n + 1
      OBVIOUS
    <2>5. AllDifferent(q) /\ IsInjective(e)
      BY <2>3, <2>4 DEF AllDifferent
    <2>6. IsInjective(FlattenSeq(q))
      BY <1>2, <2>3, <2>5
    <2>7. FlattenSeq(r) = FlattenSeq(q) \o e /\ FlattenSeq(q) \in Seq(T)
      BY <2>2, FlattenAppend, FlattenType
    <2>8. Range(FlattenSeq(q)) = UNION {Range(q[m]) : m \in 1..Len(q)}
      BY FlattenRange
    <2>9. ASSUME NEW x \in Range(FlattenSeq(q)) PROVE x \notin Range(e)
      <3>1. PICK m \in 1..n : x \in Range(q[m])
        BY <2>3, <2>8
      <3> QED BY <2>3, <2>4, <3>1 DEF AllDifferent
    <2> QED BY <2>5, <2>6, <2>7, <2>9, DifferentConcat
  <1> HIDE DEF S
  <1>3. Nat \subseteq S
    BY <1>1, <1>2, Induct
  <1> QED BY <1>3, LenProperties DEF S

\* A sequence of one.
LEMMA FlattenOne ==
  ASSUME NEW T, NEW e \in Seq(T)
  PROVE  FlattenSeq(<<e>>) = e
  <1>1. <<e>> = Append(<<>>, e) /\ <<>> \in Seq(Seq(T))
    BY EmptySeq
  <1>2. FlattenSeq(Append(<<>>, e)) = FlattenSeq(<<>>) \o e
    BY <1>1, FlattenAppend
  <1>3. <<>> \o e = e
    BY ConcatEmptySeq
  <1> QED BY <1>1, <1>2, <1>3, FlattenEmpty

\* A sequence less at the beginning.
LEMMA FlattenTail ==
  ASSUME NEW T, NEW s \in Seq(Seq(T)), s # <<>>
  PROVE  FlattenSeq(s) = Head(s) \o FlattenSeq(Tail(s))
  <1>1. Head(s) \in Seq(T) /\ Tail(s) \in Seq(Seq(T)) /\ <<Head(s)>> \in Seq(Seq(T))
    BY HeadTailProperties
  <1>2. s = <<Head(s)>> \o Tail(s)
    <2>1. /\ Len(s) \in Nat \ {0} /\ Len(Tail(s)) = Len(s) - 1 /\ Head(s) = s[1]
          /\ \A i \in 1..Len(Tail(s)) : Tail(s)[i] = s[i + 1]
      BY HeadTailProperties, EmptySeq
    <2> DEFINE h == <<Head(s)>>
    <2>2. h \in Seq(Seq(T)) /\ Len(h) = 1 /\ h[1] = Head(s)
      BY <1>1
    <2> HIDE DEF h
    <2>3. /\ h \o Tail(s) \in Seq(Seq(T)) /\ Len(h \o Tail(s)) = Len(h) + Len(Tail(s))
          /\ \A i \in 1..(Len(h) + Len(Tail(s))) :
               (h \o Tail(s))[i] = IF i <= Len(h) THEN h[i] ELSE Tail(s)[i - Len(h)]
      BY <1>1, <2>2, ConcatProperties
    <2>9. /\ Len(h \o Tail(s)) = Len(s)
          /\ \A i \in 1..Len(s) : (h \o Tail(s))[i] = IF i <= 1 THEN h[i] ELSE Tail(s)[i - 1]
      BY <2>1, <2>2, <2>3
    <2>4. ASSUME NEW i \in 1..Len(s) PROVE (h \o Tail(s))[i] = s[i]
      <3>1. CASE i = 1
        BY <2>1, <2>2, <2>9, <3>1
      <3>2. CASE i # 1
        <4>1. i - 1 \in 1..Len(Tail(s)) /\ (i - 1) + 1 = i /\ ~(i <= 1)
          BY <2>1, <3>2
        <4>2. Tail(s)[i - 1] = s[i]
          BY <2>1, <4>1
        <4> QED BY <2>9, <4>1, <4>2
      <3> QED BY <3>1, <3>2
    <2>5. s = h \o Tail(s)
      BY <2>3, <2>4, <2>9, SeqEqual
    <2> QED BY <2>5 DEF h
  <1>3. FlattenSeq(<<Head(s)>> \o Tail(s)) = FlattenSeq(<<Head(s)>>) \o FlattenSeq(Tail(s))
    BY <1>1, FlattenConcat
  <1> QED BY <1>1, <1>2, <1>3, FlattenOne

\* A sequence of two.
LEMMA FlattenTwo ==
  ASSUME NEW T, NEW a \in Seq(T), NEW b \in Seq(T)
  PROVE  FlattenSeq(<<a, b>>) = a \o b
  <1>1. <<a, b>> = Append(<<a>>, b) /\ <<a>> \in Seq(Seq(T))
    OBVIOUS
  <1>2. FlattenSeq(Append(<<a>>, b)) = FlattenSeq(<<a>>) \o b
    BY <1>1, FlattenAppend
  <1> QED BY <1>1, <1>2, FlattenOne

-----------------------------------------------------------------------------
\* The words of all elements of a channel, whose elements carry words.
Collected(p) == FlattenSeq([n \in DOMAIN p |-> p[n].words])

\* What the elements of a sequence hold, in order.
LEMMA FieldSeq ==
  ASSUME NEW W, NEW M, \A m \in M : m.words \in Seq(W), NEW p \in Seq(M)
  PROVE  /\ [n \in DOMAIN p |-> p[n].words] \in Seq(Seq(W))
         /\ Len([n \in DOMAIN p |-> p[n].words]) = Len(p)
  <1>1. Len(p) \in Nat /\ DOMAIN p = 1..Len(p) /\ \A n \in 1..Len(p) : p[n] \in M
    BY LenProperties, ElementOfSeq
  <1> QED BY <1>1

\* What is collected is a sequence.
LEMMA CollectedType ==
  ASSUME NEW W, NEW M, \A m \in M : m.words \in Seq(W), NEW p \in Seq(M)
  PROVE  Collected(p) \in Seq(W)
  BY FieldSeq, FlattenType DEF Collected

\* Of nothing, nothing is collected.
LEMMA CollectedEmpty == Collected(<<>>) = <<>>
  <1>1. [n \in DOMAIN <<>> |-> <<>>[n].words] = <<>>
    OBVIOUS
  <1> QED BY <1>1, FlattenEmpty DEF Collected

\* It is collected in order.
LEMMA CollectedAppend ==
  ASSUME NEW W, NEW M, \A m \in M : m.words \in Seq(W), NEW p \in Seq(M), NEW o \in M
  PROVE  Collected(Append(p, o)) = Collected(p) \o o.words
  <1> DEFINE q == Append(p, o)
             f == [n \in DOMAIN p |-> p[n].words]
             g == [n \in DOMAIN q |-> q[n].words]
  <1>1. /\ q \in Seq(M) /\ Len(q) = Len(p) + 1 /\ Len(p) \in Nat /\ q[Len(p) + 1] = o
        /\ \A n \in 1..Len(p) : q[n] = p[n]
        /\ DOMAIN q = 1..(Len(p) + 1) /\ DOMAIN p = 1..Len(p)
    BY LenProperties, AppendProperties
  <1>2. f \in Seq(Seq(W)) /\ Len(f) = Len(p) /\ o.words \in Seq(W)
    BY FieldSeq
  <1>3. g \in Seq(Seq(W)) /\ Len(g) = Len(p) + 1
    <2> HIDE DEF q
    <2> QED BY <1>1, FieldSeq
  <1>4. /\ \A n \in 1..(Len(p) + 1) : g[n] = q[n].words
        /\ \A n \in 1..Len(p) : f[n] = p[n].words
    BY <1>1
  <1> HIDE DEF q, f, g
  <1>5. /\ Append(f, o.words) \in Seq(Seq(W)) /\ Len(Append(f, o.words)) = Len(p) + 1
        /\ \A n \in 1..Len(p) : Append(f, o.words)[n] = f[n]
        /\ Append(f, o.words)[Len(p) + 1] = o.words
    BY <1>2, AppendProperties
  <1>6. ASSUME NEW n \in 1..(Len(p) + 1) PROVE g[n] = Append(f, o.words)[n]
    <2>1. CASE n \in 1..Len(p)
      BY <2>1, <1>1, <1>4, <1>5
    <2>2. CASE n = Len(p) + 1
      <3>1. q[n] = o /\ g[n] = q[n].words /\ Append(f, o.words)[n] = o.words
        BY <2>2, <1>1, <1>4, <1>5
      <3>2. q[n].words = o.words
        BY <3>1, ZenonT(80)
      <3> QED BY <3>1, <3>2, ZenonT(80)
    <2>3. n \in 1..Len(p) \/ n = Len(p) + 1
      <3>1. Len(p) \in Nat
        BY <1>1
      <3> QED BY <3>1
    <2> QED BY <2>1, <2>2, <2>3, ZenonT(80)
  <1>7. g = Append(f, o.words)
    BY <1>3, <1>5, <1>6, SeqEqual
  <1>8. FlattenSeq(g) = FlattenSeq(f) \o o.words
    BY <1>2, <1>7, FlattenAppend
  <1> QED BY <1>8 DEF Collected, f, g, q

\* Of a single element, its field is collected.
LEMMA CollectedOne ==
  ASSUME NEW W, NEW m, m.words \in Seq(W)
  PROVE  Collected(<<m>>) = m.words
  <1>1. [n \in DOMAIN <<m>> |-> <<m>>[n].words] = <<m.words>>
    OBVIOUS
  <1> QED BY <1>1, FlattenOne DEF Collected

\* What is collected behind the first.
LEMMA CollectedTail ==
  ASSUME NEW W, NEW M, \A m \in M : m.words \in Seq(W), NEW p \in Seq(M), p # <<>>
  PROVE  Collected(p) = Head(p).words \o Collected(Tail(p))
  <1> DEFINE q == Tail(p)
             f == [n \in DOMAIN p |-> p[n].words]
             g == [n \in DOMAIN q |-> q[n].words]
  <1>1. /\ q \in Seq(M) /\ Len(q) = Len(p) - 1 /\ Len(p) \in Nat \ {0} /\ Head(p) = p[1]
        /\ \A n \in 1..Len(q) : q[n] = p[n + 1]
        /\ DOMAIN p = 1..Len(p) /\ DOMAIN q = 1..Len(q)
    BY LenProperties, EmptySeq, HeadTailProperties
  <1>2. f \in Seq(Seq(W)) /\ Len(f) = Len(p)
    BY FieldSeq
  <1>3. g \in Seq(Seq(W)) /\ Len(g) = Len(q)
    <2> HIDE DEF q
    <2> QED BY <1>1, FieldSeq
  <1>4. /\ \A n \in 1..Len(q) : g[n] = q[n].words
        /\ \A n \in 1..Len(p) : f[n] = p[n].words
    BY <1>1
  <1> HIDE DEF q, f, g
  <1>5. f # <<>>
    BY <1>1, <1>2, EmptySeq
  <1>6. /\ Head(f) = f[1] /\ Tail(f) \in Seq(Seq(W)) /\ Len(Tail(f)) = Len(f) - 1
        /\ \A n \in 1..Len(Tail(f)) : Tail(f)[n] = f[n + 1]
    BY <1>2, <1>5, HeadTailProperties
  <1>7. ASSUME NEW n \in 1..Len(q) PROVE Tail(f)[n] = g[n]
    <2>1. n + 1 \in 1..Len(p) /\ n \in 1..Len(Tail(f))
      BY <1>1, <1>2, <1>6
    <2>2. Tail(f)[n] = f[n + 1] /\ f[n + 1] = p[n + 1].words
      BY <1>4, <1>6, <2>1
    <2>3. q[n] = p[n + 1] /\ g[n] = q[n].words
      BY <1>1, <1>4
    <2> QED BY <2>2, <2>3
  <1>8. Tail(f) = g
    BY <1>1, <1>2, <1>3, <1>6, <1>7, SeqEqual
  <1>9. Head(f) = Head(p).words
    BY <1>1, <1>4, <1>6
  <1>10. FlattenSeq(f) = Head(f) \o FlattenSeq(Tail(f))
    BY <1>2, <1>5, FlattenTail
  <1> QED BY <1>8, <1>9, <1>10 DEF Collected, f, g, q

\* Concatenation of three sequences may be grouped either way.
LEMMA Reassociate ==
  ASSUME NEW T, NEW a \in Seq(T), NEW b \in Seq(T), NEW c \in Seq(T)
  PROVE  a \o b \in Seq(T) /\ (a \o b) \o c = a \o (b \o c)
  BY ConcatProperties, ConcatAssociative

\* Cut after n elements, the two parts put together are the whole.
LEMMA CutAt ==
  ASSUME NEW T, NEW v \in Seq(T), NEW n \in 1..Len(v)
  PROVE  /\ SubSeq(v, 1, n) \in Seq(T) /\ SubSeq(v, n + 1, Len(v)) \in Seq(T)
         /\ SubSeq(v, 1, n) \o SubSeq(v, n + 1, Len(v)) = v
  <1>1. SubSeq(v, 1, n) \in Seq(T) /\ SubSeq(v, n + 1, Len(v)) \in Seq(T)
    <2>1. Len(v) \in Nat /\ \A i \in 1..Len(v) : v[i] \in T
      BY LenProperties, ElementOfSeq
    <2>2. /\ \A i \in 1..n : v[i] \in T
          /\ \A i \in (n + 1)..Len(v) : v[i] \in T
      BY <2>1
    <2> QED BY <2>1, <2>2, SubSeqProperties
  <1>2. 1 \in 1..(Len(v) + 1) /\ n \in (1 - 1)..Len(v) /\ Len(v) \in n..Len(v)
    BY LenProperties
  <1>3. SubSeq(v, 1, n) \o SubSeq(v, n + 1, Len(v)) = SubSeq(v, 1, Len(v))
    BY <1>2, ConcatAdjacentSubSeq
  <1> QED BY <1>1, <1>3, SubSeqFull

-----------------------------------------------------------------------------
(* A row of sequences kept in several places: what happens to the whole when *)
(* one place gives to another.                                               *)

\* Concatenation, which the provers take apart only where it is asked of them.
Cat(a, b) == a \o b

\* Concatenation is associative.
LEMMA CatAssociative ==
  ASSUME NEW T, NEW a \in Seq(T), NEW b \in Seq(T), NEW c \in Seq(T)
  PROVE  Cat(a, b) \in Seq(T) /\ Cat(Cat(a, b), c) = Cat(a, Cat(b, c))
  BY Reassociate DEF Cat

\* A row is a sequence.
LEMMA RowSeq ==
  ASSUME NEW T, NEW n \in Nat, NEW s \in [1..n -> Seq(T)]
  PROVE  s \in Seq(Seq(T)) /\ Len(s) = n
  OBVIOUS

\* What stands before place k, at k and k + 1, and behind.
LEMMA Around ==
  ASSUME NEW T, NEW n \in Nat, NEW s \in [1..n -> Seq(T)], NEW k \in 1..(n - 1)
  PROVE  FlattenSeq(s) = FlattenSeq([i \in 1..(k - 1) |-> s[i]]) \o
                         ((s[k] \o s[k + 1]) \o FlattenSeq([i \in 1..(n - k - 1) |-> s[k + 1 + i]]))
  <1> DEFINE a == [i \in 1..(k - 1) |-> s[i]]
             m == <<s[k], s[k + 1]>>
             b == [i \in 1..(n - k - 1) |-> s[k + 1 + i]]
  <1>1. k \in Nat /\ k - 1 \in Nat /\ n - k - 1 \in Nat /\ k \in 1..n /\ k + 1 \in 1..n
    OBVIOUS
  <1>2. s[k] \in Seq(T) /\ s[k + 1] \in Seq(T)
    BY <1>1
  <1>3. /\ a \in [1..(k - 1) -> Seq(T)] /\ \A i \in 1..(k - 1) : a[i] = s[i]
        /\ b \in [1..(n - k - 1) -> Seq(T)] /\ \A i \in 1..(n - k - 1) : b[i] = s[k + 1 + i]
    BY <1>1
  <1>4. m \in Seq(Seq(T)) /\ Len(m) = 2 /\ m[1] = s[k] /\ m[2] = s[k + 1]
    BY <1>2
  <1>5. FlattenSeq(m) = s[k] \o s[k + 1]
    BY <1>2, FlattenTwo
  <1> HIDE DEF a, m, b
  <1>6. /\ a \in Seq(Seq(T)) /\ Len(a) = k - 1
        /\ b \in Seq(Seq(T)) /\ Len(b) = n - k - 1
        /\ s \in Seq(Seq(T)) /\ Len(s) = n
    <2>1. a \in Seq(Seq(T)) /\ Len(a) = k - 1
      BY <1>1, <1>3, RowSeq
    <2>2. PICK l \in Nat : l = n - k - 1
      BY <1>1
    <2>3. b \in [1..l -> Seq(T)]
      BY <1>3, <2>2
    <2>4. b \in Seq(Seq(T)) /\ Len(b) = l
      BY <2>3, RowSeq
    <2> QED BY <2>1, <2>2, <2>4, RowSeq
  <1>7. /\ m \o b \in Seq(Seq(T)) /\ Len(m \o b) = n - k + 1
        /\ \A i \in 1..(n - k + 1) : (m \o b)[i] = IF i <= 2 THEN m[i] ELSE b[i - 2]
    <2>1. /\ m \o b \in Seq(Seq(T)) /\ Len(m \o b) = Len(m) + Len(b)
          /\ \A i \in 1..(Len(m) + Len(b)) :
               (m \o b)[i] = IF i <= Len(m) THEN m[i] ELSE b[i - Len(m)]
      BY <1>4, <1>6, ConcatProperties
    <2>2. Len(m) + Len(b) = n - k + 1
      BY <1>1, <1>4, <1>6
    <2> QED BY <1>4, <2>1, <2>2
  <1> DEFINE c == m \o b
  <1> HIDE DEF c
  <1>8. /\ c \in Seq(Seq(T)) /\ Len(c) = n - k + 1
        /\ \A i \in 1..(n - k + 1) : c[i] = IF i <= 2 THEN m[i] ELSE b[i - 2]
    BY <1>7 DEF c
  <1>9. /\ a \o c \in Seq(Seq(T)) /\ Len(a \o c) = n
        /\ \A i \in 1..n : (a \o c)[i] = IF i <= k - 1 THEN a[i] ELSE c[i - (k - 1)]
    <2>1. /\ a \o c \in Seq(Seq(T)) /\ Len(a \o c) = Len(a) + Len(c)
          /\ \A i \in 1..(Len(a) + Len(c)) :
               (a \o c)[i] = IF i <= Len(a) THEN a[i] ELSE c[i - Len(a)]
      BY <1>6, <1>8, ConcatProperties
    <2>2. Len(a) + Len(c) = n
      BY <1>1, <1>6, <1>8
    <2> QED BY <1>6, <2>1, <2>2
  <1>10. ASSUME NEW i \in 1..n PROVE (a \o c)[i] = s[i]
    <2>1. CASE i <= k - 1
      BY <1>1, <1>3, <1>9, <2>1
    <2>2. CASE i = k
      <3>1. ~(i <= k - 1) /\ i - (k - 1) = 1 /\ 1 \in 1..(n - k + 1)
        BY <1>1, <2>2
      <3>2. (a \o c)[i] = c[i - (k - 1)]
        BY <1>9, <3>1
      <3>3. c[1] = m[1]
        BY <1>8, <3>1
      <3> QED BY <1>4, <2>2, <3>1, <3>2, <3>3
    <2>3. CASE i = k + 1
      <3>1. ~(i <= k - 1) /\ i - (k - 1) = 2 /\ 2 \in 1..(n - k + 1)
        BY <1>1, <2>3
      <3>2. (a \o c)[i] = c[i - (k - 1)]
        BY <1>9, <3>1
      <3>3. c[2] = m[2]
        BY <1>8, <3>1
      <3> QED BY <1>4, <2>3, <3>1, <3>2, <3>3
    <2>4. CASE i > k + 1
      <3>1. /\ ~(i <= k - 1) /\ i - (k - 1) \in 1..(n - k + 1) /\ ~(i - (k - 1) <= 2)
            /\ (i - (k - 1)) - 2 = i - k - 1 /\ i - k - 1 \in 1..(n - k - 1)
            /\ k + 1 + (i - k - 1) = i
        BY <1>1, <2>4
      <3>2. (a \o c)[i] = c[i - (k - 1)] /\ c[i - (k - 1)] = b[i - k - 1]
        BY <1>8, <1>9, <3>1
      <3>3. b[i - k - 1] = s[i]
        BY <1>3, <3>1
      <3> QED BY <3>2, <3>3
    <2>5. i <= k - 1 \/ i = k \/ i = k + 1 \/ i > k + 1
      BY <1>1
    <2> QED BY <2>1, <2>2, <2>3, <2>4, <2>5
  <1>11. s = a \o c
    BY <1>6, <1>9, <1>10, SeqEqual
  <1>12. FlattenSeq(a \o c) = FlattenSeq(a) \o FlattenSeq(c)
    BY <1>6, <1>8, FlattenConcat
  <1>13. FlattenSeq(c) = FlattenSeq(m) \o FlattenSeq(b)
    BY <1>4, <1>6, FlattenConcat DEF c
  <1> QED BY <1>5, <1>11, <1>12, <1>13 DEF a, b

\* Neighbours give to each other without changing what they have together.
Moved(n, s, u, k) == /\ Cat(s[k], s[k + 1]) = Cat(u[k], u[k + 1])
                     /\ \A i \in (1..n) \ {k, k + 1} : s[i] = u[i]

\* What moves to the row before, at its end, keeps its place.
LEMMA FlattenMoved ==
  ASSUME NEW T, NEW n \in Nat, NEW s \in [1..n -> Seq(T)], NEW u \in [1..n -> Seq(T)],
         NEW k \in 1..(n - 1), Moved(n, s, u, k)
  PROVE  FlattenSeq(s) = FlattenSeq(u)
  <1> DEFINE a(v) == [i \in 1..(k - 1) |-> v[i]]
             b(v) == [i \in 1..(n - k - 1) |-> v[k + 1 + i]]
  <1>1. a(s) = a(u)
    <2>1. \A i \in 1..(k - 1) : i \in (1..n) \ {k, k + 1}
      OBVIOUS
    <2> QED BY <2>1 DEF Moved
  <1>2. b(s) = b(u)
    <2>1. \A i \in 1..(n - k - 1) : k + 1 + i \in (1..n) \ {k, k + 1}
      OBVIOUS
    <2> QED BY <2>1 DEF Moved
  <1>3. /\ FlattenSeq(s) = FlattenSeq(a(s)) \o ((s[k] \o s[k + 1]) \o FlattenSeq(b(s)))
        /\ FlattenSeq(u) = FlattenSeq(a(u)) \o ((u[k] \o u[k + 1]) \o FlattenSeq(b(u)))
    BY Around
  <1>4. s[k] \o s[k + 1] = u[k] \o u[k + 1]
    BY DEF Cat, Moved
  <1> HIDE DEF a, b
  <1> QED BY <1>1, <1>2, <1>3, <1>4

\* The last one gets more behind what it has.
MoreBehind(T, n, s, u, w) ==
  /\ n \in Nat \ {0} /\ s \in [1..n -> Seq(T)] /\ u \in [1..n -> Seq(T)] /\ w \in Seq(T)
  /\ u[n] = Cat(s[n], w) /\ \A i \in 1..(n - 1) : s[i] = u[i]

\* What is put behind the last row comes to stand at the end.
LEMMA FlattenLast ==
  ASSUME NEW T, NEW n, NEW s, NEW u, NEW w, MoreBehind(T, n, s, u, w)
  PROVE  FlattenSeq(u) = Cat(FlattenSeq(s), w)
  <1>0. /\ n \in Nat \ {0} /\ s \in [1..n -> Seq(T)] /\ u \in [1..n -> Seq(T)] /\ w \in Seq(T)
        /\ u[n] = Cat(s[n], w) /\ \A i \in 1..(n - 1) : s[i] = u[i]
    BY DEF MoreBehind
  <1> DEFINE a == [i \in 1..(n - 1) |-> s[i]]
  <1>1. a \in [1..(n - 1) -> Seq(T)] /\ n - 1 \in Nat /\ s[n] \in Seq(T) /\ u[n] \in Seq(T)
        /\ \A i \in 1..(n - 1) : a[i] = s[i] /\ a[i] = u[i]
    BY <1>0
  <1> HIDE DEF a
  <1>2. a \in Seq(Seq(T)) /\ Len(a) = n - 1
    BY <1>0, <1>1, RowSeq
  <1>3. ASSUME NEW v \in [1..n -> Seq(T)], \A i \in 1..(n - 1) : a[i] = v[i]
        PROVE  FlattenSeq(v) = FlattenSeq(a) \o v[n]
    <2>1. v \in Seq(Seq(T)) /\ Len(v) = n /\ v[n] \in Seq(T)
      BY <1>0, RowSeq
    <2>2. /\ Append(a, v[n]) \in Seq(Seq(T)) /\ Len(Append(a, v[n])) = Len(a) + 1
          /\ \A i \in 1..Len(a) : Append(a, v[n])[i] = a[i]
          /\ Append(a, v[n])[Len(a) + 1] = v[n]
      BY <1>0, <1>2, <2>1, AppendProperties
    <2>3. ASSUME NEW i \in 1..n PROVE v[i] = Append(a, v[n])[i]
      <3>1. CASE i = n
        <4>1. Len(a) + 1 = n
          BY <1>0, <1>2
        <4> QED BY <1>0, <2>2, <3>1, <4>1
      <3>2. CASE i # n
        <4>1. i \in 1..(n - 1) /\ i \in 1..Len(a)
          BY <1>0, <1>2, <3>2
        <4> QED BY <1>0, <1>3, <2>2, <4>1
      <3> QED BY <1>0, <3>1, <3>2
    <2>4. Len(Append(a, v[n])) = n
      BY <1>0, <1>2, <2>2
    <2>5. v = Append(a, v[n])
      BY <1>0, <2>1, <2>2, <2>3, <2>4, SeqEqual
    <2> QED BY <1>0, <1>2, <2>1, <2>5, FlattenAppend
  <1>4. FlattenSeq(s) = FlattenSeq(a) \o s[n] /\ FlattenSeq(u) = FlattenSeq(a) \o u[n]
    BY <1>0, <1>1, <1>3
  <1>5. PICK p \in Seq(T) : p = FlattenSeq(a)
    BY <1>0, <1>2, FlattenType
  <1>6. PICK e \in Seq(T) : e = s[n]
    BY <1>0, <1>1
  <1>7. Cat(Cat(p, e), w) = Cat(p, Cat(e, w))
    BY <1>0, CatAssociative
  <1>8. u[n] = Cat(e, w)
    BY <1>0, <1>6
  <1> QED BY <1>0, <1>4, <1>5, <1>6, <1>7, <1>8 DEF Cat

\* The first one has more in front.
MoreInFront(T, n, s, u, w) ==
  /\ n \in Nat \ {0} /\ s \in [1..n -> Seq(T)] /\ u \in [1..n -> Seq(T)] /\ w \in Seq(T)
  /\ s[1] = Cat(w, u[1]) /\ \A i \in 2..n : s[i] = u[i]

\* What is taken from the front of the first row stood at the beginning.
LEMMA FlattenFirst ==
  ASSUME NEW T, NEW n, NEW s, NEW u, NEW w, MoreInFront(T, n, s, u, w)
  PROVE  FlattenSeq(s) = Cat(w, FlattenSeq(u))
  <1>0. /\ n \in Nat \ {0} /\ s \in [1..n -> Seq(T)] /\ u \in [1..n -> Seq(T)] /\ w \in Seq(T)
        /\ s[1] = Cat(w, u[1]) /\ \A i \in 2..n : s[i] = u[i]
    BY DEF MoreInFront
  <1>1. s \in Seq(Seq(T)) /\ u \in Seq(Seq(T)) /\ Len(s) = n /\ Len(u) = n
    BY <1>0, RowSeq
  <1>2. s # <<>> /\ u # <<>>
    BY <1>0, <1>1, EmptySeq
  <1>3. /\ Head(s) = s[1] /\ Tail(s) \in Seq(Seq(T)) /\ Len(Tail(s)) = n - 1
        /\ \A i \in 1..Len(Tail(s)) : Tail(s)[i] = s[i + 1]
        /\ Head(u) = u[1] /\ Tail(u) \in Seq(Seq(T)) /\ Len(Tail(u)) = n - 1
        /\ \A i \in 1..Len(Tail(u)) : Tail(u)[i] = u[i + 1]
    BY <1>0, <1>1, <1>2, HeadTailProperties
  <1>4. \A i \in 1..(n - 1) : i + 1 \in 2..n
    BY <1>0
  <1>5. ASSUME NEW i \in 1..Len(Tail(s)) PROVE Tail(s)[i] = Tail(u)[i]
    BY <1>0, <1>3, <1>4
  <1>6. Tail(s) = Tail(u)
    BY <1>0, <1>3, <1>5, SeqEqual
  <1>7. FlattenSeq(s) = s[1] \o FlattenSeq(Tail(s)) /\ FlattenSeq(u) = u[1] \o FlattenSeq(Tail(s))
    BY <1>0, <1>1, <1>2, <1>3, <1>6, FlattenTail
  <1>8. PICK p \in Seq(T) : p = FlattenSeq(Tail(s))
    BY <1>0, <1>3, FlattenType
  <1>9. PICK e \in Seq(T) : e = u[1]
    BY <1>0
  <1>10. Cat(Cat(w, e), p) = Cat(w, Cat(e, p))
    BY <1>0, CatAssociative
  <1>11. s[1] = Cat(w, e)
    BY <1>0, <1>9
  <1> QED BY <1>0, <1>7, <1>8, <1>9, <1>10, <1>11 DEF Cat

\* Nothing anywhere.
LEMMA FlattenNothing ==
  ASSUME NEW n \in Nat, NEW s, s = [i \in 1..n |-> <<>>]
  PROVE  FlattenSeq(s) = <<>>
  <1>0. Len(s) = n
    OBVIOUS
  <1>1. CASE n = 0
    <2>1. s = <<>>
      BY <1>1
    <2> QED BY <2>1, FlattenEmpty
  <1>2. CASE n # 0
    <2>1. <<>> \o <<>> = <<>>
      OBVIOUS
    <2>2. s = [i \in 1..n |-> IF i = 1 THEN s[i] ELSE s[i - 1] \o s[i]]
      <3>1. ASSUME NEW i \in 1..n PROVE s[i] = IF i = 1 THEN s[i] ELSE s[i - 1] \o s[i]
        <4>1. i # 1 => i - 1 \in 1..n
          OBVIOUS
        <4>2. s[i] = <<>> /\ (i # 1 => s[i - 1] = <<>>)
          BY <4>1
        <4> QED BY <2>1, <4>2
      <3> QED BY <3>1
    <2>3. FlattenSeq(s) = s[n]
      <3>1. Flattens(s, s, n)
        BY <2>2 DEF Flattens
      <3> QED BY <1>0, <1>2, <3>1, FlattenIs
    <2>4. n \in 1..n
      BY <1>2
    <2> QED BY <2>3, <2>4
  <1> QED BY <1>1, <1>2

-----------------------------------------------------------------------------
(* Sequences and finite sets.                                                *)

\* A function on 1..n is a sequence.
LEMMA SeqOfFunction ==
  ASSUME NEW n \in Nat, NEW s, s = [m \in 1..n |-> s[m]]
  PROVE  s \in Seq(Range(s)) /\ Len(s) = n /\ DOMAIN s = 1..n
  <1>1. DOMAIN s = 1..n
    OBVIOUS
  <1>2. PICK T : T = Range(s)
    OBVIOUS
  <1>3. \A m \in 1..n : s[m] \in T
    BY <1>1, <1>2 DEF Range
  <1>4. s \in [1..n -> T]
    BY <1>3
  <1>5. s \in Seq(T) /\ Len(s) = n
    BY <1>4
  <1> QED BY <1>1, <1>2, <1>5

\* A function of a finite set has finitely many values.
LEMMA FiniteImage ==
  ASSUME NEW S, IsFiniteSet(S), NEW f, f = [x \in S |-> f[x]]
  PROVE  IsFiniteSet({f[x] : x \in S})
  <1> DEFINE T == {f[x] : x \in S}
  <1>1. f \in Surjection(S, T)
    BY DEF Surjection
  <1> HIDE DEF T
  <1>2. IsFiniteSet(T)
    BY <1>1, FS_Surjection
  <1> QED BY <1>2 DEF T

\* SetToSeq gives each element of a finite set, once.
LEMMA SetInOrder ==
  ASSUME NEW R, IsFiniteSet(R)
  PROVE  /\ SetToSeq(R) \in Seq(R) /\ Range(SetToSeq(R)) = R /\ IsInjective(SetToSeq(R))
         /\ DOMAIN SetToSeq(R) = 1..Cardinality(R) /\ Cardinality(R) \in Nat
  <1> DEFINE n == Cardinality(R)
             f == SetToSeq(R)
  <1>1. n \in Nat /\ ExistsBijection(1..n, R)
    BY FS_CardinalityType
  <1>2. PICK g : g \in Bijection(1..n, R)
    BY <1>1 DEF ExistsBijection
  <1>3. g \in [1..n -> R] /\ IsInjective(g)
    BY <1>2 DEF Bijection, Injection, IsInjective
  <1>4. f \in [1..n -> R] /\ IsInjective(f)
    BY <1>3 DEF SetToSeq
  <1>5. Range(f) = R
    <2>1. f \in Injection(1..n, R)
      BY <1>4 DEF Injection, IsInjective
    <2>2. IsFiniteSet(1..n) /\ Cardinality(1..n) = n
      BY <1>1, FS_Interval
    <2>3. f \in Surjection(1..n, R)
      <3> HIDE DEF f
      <3> QED BY <2>1, <2>2, FS_Injection DEF n
    <2> QED BY <1>4, <2>3 DEF Surjection, Range
  <1>6. f \in Seq(R)
    BY <1>1, <1>4
  <1> QED BY <1>1, <1>4, <1>5, <1>6

\* A finite set of numbers has a greatest.
LEMMA MostOf ==
  ASSUME NEW P \in SUBSET Nat, P # {}, IsFiniteSet(P)
  PROVE  \E p \in P : \A q \in P : p >= q
  <1> DEFINE S == {n \in Nat : \A Q \in SUBSET Nat : IsFiniteSet(Q) /\ Q # {} /\ Cardinality(Q) = n =>
                                 \E p \in Q : \A q \in Q : p >= q}
  <1>1. 0 \in S
    BY FS_EmptySet
  <1>2. ASSUME NEW n \in Nat, n \in S PROVE n + 1 \in S
    <2> SUFFICES ASSUME NEW Q \in SUBSET Nat, IsFiniteSet(Q), Q # {}, Cardinality(Q) = n + 1
                 PROVE  \E p \in Q : \A q \in Q : p >= q
      OBVIOUS
    <2>1. PICK x \in Q : TRUE
      OBVIOUS
    <2>2. /\ IsFiniteSet(Q \ {x}) /\ Cardinality(Q \ {x}) = n /\ Q \ {x} \in SUBSET Nat
      <3>1. IsFiniteSet(Q \ {x}) /\ Cardinality(Q \ {x}) = Cardinality(Q) - 1
        BY FS_RemoveElement
      <3> QED BY <3>1
    <2>3. CASE Q \ {x} = {}
      <3>1. \A q \in Q : x >= q
        BY <2>3
      <3> QED BY <3>1
    <2>4. CASE Q \ {x} # {}
      <3>1. PICK p \in Q \ {x} : \A q \in Q \ {x} : p >= q
        BY <1>2, <2>2, <2>4
      <3>2. CASE p >= x
        <4>1. \A q \in Q : p >= q
          BY <3>1, <3>2
        <4> QED BY <4>1
      <3>3. CASE ~(p >= x)
        <4>1. \A q \in Q : x >= q
          BY <3>1, <3>3
        <4> QED BY <4>1
      <3> QED BY <3>2, <3>3
    <2> QED BY <2>3, <2>4
  <1> HIDE DEF S
  <1>3. Cardinality(P) \in S
    <2>1. Cardinality(P) \in Nat
      BY FS_CardinalityType
    <2>2. Nat \subseteq S
      BY <1>1, <1>2, Induct
    <2> QED BY <2>1, <2>2
  <1> QED BY <1>3 DEF S

\* Each element of a sequence is before those behind it, in the relation B.
OrderedBy(B, s) == \A i, j \in 1..Len(s) : i < j => <<s[i], s[j]>> \in B

\* Two sequences in order, one before the other.
LEMMA OrderConcat ==
  ASSUME NEW T, NEW s \in Seq(T), NEW t \in Seq(T), NEW B, OrderedBy(B, s), OrderedBy(B, t),
         \A e \in Range(s), f \in Range(t) : <<e, f>> \in B
  PROVE  OrderedBy(B, s \o t)
  <1>1. /\ DOMAIN s = 1..Len(s) /\ DOMAIN t = 1..Len(t) /\ Len(s) \in Nat /\ Len(t) \in Nat
        /\ Len(s \o t) = Len(s) + Len(t)
    BY LenProperties, ConcatProperties
  <1>2. \A i \in 1..(Len(s) + Len(t)) : (s \o t)[i] = IF i <= Len(s) THEN s[i] ELSE t[i - Len(s)]
    BY ConcatProperties
  <1>3. ASSUME NEW i \in 1..Len(s), NEW j \in 1..Len(t) PROVE <<s[i], t[j]>> \in B
    BY <1>1 DEF Range
  <1> DEFINE c == s \o t
  <1>4. ASSUME NEW i \in 1..(Len(s) + Len(t)), NEW j \in 1..(Len(s) + Len(t)), i < j PROVE <<c[i], c[j]>> \in B
    <2>1. ASSUME NEW k \in 1..(Len(s) + Len(t))
          PROVE  \/ k \in 1..Len(s) /\ c[k] = s[k]
                 \/ k - Len(s) \in 1..Len(t) /\ c[k] = t[k - Len(s)]
      BY <1>1, <1>2
    <2> HIDE DEF c
    <2>2. CASE i \in 1..Len(s) /\ c[i] = s[i] /\ j \in 1..Len(s) /\ c[j] = s[j]
      BY <1>1, <1>4, <2>2 DEF OrderedBy
    <2>3. CASE /\ i - Len(s) \in 1..Len(t) /\ c[i] = t[i - Len(s)]
               /\ j - Len(s) \in 1..Len(t) /\ c[j] = t[j - Len(s)]
      <3>1. i - Len(s) < j - Len(s)
        BY <1>1, <1>4
      <3> QED BY <2>3, <3>1 DEF OrderedBy
    <2>4. CASE i \in 1..Len(s) /\ c[i] = s[i] /\ j - Len(s) \in 1..Len(t) /\ c[j] = t[j - Len(s)]
      BY <1>3, <2>4
    <2>5. CASE i - Len(s) \in 1..Len(t) /\ j \in 1..Len(s)
      BY <1>1, <1>4, <2>5
    <2> QED BY <2>1, <2>2, <2>3, <2>4, <2>5
  <1> QED BY <1>1, <1>4 DEF OrderedBy

AllOrderedBy(B, s) == /\ \A n \in 1..Len(s) : OrderedBy(B, s[n])
                      /\ \A n, m \in 1..Len(s) : n < m =>
                           \A e \in Range(s[n]), f \in Range(s[m]) : <<e, f>> \in B

\* Rows in order, each in order, are flattened to a sequence in order.
LEMMA FlattenOrder ==
  ASSUME NEW T, NEW s \in Seq(Seq(T)), NEW B, AllOrderedBy(B, s)
  PROVE  OrderedBy(B, FlattenSeq(s))
  <1> DEFINE S == {n \in Nat : \A r \in Seq(Seq(T)) :
                     Len(r) = n /\ AllOrderedBy(B, r) => OrderedBy(B, FlattenSeq(r))}
  <1>1. 0 \in S
    <2> SUFFICES OrderedBy(B, FlattenSeq(<<>>))
      BY EmptySeq
    <2> QED BY FlattenEmpty DEF OrderedBy
  <1>2. ASSUME NEW n \in Nat, n \in S PROVE n + 1 \in S
    <2> SUFFICES ASSUME NEW r \in Seq(Seq(T)), Len(r) = n + 1, AllOrderedBy(B, r)
                 PROVE  OrderedBy(B, FlattenSeq(r))
      OBVIOUS
    <2>1. r # <<>>
      BY EmptySeq
    <2>2. PICK q \in Seq(Seq(T)), e \in Seq(T) : r = Append(q, e)
      BY <2>1, SequenceEmptyOrAppend
    <2>3. Len(q) = n /\ r[n + 1] = e /\ \A m \in 1..n : r[m] = q[m]
      BY <2>2, AppendProperties, LenProperties
    <2>4. n + 1 \in 1..(n + 1) /\ \A m \in 1..n : m \in 1..(n + 1) /\ m < n + 1
      OBVIOUS
    <2>5. AllOrderedBy(B, q) /\ OrderedBy(B, e)
      BY <2>3, <2>4 DEF AllOrderedBy
    <2>6. OrderedBy(B, FlattenSeq(q))
      BY <1>2, <2>3, <2>5
    <2>7. FlattenSeq(r) = FlattenSeq(q) \o e /\ FlattenSeq(q) \in Seq(T)
      BY <2>2, FlattenAppend, FlattenType
    <2>8. Range(FlattenSeq(q)) = UNION {Range(q[m]) : m \in 1..Len(q)}
      BY FlattenRange
    <2>9. ASSUME NEW x \in Range(FlattenSeq(q)), NEW y \in Range(e) PROVE <<x, y>> \in B
      <3>1. PICK m \in 1..n : x \in Range(q[m])
        BY <2>3, <2>8
      <3> QED BY <2>3, <2>4, <3>1 DEF AllOrderedBy
    <2> QED BY <2>5, <2>6, <2>7, <2>9, OrderConcat
  <1> HIDE DEF S
  <1>3. Nat \subseteq S
    BY <1>1, <1>2, Induct
  <1> QED BY <1>3, LenProperties DEF S
=============================================================================
