--------------------------- MODULE SplitterProofs ---------------------------
(***************************************************************************)
(* For every splitter.dat and every sequence of calls: the marker state is *)
(* what rereading the open sentence gives, markers protect what they       *)
(* enclose and nothing else, a flush forgets everything, and the splitter  *)
(* implements Segmenter.                                                   *)
(***************************************************************************)
EXTENDS Splitter, Flattening

\* The flag, the stack, the counter and the buffer agree with one another.
MarkersAgree == /\ betweenMrk = (mark_type # <<>>)
                /\ betweenMrk => buffer # <<>>
                /\ ~betweenMrk => no_split_count = 0

IInv == TypeOK /\ MarkersAgree /\ FlushForgets /\ Conserved

USE DEF state, call, vars, Contract!Conserved, Conserved

LEMMA CodesInRange == ASSUME NEW f \in DOMAIN markers PROVE markers[f] \in Range(markers)
  BY DEF Range

\* A word that is read belongs to Word, and the iterator stays in the list.
LEMMA ReadWord ==
  ASSUME TypeOK, HasForm
  PROVE  /\ Form \in Word
         /\ w \in 1..Len(v) /\ w + 1 \in 0..(Len(v) + 1) /\ w + 1 # 0
  BY DEF TypeOK, HasForm, Form

\* Moving the word just read to the end of the buffer keeps types and text.
LEMMA PushWord ==
  ASSUME TypeOK, Conserved, NEW x \in Word
  PROVE  /\ Append(consumed, x) \in Seq(Word)
         /\ Append(buffer, x) \in Seq(Word) /\ Append(buffer, x) # <<>>
         /\ Append(consumed, x) = done \o Append(buffer, x)
  <1>1. consumed \in Seq(Word) /\ done \in Seq(Word) /\ buffer \in Seq(Word) /\ <<x>> \in Seq(Word)
    BY DEF TypeOK
  <1>2. Append(consumed, x) = consumed \o <<x>> /\ Append(buffer, x) = buffer \o <<x>>
    BY <1>1, AppendIsConcat
  <1>3. (done \o buffer) \o <<x>> = done \o (buffer \o <<x>>)
    BY <1>1, ConcatAssociative
  <1> QED BY <1>1, <1>2, <1>3, AppendProperties

-----------------------------------------------------------------------------

LEMMA InitIInv == Init => IInv
  <1> SUFFICES ASSUME Init PROVE IInv
    OBVIOUS
  <1>1. TypeOK
    <2>1. options \in [AllowBetweenMarkers : BOOLEAN, MaxWords : Nat]
      BY SplitterAssumption DEF Init
    <2>2. w \in 0..(Len(v) + 1)
      BY DEF Init
    <2> QED BY <2>1, <2>2, EmptySeq DEF Init, TypeOK
  <1>2. MarkersAgree /\ FlushForgets
    BY DEF Init, MarkersAgree, FlushForgets, Running
  <1>3. Conserved
    BY DEF Init
  <1> QED BY <1>1, <1>2, <1>3 DEF IInv

LEMMA StepIInv == IInv /\ [Next]_vars => IInv'
  <1> SUFFICES ASSUME IInv, [Next]_vars PROVE IInv'
    OBVIOUS
  <1> USE DEF IInv
  <1>1. ASSUME NEW words \in WordLists, NEW fl \in BOOLEAN, Split(words, fl) PROVE IInv'
    <2>1. words \in Seq(Word)
      BY SeqDef DEF WordLists
    <2>2. TypeOK'
      BY <1>1, <2>1, EmptySeq DEF Split, TypeOK
    <2> QED BY <1>1, <2>2 DEF Split, MarkersAgree, FlushForgets, Running
  <1>2. CASE CloseMarker
    <2> USE <1>2 DEF CloseMarker, Read, PushBack
    <2>1. Form \in Word /\ w' \in 0..(Len(v) + 1) /\ w' # 0
      BY ReadWord
    <2>2. mark_type # <<>> /\ Tail(mark_type) \in Seq(Range(markers))
      BY HeadTailProperties DEF MarkersAgree, Closes, TypeOK
    <2>3. buffer' \in Seq(Word) /\ buffer' # <<>> /\ consumed' \in Seq(Word)
      BY <2>1, PushWord
    <2>4. TypeOK'
      BY <2>1, <2>2, <2>3 DEF TypeOK
    <2>5. Conserved'
      BY <2>1, PushWord
    <2> QED BY <2>1, <2>3, <2>4, <2>5 DEF MarkersAgree, FlushForgets, Running
  <1>3. CASE OpenMarker
    <2> USE <1>3 DEF OpenMarker, Read, PushBack
    <2>1. Form \in Word /\ w' \in 0..(Len(v) + 1) /\ w' # 0
      BY ReadWord
    <2>2. mark_type' \in Seq(Range(markers)) /\ mark_type' # <<>>
      <3>1. markers[Form] \in Range(markers)
        BY CodesInRange DEF Opens
      <3>2. <<markers[Form]>> \in Seq(Range(markers)) /\ Len(<<markers[Form]>>) = 1
        BY <3>1
      <3>3. mark_type' = <<markers[Form]>> \o mark_type /\ mark_type \in Seq(Range(markers))
        BY DEF TypeOK
      <3>4. mark_type' \in Seq(Range(markers)) /\ Len(mark_type') = 1 + Len(mark_type)
        BY <3>2, <3>3, ConcatProperties
      <3> QED BY <3>3, <3>4, EmptySeq, LenProperties
    <2>3. buffer' \in Seq(Word) /\ buffer' # <<>> /\ consumed' \in Seq(Word)
      BY <2>1, PushWord
    <2>4. TypeOK'
      BY <2>1, <2>2, <2>3 DEF TypeOK
    <2>5. Conserved'
      BY <2>1, PushWord
    <2> QED BY <2>1, <2>2, <2>3, <2>4, <2>5 DEF MarkersAgree, FlushForgets, Running
  <1>4. CASE InsideMarker \/ Accumulate
    <2>1. /\ Read /\ PushBack /\ no_split_count' = Counted
          /\ UNCHANGED <<betweenMrk, mark_type>>
      BY <1>4 DEF InsideMarker, Accumulate
    <2> USE <2>1 DEF Read, PushBack
    <2>2. Form \in Word /\ w' \in 0..(Len(v) + 1) /\ w' # 0
      BY ReadWord
    <2>3. buffer' \in Seq(Word) /\ buffer' # <<>> /\ consumed' \in Seq(Word)
      BY <2>2, PushWord
    <2>4. no_split_count' \in Nat /\ (~betweenMrk' => no_split_count' = 0)
      BY DEF Counted, TypeOK, MarkersAgree
    <2>5. TypeOK'
      BY <2>2, <2>3, <2>4 DEF TypeOK
    <2>6. Conserved'
      BY <2>2, PushWord
    <2> QED BY <2>2, <2>3, <2>4, <2>5, <2>6 DEF MarkersAgree, FlushForgets, Running
  <1>5. CASE EndSentence
    <2> USE <1>5 DEF EndSentence, Read, ClearSentence
    <2>1. Form \in Word /\ w' \in 0..(Len(v) + 1) /\ w' # 0
      BY ReadWord
    <2>2. Append(buffer, Form) \in Seq(Word) /\ consumed' \in Seq(Word)
      BY <2>1, PushWord
    <2>3. ls' \in Seq(Seq(Word)) /\ done' \in Seq(Word)
      BY <2>2, AppendProperties, ConcatProperties DEF TypeOK
    <2>4. TypeOK'
      BY <2>1, <2>2, <2>3, EmptySeq DEF TypeOK
    <2>5. Conserved'
      BY <2>1, <2>2, <2>3, PushWord, ConcatEmptySeq
    <2> QED BY <2>1, <2>4, <2>5 DEF MarkersAgree, FlushForgets, Running
  <1>6. CASE ReturnKeeping
    <2>1. TypeOK'
      BY <1>6 DEF ReturnKeeping, Return, TypeOK
    <2>2. FlushForgets'
      BY <1>6 DEF ReturnKeeping, Return, FlushForgets, MarkersAgree
    <2> QED BY <1>6, <2>1, <2>2 DEF ReturnKeeping, Return, MarkersAgree
  <1>7. CASE ReturnFlushing
    <2> USE <1>7 DEF ReturnFlushing, Return, ClearSentence
    <2>1. ls' \in Seq(Seq(Word))
      BY AppendProperties DEF TypeOK
    <2>2. done' \in Seq(Word)
      BY ConcatProperties DEF TypeOK
    <2>3. TypeOK'
      <3>1. Len(v) \in Nat
        BY LenProperties DEF TypeOK
      <3>2. w' \in 0..(Len(v') + 1) /\ UNCHANGED <<v, flush, options, consumed>>
        BY <3>1
      <3>3. buffer' \in Seq(Word) /\ mark_type' \in Seq(Range(markers))
        BY EmptySeq
      <3> QED BY <2>1, <2>2, <3>2, <3>3 DEF TypeOK
    <2>4. Conserved'
      <3>1. done' \o <<>> = done'
        BY <2>2, ConcatEmptySeq
      <3>2. consumed' = done' /\ buffer' = <<>>
        OBVIOUS
      <3>3. consumed' = done' \o buffer'
        BY <3>1, <3>2
      <3> QED BY <3>3
    <2> QED BY <2>3, <2>4 DEF MarkersAgree, FlushForgets
  <1>8. CASE UNCHANGED vars
    BY <1>8 DEF TypeOK, MarkersAgree, FlushForgets, Running
  <1> QED BY <1>1, <1>2, <1>3, <1>4, <1>5, <1>6, <1>7, <1>8 DEF Next

LEMMA Inductive == Spec => []IInv
  BY InitIInv, StepIInv, PTL DEF Spec

\* Every variable of the splitter keeps its type, whatever it is fed.
THEOREM TypeCorrect == Spec => []TypeOK
  BY Inductive, PTL DEF IInv

\* After a call with flush the splitter is as new: no word and no open marker
\* of one text reaches the next.
THEOREM FlushIsComplete == Spec => []FlushForgets
  BY Inductive, PTL DEF IInv

\* The words of the sentences returned followed by those in the buffer are the
\* words received, in the same order.
THEOREM NothingLost == Spec => []Conserved
  BY Inductive, PTL DEF IInv

-----------------------------------------------------------------------------

LEMMA InitImplements == Init => Contract!Init
  BY DEF Init, Contract!Init

LEMMA StepImplements == IInv /\ [Next]_vars => [Contract!Next]_(Contract!vars)
  <1> SUFFICES ASSUME IInv, [Next]_vars PROVE [Contract!Next]_(Contract!vars)
    OBVIOUS
  <1> USE DEF IInv, Contract!vars
  <1>1. CASE CloseMarker \/ OpenMarker \/ InsideMarker \/ Accumulate
    <2>1. HasForm /\ consumed' = Append(consumed, Form) /\ PushBack
      BY <1>1 DEF CloseMarker, OpenMarker, InsideMarker, Accumulate, Read
    <2>2. Form \in Word
      BY <2>1, ReadWord
    <2>3. Contract!Hold(Form)
      BY <2>1 DEF PushBack, Contract!Hold
    <2> QED BY <2>2, <2>3 DEF Contract!Next
  <1>2. CASE EndSentence
    <2>1. Form \in Word
      BY <1>2, ReadWord DEF EndSentence, Read
    <2>2. Contract!Close(Form)
      BY <1>2 DEF EndSentence, Read, EndsHere, ClearSentence, Contract!Close
    <2> QED BY <2>1, <2>2 DEF Contract!Next
  <1>3. CASE ReturnFlushing
    BY <1>3 DEF ReturnFlushing, Return, ClearSentence, Contract!Flush, Contract!Next
  <1>4. ASSUME NEW words \in WordLists, NEW fl \in BOOLEAN, Split(words, fl)
        PROVE  UNCHANGED Contract!vars
    BY <1>4 DEF Split
  <1>5. CASE ReturnKeeping
    BY <1>5 DEF ReturnKeeping, Return
  <1> QED BY <1>1, <1>2, <1>3, <1>4, <1>5 DEF Next

\* The splitter implements Segmenter: every step holds the word read, closes a
\* sentence with a word that may end one, or flushes.
THEOREM SplitterImplementsSegmenter == Spec => ImplementsSegmenter
  BY InitImplements, StepImplements, Inductive, PTL DEF Spec, ImplementsSegmenter, Contract!Spec

-----------------------------------------------------------------------------
\* What the definition of OpenAfter asks of its recursive function, up to n.
Stacks(g, s, n) == g = [i \in 0..n |-> IF i = 0 THEN <<>> ELSE Stacked(g[i - 1], s[i])]

LEMMA StacksExists ==
  ASSUME NEW s, NEW n \in Nat
  PROVE  \E g : Stacks(g, s, n)
  <1> DEFINE S == {m \in Nat : \E g : Stacks(g, s, m)}
  <1>1. 0 \in S
    <2>1. Stacks([i \in 0..0 |-> <<>>], s, 0)
      BY DEF Stacks
    <2> QED BY <2>1
  <1>2. ASSUME NEW m \in Nat, m \in S PROVE m + 1 \in S
    <2>1. PICK g : Stacks(g, s, m)
      BY <1>2
    <2> DEFINE h == [i \in 0..(m + 1) |-> IF i <= m THEN g[i] ELSE Stacked(g[i - 1], s[i])]
    <2>2. ASSUME NEW i \in 0..(m + 1)
          PROVE  h[i] = IF i = 0 THEN <<>> ELSE Stacked(h[i - 1], s[i])
      <3>1. i # 0 => i - 1 \in 0..(m + 1) /\ h[i - 1] = g[i - 1]
        OBVIOUS
      <3>2. CASE i <= m
        <4>1. i \in 0..m
          BY <3>2
        <4>2. g[i] = IF i = 0 THEN <<>> ELSE Stacked(g[i - 1], s[i])
          BY <2>1, <4>1 DEF Stacks
        <4>3. h[i] = g[i]
          BY <3>2
        <4> HIDE DEF h
        <4> QED BY <3>1, <4>2, <4>3
      <3>3. CASE ~(i <= m)
        <4>1. h[i] = Stacked(g[i - 1], s[i]) /\ i # 0
          BY <3>3
        <4> HIDE DEF h
        <4> QED BY <3>1, <4>1
      <3> QED BY <3>2, <3>3
    <2>3. h = [i \in 0..(m + 1) |-> h[i]]
      OBVIOUS
    <2> HIDE DEF h
    <2>4. Stacks(h, s, m + 1)
      BY <2>2, <2>3 DEF Stacks
    <2> QED BY <2>4
  <1> HIDE DEF S
  <1>3. Nat \subseteq S
    BY <1>1, <1>2, Induct
  <1> QED BY <1>3 DEF S

LEMMA StacksUnique ==
  ASSUME NEW s, NEW n \in Nat, NEW g, NEW h, Stacks(g, s, n), Stacks(h, s, n)
  PROVE  g = h
  <1> DEFINE S == {m \in Nat : m \in 0..n => g[m] = h[m]}
  <1>1. 0 \in S
    BY DEF Stacks
  <1>2. ASSUME NEW m \in Nat, m \in S PROVE m + 1 \in S
    <2> SUFFICES ASSUME m + 1 \in 0..n PROVE g[m + 1] = h[m + 1]
      OBVIOUS
    <2>1. g[m + 1] = Stacked(g[(m + 1) - 1], s[m + 1]) /\ h[m + 1] = Stacked(h[(m + 1) - 1], s[m + 1])
      BY DEF Stacks
    <2>2. g[m] = h[m] /\ (m + 1) - 1 = m
      BY <1>2
    <2> QED BY <2>1, <2>2
  <1> HIDE DEF S
  <1>3. Nat \subseteq S
    BY <1>1, <1>2, Induct
  <1>4. \A m \in 0..n : g[m] = h[m]
    BY <1>3 DEF S
  <1> QED BY <1>4 DEF Stacks

LEMMA OpenIs ==
  ASSUME NEW s, NEW n \in Nat, Len(s) = n, NEW g, Stacks(g, s, n)
  PROVE  OpenAfter(s) = g[n]
  <1> DEFINE f == CHOOSE f : f = [i \in 0..Len(s) |-> IF i = 0 THEN <<>> ELSE Stacked(f[i - 1], s[i])]
  <1>1. Stacks(f, s, n)
    BY DEF Stacks
  <1>2. OpenAfter(s) = f[n]
    BY DEF OpenAfter
  <1> HIDE DEF f
  <1> QED BY <1>1, <1>2, StacksUnique

LEMMA OpenEmpty == OpenAfter(<<>>) = <<>>
  <1>1. PICK g : Stacks(g, <<>>, 0)
    BY StacksExists
  <1>2. Len(<<>>) = 0 /\ g[0] = <<>>
    BY <1>1 DEF Stacks
  <1> QED BY <1>1, <1>2, OpenIs

\* One word more.
LEMMA OpenAppend ==
  ASSUME NEW s \in Seq(Word), NEW x \in Word
  PROVE  OpenAfter(Append(s, x)) = Stacked(OpenAfter(s), x)
  <1> DEFINE n == Len(s)
             t == Append(s, x)
  <1>1. /\ n \in Nat /\ n + 1 \in Nat /\ Len(t) = n + 1 /\ t[n + 1] = x
        /\ \A i \in 1..n : t[i] = s[i]
    BY LenProperties, AppendProperties
  <1> HIDE DEF t
  <1>2. PICK h : Stacks(h, t, n + 1)
    BY <1>1, StacksExists
  <1> DEFINE g == [i \in 0..n |-> h[i]]
  <1>3. \A i \in 0..(n + 1) : h[i] = IF i = 0 THEN <<>> ELSE Stacked(h[i - 1], t[i])
    BY <1>2 DEF Stacks
  <1>4. ASSUME NEW i \in 0..n PROVE g[i] = IF i = 0 THEN <<>> ELSE Stacked(g[i - 1], s[i])
    <2>1. i \in 0..(n + 1) /\ (i # 0 => i \in 1..n /\ i - 1 \in 0..n)
      BY <1>1
    <2>2. g[i] = h[i] /\ (i # 0 => g[i - 1] = h[i - 1])
      BY <2>1
    <2> HIDE DEF g
    <2> QED BY <1>1, <1>3, <2>1, <2>2
  <1>5. g = [i \in 0..n |-> g[i]]
    OBVIOUS
  <1>6. g[n] = h[n]
    BY <1>1
  <1> HIDE DEF g
  <1>7. Stacks(g, s, n)
    BY <1>4, <1>5 DEF Stacks
  <1>8. OpenAfter(s) = g[n] /\ OpenAfter(t) = h[n + 1]
    BY <1>1, <1>2, <1>7, OpenIs
  <1>9. n + 1 \in 0..(n + 1) /\ n + 1 # 0 /\ (n + 1) - 1 = n
    BY <1>1
  <1>10. h[n + 1] = Stacked(h[n], x)
    BY <1>1, <1>3, <1>9
  <1> QED BY <1>6, <1>8, <1>10 DEF t

\* The beginnings of a sequence that got one word more.
LEMMA Beginnings ==
  ASSUME NEW s \in Seq(Word), NEW x \in Word
  PROVE  /\ \A n \in 0..Len(s) : SubSeq(Append(s, x), 1, n) = SubSeq(s, 1, n)
         /\ SubSeq(Append(s, x), 1, Len(s) + 1) = Append(s, x)
         /\ SubSeq(s, 1, 0) = <<>> /\ SubSeq(s, 1, Len(s)) = s
         /\ Len(Append(s, x)) = Len(s) + 1 /\ Len(s) \in Nat
  <1>1. /\ Append(s, x) \in Seq(Word) /\ Len(Append(s, x)) = Len(s) + 1 /\ Len(s) \in Nat
        /\ \A i \in 1..Len(s) : Append(s, x)[i] = s[i]
    BY LenProperties, AppendProperties
  <1>2. \A n \in 0..Len(s) : SubSeq(Append(s, x), 1, n) = SubSeq(s, 1, n)
    <2> SUFFICES ASSUME NEW n \in 0..Len(s) PROVE SubSeq(Append(s, x), 1, n) = SubSeq(s, 1, n)
      OBVIOUS
    <2>1. /\ SubSeq(s, 1, n) = [i \in 1..n |-> s[i]]
          /\ SubSeq(Append(s, x), 1, n) = [i \in 1..n |-> Append(s, x)[i]]
      BY <1>1
    <2> QED BY <1>1, <2>1
  <1>3. SubSeq(s, 1, 0) = <<>>
    OBVIOUS
  <1>4. \A t \in Seq(Word) : SubSeq(t, 1, Len(t)) = t
    OBVIOUS
  <1> QED BY <1>1, <1>2, <1>3, <1>4

-----------------------------------------------------------------------------
(* InsideCount counts from the last point at which all markers were closed.  *)

ClosedAt(s) == {n \in 0..Len(s) : OpenAfter(SubSeq(s, 1, n)) = <<>>}
LastOf(S, m) == m \in S /\ \A k \in S : k <= m

LEMMA InsideIs ==
  ASSUME NEW s, Len(s) \in Nat, NEW m, LastOf(ClosedAt(s), m)
  PROVE  InsideCount(s) = Len(s) - m
  <1> DEFINE c == CHOOSE n \in ClosedAt(s) : \A k \in ClosedAt(s) : k <= n
  <1>1. c \in ClosedAt(s) /\ \A k \in ClosedAt(s) : k <= c
    BY DEF LastOf
  <1>2. InsideCount(s) = Len(s) - c
    BY DEF InsideCount, ClosedAt
  <1>3. c = m
    <2>1. ClosedAt(s) \subseteq Nat
      BY DEF ClosedAt
    <2> HIDE DEF c
    <2> QED BY <1>1, <2>1 DEF LastOf
  <1> QED BY <1>2, <1>3

LEMMA ClosedLast ==
  ASSUME NEW s \in Seq(Word)
  PROVE  \E m \in 0..Len(s) : LastOf(ClosedAt(s), m)
  <1>1. Len(s) \in Nat /\ 0 \in ClosedAt(s)
    <2>1. Len(s) \in Nat /\ 0 \in 0..Len(s)
      BY LenProperties
    <2>2. SubSeq(s, 1, 0) = <<>>
      OBVIOUS
    <2>3. OpenAfter(SubSeq(s, 1, 0)) = <<>>
      BY <2>2, OpenEmpty, ZenonT(80)
    <2> QED BY <2>1, <2>3 DEF ClosedAt
  <1> DEFINE T == {n \in 0..Len(s) : Len(s) - n \in ClosedAt(s)}
  <1>2. T \in SUBSET Nat /\ Len(s) \in T
    BY <1>1
  <1>3. PICK m \in T : \A n \in T : m <= n
    BY <1>2, Least
  <1>4. Len(s) - m \in 0..Len(s) /\ Len(s) - m \in ClosedAt(s)
    BY <1>1, <1>3
  <1>5. ASSUME NEW k \in ClosedAt(s) PROVE k <= Len(s) - m
    <2>1. k \in 0..Len(s) /\ Len(s) - k \in 0..Len(s) /\ Len(s) - (Len(s) - k) = k
      BY <1>1 DEF ClosedAt
    <2>2. Len(s) - k \in T
      BY <2>1
    <2> QED BY <1>1, <1>3, <2>1, <2>2
  <1> QED BY <1>4, <1>5 DEF LastOf

LEMMA InsideEmpty == InsideCount(<<>>) = 0
  <1>1. Len(<<>>) = 0 /\ <<>> \in Seq(Word)
    BY EmptySeq
  <1>2. PICK m \in 0..0 : LastOf(ClosedAt(<<>>), m)
    BY <1>1, ClosedLast
  <1> QED BY <1>1, <1>2, InsideIs

LEMMA InsideAppend ==
  ASSUME NEW s \in Seq(Word), NEW x \in Word
  PROVE  InsideCount(Append(s, x)) = IF OpenAfter(Append(s, x)) = <<>> THEN 0
                                     ELSE InsideCount(s) + 1
  <1> DEFINE t == Append(s, x)
             L == Len(s)
  <1>1. /\ \A n \in 0..L : SubSeq(t, 1, n) = SubSeq(s, 1, n)
        /\ SubSeq(t, 1, L + 1) = t /\ Len(t) = L + 1 /\ L \in Nat
    BY Beginnings
  <1> HIDE DEF t
  <1>2. \A n \in 0..L : n \in ClosedAt(t) <=> n \in ClosedAt(s)
    <2>1. \A n \in 0..L : n \in 0..Len(t)
      BY <1>1
    <2> QED BY <1>1, <2>1 DEF ClosedAt
  <1>3. L + 1 \in ClosedAt(t) <=> OpenAfter(t) = <<>>
    <2>1. L + 1 \in 0..Len(t)
      BY <1>1
    <2> QED BY <1>1, <2>1 DEF ClosedAt
  <1>4. ClosedAt(t) \subseteq 0..(L + 1) /\ ClosedAt(s) \subseteq 0..L
    BY <1>1 DEF ClosedAt
  <1>5. CASE OpenAfter(t) = <<>>
    <2>1. LastOf(ClosedAt(t), L + 1)
      BY <1>1, <1>3, <1>4, <1>5 DEF LastOf
    <2>2. InsideCount(t) = Len(t) - (L + 1)
      BY <1>1, <2>1, InsideIs
    <2> QED BY <1>1, <1>5, <2>2 DEF t
  <1>6. CASE OpenAfter(t) # <<>>
    <2>1. PICK m \in 0..L : LastOf(ClosedAt(s), m)
      BY ClosedLast
    <2>2. LastOf(ClosedAt(t), m)
      <3>1. m \in ClosedAt(t)
        BY <1>2, <2>1 DEF LastOf
      <3>2. ASSUME NEW k \in ClosedAt(t) PROVE k <= m
        <4>1. k \in 0..L
          BY <1>1, <1>3, <1>4, <1>6
        <4> QED BY <1>2, <2>1, <4>1 DEF LastOf
      <3> QED BY <3>1, <3>2 DEF LastOf
    <2>3. InsideCount(t) = Len(t) - m /\ InsideCount(s) = L - m
      BY <1>1, <2>1, <2>2, InsideIs
    <2> QED BY <1>1, <1>6, <2>3 DEF t
  <1> QED BY <1>5, <1>6

-----------------------------------------------------------------------------
(* The marker state and the sentence ends in the buffer.                     *)

\* A sure end held at place n of s stands inside markers, or opens or closes one.
HeldEnd(s, n) ==
  (s[n] \in DOMAIN enders /\ enders[s[n]]) =>
     /\ ~options.AllowBetweenMarkers
     /\ OpenAfter(SubSeq(s, 1, n - 1)) # <<>> \/ OpenAfter(SubSeq(s, 1, n)) # <<>>

Rereads == MarkerStateOfBuffer /\ \A n \in 1..Len(buffer) : HeldEnd(buffer, n)

\* The state of the markers of which s is the open sentence.
MarkersOf(s, between, stack, count) ==
  /\ between <=> stack # <<>>
  /\ options.AllowBetweenMarkers => stack = <<>> /\ count = 0
  /\ ~options.AllowBetweenMarkers => stack = OpenAfter(s) /\ count = InsideCount(s)

LEMMA MarkersOfBuffer ==
  ASSUME TypeOK
  PROVE  MarkerStateOfBuffer <=> MarkersOf(buffer, betweenMrk, mark_type, no_split_count)
  BY DEF TypeOK, MarkerStateOfBuffer, MarkersOf

\* The next word of a sentence: the three ways the stack may change.
LEMMA Pushed ==
  ASSUME IInv, Rereads, HasForm, UNCHANGED options, buffer' = Append(buffer, Form), TypeOK',
         betweenMrk' <=> mark_type' # <<>>,
         options.AllowBetweenMarkers => mark_type' = <<>> /\ no_split_count' = 0,
         ~options.AllowBetweenMarkers => /\ mark_type' = Stacked(mark_type, Form)
                                         /\ no_split_count' = IF mark_type' = <<>> THEN 0
                                                              ELSE no_split_count + 1,
         (Form \in DOMAIN enders /\ enders[Form]) =>
           ~options.AllowBetweenMarkers /\ (mark_type # <<>> \/ mark_type' # <<>>)
  PROVE  Rereads'
  <1>1. TypeOK /\ Form \in Word /\ buffer \in Seq(Word)
    BY ReadWord DEF IInv, TypeOK
  <1>2. MarkersOf(buffer, betweenMrk, mark_type, no_split_count)
    BY <1>1, MarkersOfBuffer DEF Rereads
  <1>3. PICK b \in Seq(Word), x \in Word : b = buffer /\ x = Form
    BY <1>1
  <1>4. /\ OpenAfter(Append(b, x)) = Stacked(OpenAfter(b), x)
        /\ InsideCount(Append(b, x)) = IF OpenAfter(Append(b, x)) = <<>> THEN 0
                                       ELSE InsideCount(b) + 1
    BY OpenAppend, InsideAppend
  <1>5. MarkersOf(Append(b, x), betweenMrk', mark_type', no_split_count')
    BY <1>2, <1>3, <1>4 DEF MarkersOf
  <1>6. MarkerStateOfBuffer'
    BY <1>3, <1>5 DEF TypeOK, MarkerStateOfBuffer, MarkersOf
  <1>7. /\ \A n \in 0..Len(b) : SubSeq(Append(b, x), 1, n) = SubSeq(b, 1, n)
        /\ SubSeq(Append(b, x), 1, Len(b) + 1) = Append(b, x) /\ SubSeq(b, 1, Len(b)) = b
        /\ Len(Append(b, x)) = Len(b) + 1 /\ Len(b) \in Nat
    BY Beginnings
  <1>8. \A n \in 1..Len(b) : Append(b, x)[n] = b[n] /\ Append(b, x)[Len(b) + 1] = x
    BY AppendProperties
  <1>9. ASSUME NEW n \in 1..Len(Append(b, x)) PROVE HeldEnd(Append(b, x), n)
    <2>1. CASE n \in 1..Len(b)
      <3>1. HeldEnd(b, n)
        BY <1>3, <2>1 DEF Rereads
      <3>2. n - 1 \in 0..Len(b) /\ n \in 0..Len(b)
        BY <1>7, <2>1
      <3> QED BY <1>7, <1>8, <2>1, <3>1, <3>2 DEF HeldEnd
    <2>2. CASE n = Len(b) + 1
      <3>1. SubSeq(Append(b, x), 1, n - 1) = b /\ SubSeq(Append(b, x), 1, n) = Append(b, x)
        BY <1>7, <2>2
      <3>2. Append(b, x)[n] = x
        BY <2>2, AppendProperties
      <3>3. ~options.AllowBetweenMarkers =>
              OpenAfter(b) = mark_type /\ OpenAfter(Append(b, x)) = mark_type'
        BY <1>2, <1>3, <1>5 DEF MarkersOf
      <3> QED BY <1>3, <3>1, <3>2, <3>3 DEF HeldEnd
    <2> QED BY <1>7, <2>1, <2>2
  <1>10. \A n \in 1..Len(Append(b, x)) : HeldEnd(Append(b, x), n)'
    BY <1>9 DEF HeldEnd, OpenAfter
  <1> QED BY <1>3, <1>6, <1>10 DEF Rereads

\* The sentence is closed and everything forgotten.
LEMMA Cleared ==
  ASSUME TypeOK, ClearSentence, UNCHANGED options
  PROVE  Rereads'
  <1>1. OpenAfter(<<>>) = <<>> /\ InsideCount(<<>>) = 0 /\ Len(<<>>) = 0
    BY OpenEmpty, InsideEmpty
  <1>2. /\ buffer' = <<>> /\ betweenMrk' = FALSE /\ no_split_count' = 0 /\ mark_type' = <<>>
    BY DEF ClearSentence
  <1>3. MarkerStateOfBuffer'
    BY <1>1, <1>2 DEF MarkerStateOfBuffer
  <1>4. \A n \in 1..Len(buffer') : FALSE
    BY <1>1, <1>2
  <1> QED BY <1>3, <1>4 DEF Rereads

LEMMA InitRereads == Init => Rereads
  <1> SUFFICES ASSUME Init PROVE Rereads
    OBVIOUS
  <1>1. OpenAfter(<<>>) = <<>> /\ InsideCount(<<>>) = 0 /\ Len(<<>>) = 0
    BY OpenEmpty, InsideEmpty
  <1>2. buffer = <<>> /\ betweenMrk = FALSE /\ no_split_count = 0 /\ mark_type = <<>>
    BY DEF Init
  <1>3. MarkerStateOfBuffer
    BY <1>1, <1>2 DEF MarkerStateOfBuffer
  <1>4. \A n \in 1..Len(buffer) : FALSE
    BY <1>1, <1>2
  <1> QED BY <1>3, <1>4 DEF Rereads

LEMMA StepRereads ==
  ASSUME IInv, IInv', Rereads, [Next]_vars
  PROVE  Rereads'
  <1>1. /\ TypeOK /\ TypeOK' /\ mark_type \in Seq(Range(markers)) /\ betweenMrk \in BOOLEAN
        /\ no_split_count \in Nat
    BY DEF IInv, TypeOK
  <1>2. MarkersOf(buffer, betweenMrk, mark_type, no_split_count)
    BY <1>1, MarkersOfBuffer DEF Rereads
  <1>3. ASSUME UNCHANGED <<state, buffer, options>> PROVE Rereads'
    BY <1>3 DEF Rereads, MarkerStateOfBuffer, HeldEnd
  <1>4. CASE CloseMarker
    <2>1. /\ HasForm /\ UNCHANGED options /\ buffer' = Append(buffer, Form) /\ Closes
          /\ mark_type' = Tail(mark_type) /\ betweenMrk' = (Tail(mark_type) # <<>>)
          /\ no_split_count' = IF Tail(mark_type) = <<>> THEN 0 ELSE no_split_count + 1
      BY <1>4 DEF CloseMarker, Read, PushBack
    <2>2. mark_type # <<>> /\ ~options.AllowBetweenMarkers
      BY <1>2, <2>1 DEF Closes, MarkersOf
    <2>3. mark_type' = Stacked(mark_type, Form)
      BY <2>1, <2>2 DEF Closes, IsClosing, Stacked
    <2> QED BY <1>1, <2>1, <2>2, <2>3, Pushed
  <1>5. CASE OpenMarker
    <2>1. /\ HasForm /\ UNCHANGED options /\ buffer' = Append(buffer, Form) /\ ~Closes /\ Opens
          /\ mark_type' = <<markers[Form]>> \o mark_type /\ betweenMrk' = TRUE
          /\ no_split_count' = no_split_count + 1
      BY <1>5 DEF OpenMarker, Read, PushBack
    <2>2. ~options.AllowBetweenMarkers /\ Form \in DOMAIN markers /\ markers[Form] > 0
      BY <2>1 DEF Opens
    <2>3. mark_type' = Stacked(mark_type, Form)
      BY <1>2, <2>1, <2>2 DEF Closes, IsClosing, Stacked, MarkersOf
    <2>4. mark_type' # <<>>
      <3>1. Form \in Word /\ markers[Form] \in Range(markers)
        BY <1>1, <2>1, <2>2, ReadWord, CodesInRange
      <3>2. <<markers[Form]>> \in Seq(Range(markers)) /\ Len(<<markers[Form]>>) = 1
        BY <3>1
      <3>3. Len(mark_type') = 1 + Len(mark_type) /\ Len(mark_type) \in Nat
        BY <1>1, <2>1, <3>2, ConcatProperties, LenProperties
      <3> QED BY <3>3, EmptySeq
    <2> QED BY <1>1, <2>1, <2>2, <2>3, <2>4, Pushed
  <1>6. CASE InsideMarker \/ Accumulate
    <2>1. /\ HasForm /\ UNCHANGED options /\ buffer' = Append(buffer, Form) /\ ~Closes /\ ~Opens
          /\ UNCHANGED <<mark_type, betweenMrk>>
          /\ no_split_count' = Counted /\ (Protected \/ ~EndsHere)
      BY <1>6 DEF InsideMarker, Accumulate, Read, PushBack
    <2>2. ~options.AllowBetweenMarkers => mark_type' = Stacked(mark_type, Form)
      BY <1>2, <2>1 DEF Closes, IsClosing, Opens, Stacked, MarkersOf
    <2>3. ~options.AllowBetweenMarkers => no_split_count' = IF mark_type' = <<>> THEN 0
                                                            ELSE no_split_count + 1
      <3>1. ~betweenMrk => no_split_count = 0
        BY DEF IInv, MarkersAgree
      <3> QED BY <1>2, <2>1, <3>1 DEF MarkersOf, Counted
    <2>4. options.AllowBetweenMarkers => mark_type' = <<>> /\ no_split_count' = 0
      BY <1>2, <2>1 DEF MarkersOf, Counted
    <2>5. (Form \in DOMAIN enders /\ enders[Form]) =>
            ~options.AllowBetweenMarkers /\ (mark_type # <<>> \/ mark_type' # <<>>)
      BY <1>2, <2>1 DEF MarkersOf, Protected, EndsHere
    <2>6. betweenMrk' <=> mark_type' # <<>>
      BY <1>2, <2>1 DEF MarkersOf
    <2> QED BY <1>1, <2>1, <2>2, <2>3, <2>4, <2>5, <2>6, Pushed
  <1>7. CASE EndSentence
    BY <1>1, <1>7, Cleared DEF EndSentence, Read
  <1>8. CASE ReturnFlushing
    BY <1>1, <1>8, Cleared DEF ReturnFlushing, Return
  <1>9. CASE ReturnKeeping
    BY <1>3, <1>9 DEF ReturnKeeping, Return
  <1>10. ASSUME NEW words \in WordLists, NEW fl \in BOOLEAN, Split(words, fl) PROVE Rereads'
    BY <1>3, <1>10 DEF Split
  <1>11. CASE UNCHANGED vars
    BY <1>3, <1>11
  <1> QED BY <1>4, <1>5, <1>6, <1>7, <1>8, <1>9, <1>10, <1>11 DEF Next

LEMMA AlwaysRereads == Spec => [](IInv /\ Rereads)
  <1>1. IInv /\ Rereads /\ [Next]_vars => (IInv /\ Rereads)'
    BY StepIInv, StepRereads
  <1> QED BY InitIInv, InitRereads, <1>1, PTL DEF Spec

\* The flag, the stack and the counter that are kept from word to word and from
\* call to call are what rereading the open sentence would give.
THEOREM MarkersReread == Spec => []MarkerStateOfBuffer
  <1>1. Rereads => MarkerStateOfBuffer
    BY DEF Rereads
  <1> QED BY AlwaysRereads, <1>1, PTL

\* No sure end outside markers stays in the buffer.
THEOREM SureEndsEnd == Spec => []NoMissedEnd
  <1>1. IInv /\ Rereads => NoMissedEnd
    <2> SUFFICES ASSUME IInv, Rereads PROVE NoMissedEnd
      OBVIOUS
    <2>1. DOMAIN buffer = 1..Len(buffer)
      BY DEF IInv, TypeOK
    <2> QED BY <2>1 DEF Rereads, NoMissedEnd, HeldEnd
  <1> QED BY AlwaysRereads, <1>1, PTL

\* No sentence ends between two markers, unless MaxWords allows it.
THEOREM MarkersProtect == Spec => NoEndInsideMarkers
  <1> DEFINE Protects == (w' = w + 1 /\ Len(ls') > Len(ls) /\ ~options.AllowBetweenMarkers) =>
                           \/ OpenAfter(buffer) = <<>>
                           \/ options.MaxWords # 0 /\ InsideCount(buffer) >= options.MaxWords
  <1>1. IInv /\ Rereads /\ [Next]_vars => [Protects]_vars
    <2> SUFFICES ASSUME IInv, Rereads, [Next]_vars,
                        w' = w + 1, Len(ls') > Len(ls), ~options.AllowBetweenMarkers
                 PROVE  \/ OpenAfter(buffer) = <<>>
                        \/ options.MaxWords # 0 /\ InsideCount(buffer) >= options.MaxWords
      OBVIOUS
    <2>1. /\ TypeOK /\ Len(ls) \in Nat /\ w \in Nat /\ no_split_count \in Nat
          /\ options.MaxWords \in Nat
      BY LenProperties DEF IInv, TypeOK
    <2>2. MarkersOf(buffer, betweenMrk, mark_type, no_split_count)
      BY <2>1, MarkersOfBuffer DEF Rereads
    <2>3. CASE EndSentence
      <3>1. ~Protected
        BY <2>3 DEF EndSentence
      <3> QED BY <2>1, <2>2, <3>1 DEF Protected, Counted, MarkersOf
    <2>4. ASSUME ls' = ls PROVE FALSE
      BY <2>1, <2>4
    <2>5. ASSUME NEW words \in WordLists, NEW fl \in BOOLEAN, Split(words, fl) PROVE FALSE
      <3>1. Len(ls') = 0
        BY <2>5 DEF Split
      <3> QED BY <2>1, <3>1
    <2>6. CASE Return
      BY <2>1, <2>6 DEF Return
    <2> QED BY <2>3, <2>4, <2>5, <2>6 DEF Next, CloseMarker, OpenMarker, InsideMarker, Accumulate,
                                          PushBack, ReturnKeeping, ReturnFlushing
  <1>2. [](IInv /\ Rereads) /\ [][Next]_vars => [][Protects]_vars
    BY <1>1, PTL
  <1> QED BY AlwaysRereads, <1>2, PTL DEF Spec, NoEndInsideMarkers
=============================================================================
