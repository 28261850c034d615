------------------------------ MODULE Splitter ------------------------------
(***************************************************************************)
(* The sentence splitter, splitter::split of splitter.cc.  A call walks    *)
(* over the word list v; one action is one iteration of its loop, one      *)
(* action per branch.  The state between calls is the class's: buffer and  *)
(* the bookkeeping of the markers (parentheses, quotes) that are open.     *)
(* mark_form, which only traces read, is left out: mark_type has the same  *)
(* length and the codes the tests use.                                     *)
(***************************************************************************)
EXTENDS Integers, Sequences, SequencesExt

CONSTANTS Word,         \* word forms
          MarkerPairs,  \* the lines of section <Markers>: <<open, close>>
          enders,       \* section <SentenceEnd>: form -> is it a sure end?
          starters,     \* section <SentenceStart>
          Capitalized,  \* forms that RE_is_capitalized matches
          Options,      \* the contents section <General> may have
          MaxInput      \* bound: words given to the splitter in a behaviour

SAME == 100

Insert(pair, n, form) == IF pair[1] = pair[2] THEN SAME + n
                         ELSE IF form = pair[1] THEN n ELSE -n

\* The map the constructor builds.  map::insert does not overwrite, so that a
\* form in several pairs keeps the code of the first one.
markers ==
  LET Pairs(x) == {n \in DOMAIN MarkerPairs : x \in {MarkerPairs[n][1], MarkerPairs[n][2]}}
      First(x) == CHOOSE n \in Pairs(x) : \A k \in Pairs(x) : n <= k
  IN  [x \in {y \in Word : Pairs(y) # {}} |-> Insert(MarkerPairs[First(x)], First(x), x)]

\* A list of SAME pairs or more would give a bracket the code of a quote.
ASSUME SplitterAssumption ==
  /\ MarkerPairs \in Seq(Word \X Word) /\ Len(MarkerPairs) < SAME
  /\ \E Ender \in SUBSET Word : enders \in [Ender -> BOOLEAN]
  /\ starters \subseteq Word /\ Capitalized \subseteq Word
  /\ Options \subseteq [AllowBetweenMarkers : BOOLEAN, MaxWords : Nat]
  /\ MaxInput \in Nat

VARIABLES
  options,                               \* SPLIT_AllowBetweenMarkers, SPLIT_MaxWords
  betweenMrk, no_split_count, mark_type, \* the marker state; front of mark_type is Head
  buffer,                                \* words of the sentence being built
  ls,                                    \* sentences of the current (last) call
  v, flush, w,                           \* the call's arguments and its iterator
  consumed, done                         \* history: words read; words of returned sentences

state == <<betweenMrk, no_split_count, mark_type>>
call  == <<v, flush, options>>
vars  == <<state, buffer, ls, w, call, consumed, done>>

Init == /\ options \in Options
        /\ betweenMrk = FALSE /\ no_split_count = 0 /\ mark_type = <<>>
        /\ buffer = <<>> /\ ls = <<>>
        /\ v = <<>> /\ flush = FALSE /\ w = 0
        /\ consumed = <<>> /\ done = <<>>

-----------------------------------------------------------------------------
(* A call is running when the iterator w points into v or to its end, and   *)
(* returns by setting it to 0.                                              *)

Running == w # 0
Form    == v[w]
HasForm == w \in DOMAIN v

\* Fault: the call starts with an empty buffer.
SplitFromScratch(words, fl) ==
  /\ ~Running
  /\ v' = words /\ flush' = fl /\ w' = 1
  /\ ls' = <<>> /\ buffer' = <<>>
  /\ UNCHANGED <<state, options, consumed, done>>

Split(words, fl) ==
  /\ ~Running
  /\ v' = words /\ flush' = fl /\ w' = 1
  /\ ls' = <<>>
  /\ UNCHANGED <<state, buffer, options, consumed, done>>

\* What every iteration does: read the word, move on.
Read == HasForm /\ w' = w + 1 /\ consumed' = Append(consumed, Form) /\ UNCHANGED call

PushBack == buffer' = Append(buffer, Form) /\ UNCHANGED <<ls, done>>

IsClosing(front) == /\ Form \in DOMAIN markers
                    /\ markers[Form] = (IF markers[Form] > SAME THEN 1 ELSE -1) * front
Closes == betweenMrk /\ ~options.AllowBetweenMarkers /\ IsClosing(Head(mark_type))
Opens  == /\ Form \in DOMAIN markers /\ markers[Form] > 0
          /\ ~options.AllowBetweenMarkers

\* Fault: the counter survives the pair of markers.
CloseMarkerCounting ==
  /\ Read /\ Closes
  /\ mark_type' = Tail(mark_type)
  /\ betweenMrk' = (Tail(mark_type) # <<>>)
  /\ no_split_count' = no_split_count + 1
  /\ PushBack

CloseMarker ==
  /\ Read /\ Closes
  /\ mark_type' = Tail(mark_type)
  /\ betweenMrk' = (Tail(mark_type) # <<>>)
  /\ no_split_count' = IF Tail(mark_type) = <<>> THEN 0 ELSE no_split_count + 1
  /\ PushBack

OpenMarker ==
  /\ Read /\ ~Closes /\ Opens
  /\ mark_type' = <<markers[Form]>> \o mark_type
  /\ betweenMrk' = TRUE
  /\ no_split_count' = no_split_count + 1
  /\ PushBack

Counted   == IF betweenMrk THEN no_split_count + 1 ELSE no_split_count
\* Fault: < for <=.
ProtectedLess == betweenMrk /\ (options.MaxWords = 0 \/ Counted < options.MaxWords)
Protected == betweenMrk /\ (options.MaxWords = 0 \/ Counted <= options.MaxWords)

InsideMarker ==
  /\ Read /\ ~Closes /\ ~Opens /\ Protected
  /\ no_split_count' = Counted
  /\ UNCHANGED <<betweenMrk, mark_type>>
  /\ PushBack

\* A doubtful end is one when the list ends here or the next word may start a
\* sentence.
end_of_sentence == w < Len(v) => v[w + 1] \in Capitalized \cup starters
\* Fault: sure ends are looked at like doubtful ones.
EndsHereDoubtful == Form \in DOMAIN enders /\ end_of_sentence
EndsHere == Form \in DOMAIN enders /\ (enders[Form] \/ end_of_sentence)

Accumulate ==
  /\ Read /\ ~Closes /\ ~Opens /\ ~Protected /\ ~EndsHere
  /\ no_split_count' = Counted
  /\ UNCHANGED <<betweenMrk, mark_type>>
  /\ PushBack

ClearSentence == buffer' = <<>> /\ betweenMrk' = FALSE /\ no_split_count' = 0 /\ mark_type' = <<>>

\* Fault: the sentence is pushed before its last word.
EndSentenceEarly ==
  /\ Read /\ ~Closes /\ ~Opens /\ ~Protected /\ EndsHere
  /\ ls' = Append(ls, buffer)
  /\ done' = done \o buffer
  /\ ClearSentence

EndSentence ==
  /\ Read /\ ~Closes /\ ~Opens /\ ~Protected /\ EndsHere
  /\ ls' = Append(ls, Append(buffer, Form))
  /\ done' = done \o Append(buffer, Form)
  /\ ClearSentence

Return == Running /\ ~HasForm /\ w' = 0 /\ UNCHANGED <<call, consumed>>

ReturnKeeping ==
  /\ Return /\ ~(flush /\ buffer # <<>>)
  /\ UNCHANGED <<state, buffer, ls, done>>

\* Fault: the flush leaves the markers open.
ReturnFlushingWords ==
  /\ Return /\ flush /\ buffer # <<>>
  /\ ls' = Append(ls, buffer)
  /\ done' = done \o buffer
  /\ buffer' = <<>> /\ UNCHANGED state

ReturnFlushing ==
  /\ Return /\ flush /\ buffer # <<>>
  /\ ls' = Append(ls, buffer)
  /\ done' = done \o buffer
  /\ ClearSentence

WordLists == UNION {[1..n -> Word] : n \in 0..(MaxInput - Len(consumed))}

Next == \/ \E words \in WordLists, fl \in BOOLEAN : Split(words, fl)
        \/ CloseMarker \/ OpenMarker \/ InsideMarker
        \/ Accumulate \/ EndSentence
        \/ ReturnKeeping \/ ReturnFlushing

Spec == Init /\ [][Next]_vars

-----------------------------------------------------------------------------
TypeOK == /\ options \in [AllowBetweenMarkers : BOOLEAN, MaxWords : Nat]
          /\ betweenMrk \in BOOLEAN /\ no_split_count \in Nat
          /\ mark_type \in Seq(Range(markers))
          /\ buffer \in Seq(Word) /\ ls \in Seq(Seq(Word))
          /\ v \in Seq(Word) /\ flush \in BOOLEAN /\ w \in 0..(Len(v) + 1)
          /\ consumed \in Seq(Word) /\ done \in Seq(Word)

(* Reference definitions: what the marker state should be, computed from the *)
(* words of a sentence alone.                                                *)

\* The codes of the open markers, innermost first, after one more word.
Stacked(stack, x) ==
  IF x \notin DOMAIN markers THEN stack
  ELSE IF stack # <<>> /\ markers[x] = (IF markers[x] > SAME THEN 1 ELSE -1) * Head(stack)
       THEN Tail(stack)
       ELSE IF markers[x] > 0 THEN <<markers[x]>> \o stack ELSE stack

\* ... and after the words of s.
OpenAfter(s) ==
  LET open[n \in 0..Len(s)] == IF n = 0 THEN <<>> ELSE Stacked(open[n - 1], s[n])
  IN  open[Len(s)]

\* How many words of s lie inside markers since they were last all closed, the
\* outermost opening one included.
InsideCount(s) ==
  LET closed == {n \in 0..Len(s) : OpenAfter(SubSeq(s, 1, n)) = <<>>}
  IN  Len(s) - (CHOOSE n \in closed : \A k \in closed : k <= n)

\* The incremental state is a function of the open sentence: the stack, the
\* flag and the counter are what one gets by rereading buffer from its first
\* word; with AllowBetweenMarkers no marker is ever open.
MarkerStateOfBuffer ==
  /\ betweenMrk = (mark_type # <<>>)
  /\ IF options.AllowBetweenMarkers
     THEN mark_type = <<>> /\ no_split_count = 0
     ELSE mark_type = OpenAfter(buffer) /\ no_split_count = InsideCount(buffer)

\* A call with flush leaves the splitter as the constructor does, whatever
\* markers were open, so that the next text is split as by a new splitter.
FlushForgets == (~Running /\ flush) =>
  buffer = <<>> /\ ~betweenMrk /\ no_split_count = 0 /\ mark_type = <<>>

\* The user manual: with AllowBetweenMarkers off no sentence ends between two
\* markers, unless MaxWords allows it because the pair has become too long.
NoEndInsideMarkers ==
  [][(w' = w + 1 /\ Len(ls') > Len(ls) /\ ~options.AllowBetweenMarkers) =>
       \/ OpenAfter(buffer) = <<>>
       \/ options.MaxWords # 0 /\ InsideCount(buffer) >= options.MaxWords]_vars

\* A sure sentence end outside markers always ends its sentence: one that is
\* held in buffer stands inside markers (or opens or closes one).
NoMissedEnd ==
  \A n \in DOMAIN buffer :
     (buffer[n] \in DOMAIN enders /\ enders[buffer[n]]) =>
        /\ ~options.AllowBetweenMarkers
        /\ \/ OpenAfter(SubSeq(buffer, 1, n - 1)) # <<>>
           \/ OpenAfter(SubSeq(buffer, 1, n)) # <<>>

\* The splitter keeps the promises of Segmenter: no word lost, repeated or
\* moved, and no sentence ended by a word that is not an end.
Contract == INSTANCE Segmenter WITH Ender <- DOMAIN enders, taken <- consumed,
                                    delivered <- done, held <- buffer
ImplementsSegmenter == Contract!Spec
Conserved == Contract!Conserved
=============================================================================
