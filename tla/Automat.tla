------------------------------- MODULE Automat -------------------------------
(***************************************************************************)
(* The template automat<T> of automat.h: a deterministic automaton that    *)
(* searches a sentence for multiwords and merges the words of each one it  *)
(* finds.  A search starts at every word in turn, runs until the automaton *)
(* stops, and falls back on the last final state it went through.          *)
(* The virtual functions of automat<T> are constant operators, that a      *)
(* module c derived from it supplies; a sentence goes through all modules  *)
(* of Cascade, one after the other.                                        *)
(***************************************************************************)
EXTENDS Integers, Sequences

CONSTANTS Vocabularies,   \* sets of words: each sentence is made of the words of one
          MaxLength,      \* bound: words in a sentence
          Cascade,        \* the modules, in the order they are called
          Locked(_),                     \* is_locked, of a word
          initialState(_), stopState(_), \* of a module
          Final(_), trans(_, _, _),      \* its final states; from a state, with a token
          Fresh(_),                      \* ResetActions: the status of a new search
          ComputeToken(_, _, _, _, _),   \* of the j-th word of a sentence, in a state
          StateActions(_, _, _, _, _, _, _), \* status, after the j-th word gave a token, from a state to a state
          ValidMultiWord(_, _, _),       \* may these words be merged?
          Multiword(_, _, _, _)          \* the word that they become, from a final state

VARIABLES text,      \* the sentence as received: a sequence of words
          se,        \* the sentence: words, each with the span of input words it stands for
          stage,     \* position in Cascade of the module at work
          i,         \* where the search starts, as in analyze
          at,        \* "next": between searches, "scan": in one, "done": all modules ended
          j, state, eMatch, fstate,  \* as in matching; eMatch = 0 stands for se.end()
          st         \* status of the search, of the module's own type

vars == <<text, se, stage, i, at, j, state, eMatch, fstate, st>>
search == <<j, state, eMatch, fstate, st>>

Self == Cascade[stage]

Init == /\ \E V \in Vocabularies, n \in 1..MaxLength :
             /\ text \in [1..n -> V]
             /\ se = [k \in 1..n |-> [from |-> k, to |-> k, word |-> text[k]]]
        /\ stage = 1 /\ i = 1 /\ at = "next"
        /\ j = 1 /\ state = 0 /\ eMatch = 0 /\ fstate = 0 /\ st = 0

\* A locked word starts no search.
Skip == /\ at = "next" /\ i <= Len(se) /\ Locked(se[i].word)
        /\ i' = i + 1
        /\ UNCHANGED <<text, se, stage, at, search>>

Start == /\ at = "next" /\ i <= Len(se) /\ ~Locked(se[i].word)
         /\ at' = "scan" /\ j' = i
         /\ state' = initialState(Self) /\ st' = Fresh(Self)
         /\ eMatch' = 0 /\ fstate' = 0
         /\ UNCHANGED <<text, se, stage, i>>

Stopped == state = stopState(Self) \/ j > Len(se)

\* A final state is remembered as the longest match so far.
Remember(s) == IF s \in Final(Self) THEN eMatch' = j /\ fstate' = s
               ELSE UNCHANGED <<eMatch, fstate>>

\* One turn of the loop of matching.
Scan == /\ at = "scan" /\ ~Stopped
        /\ LET token == ComputeToken(Self, state, j, se, st)
               newstate == trans(Self, state, token)
           IN /\ st' = StateActions(Self, state, newstate, token, j, se, st)
              /\ state' = newstate
              /\ Remember(newstate)
        /\ j' = j + 1
        /\ UNCHANGED <<text, se, stage, i, at>>

\* The search is over and its status gone.
EndSearch == at' = "next" /\ j' = 1 /\ state' = 0 /\ eMatch' = 0 /\ fstate' = 0 /\ st' = 0

Found == at = "scan" /\ Stopped /\ eMatch # 0
Words == [k \in 1..(eMatch - i + 1) |-> se[i + k - 1].word]

\* Fault: the last word of the match is not erased.
MergeShort(w) ==
  [k \in 1..(Len(se) - (eMatch - i) + 1) |->
     IF k < i THEN se[k]
     ELSE IF k = i THEN [from |-> se[i].from, to |-> se[eMatch].to, word |-> w]
     ELSE se[k + (eMatch - i) - 1]]

\* The sentence once the words from i to eMatch are erased and w inserted.
Merge(w) ==
  [k \in 1..(Len(se) - (eMatch - i)) |->
     IF k < i THEN se[k]
     ELSE IF k = i THEN [from |-> se[i].from, to |-> se[eMatch].to, word |-> w]
     ELSE se[k + (eMatch - i)]]

\* BuildMultiword of a valid match; analyze goes on after the new word.
Build == /\ Found /\ ValidMultiWord(Self, Words, st)
         /\ se' = Merge(Multiword(Self, Words, fstate, st))
         /\ i' = i + 1 /\ EndSearch
         /\ UNCHANGED <<text, stage>>

\* Fault: the search starts again where the rejected one did.
RejectStay == /\ Found /\ ~ValidMultiWord(Self, Words, st)
              /\ EndSearch
              /\ UNCHANGED <<text, se, stage, i>>

\* BuildMultiword of a match that is not valid: i is left at its first word.
Reject == /\ Found /\ ~ValidMultiWord(Self, Words, st)
          /\ i' = i + 1 /\ EndSearch
          /\ UNCHANGED <<text, se, stage>>

NoMatch == /\ at = "scan" /\ Stopped /\ eMatch = 0
           /\ i' = i + 1 /\ EndSearch
           /\ UNCHANGED <<text, se, stage>>

\* A module reaches the end of the sentence.
EndModule == /\ at = "next" /\ i > Len(se)
             /\ IF stage < Len(Cascade) THEN stage' = stage + 1 /\ i' = 1 /\ UNCHANGED at
                ELSE at' = "done" /\ UNCHANGED <<stage, i>>
             /\ UNCHANGED <<text, se, search>>

Next == Skip \/ Start \/ Scan \/ Build \/ Reject \/ NoMatch \/ EndModule

\* The call runs to its end: nothing else moves it.
Spec     == Init /\ [][Next]_vars
FairSpec == Spec /\ WF_vars(Next)

-----------------------------------------------------------------------------
\* The words of the sentence stand, in order, for consecutive spans of the
\* input: whatever is merged or rejected, no input word is lost or repeated.
Cover == /\ se # <<>> /\ se[1].from = 1 /\ se[Len(se)].to = Len(text)
         /\ \A k \in 1..Len(se) : se[k].from <= se[k].to
         /\ \A k \in 1..(Len(se) - 1) : se[k + 1].from = se[k].to + 1

\* Every search ends and every module reaches the end of the sentence.
Terminates == <>(at = "done")
=============================================================================
