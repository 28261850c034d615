----------------------------- MODULE Segmenter -----------------------------
(***************************************************************************)
(* What a sentence splitter promises to its caller, whatever rules it uses *)
(* to find the ends of sentences: words are taken one by one, each word is *)
(* either held back or closes a sentence made of everything held so far,   *)
(* and a flush turns what is held into a last sentence.  Only a word that  *)
(* is listed as a sentence end may close a sentence.                       *)
(***************************************************************************)
EXTENDS Sequences

CONSTANTS Word,     \* the forms a word may have
          Ender     \* those that may end a sentence

VARIABLES taken,     \* every word received, in order
          delivered, \* the words of all sentences returned, in order
          held       \* words of the sentence still open

vars == <<taken, delivered, held>>

Init == taken = <<>> /\ delivered = <<>> /\ held = <<>>

Hold(w) == /\ taken' = Append(taken, w)
           /\ held' = Append(held, w)
           /\ UNCHANGED delivered

Close(w) == /\ w \in Ender
            /\ taken' = Append(taken, w)
            /\ delivered' = delivered \o Append(held, w)
            /\ held' = <<>>

Flush == /\ held # <<>>
         /\ delivered' = delivered \o held
         /\ held' = <<>>
         /\ UNCHANGED taken

Next == (\E w \in Word : Hold(w) \/ Close(w)) \/ Flush

Spec == Init /\ [][Next]_vars

TypeOK == taken \in Seq(Word) /\ delivered \in Seq(Word) /\ held \in Seq(Word)

\* No word is lost, repeated or moved: the sentences returned followed by the
\* words held are the input.
Conserved == taken = delivered \o held
=============================================================================
