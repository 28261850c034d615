------------------------------- MODULE Analysis -------------------------------
(***************************************************************************)
(* From the grammar file to the dependencies: the grammar is read, a       *)
(* sentence is tagged, chart_parser::analyze parses it as the tagger left  *)
(* it, and dep_txala::analyze takes the trees from there.                  *)
(***************************************************************************)
EXTENDS Tagger, Dependencies

VARIABLE stage        \* "read", "tag", "parse" or "depend"

vars == <<reader, tagger, parser, dependencyParser, stage>>

Init == /\ InitGrammar /\ InitTagger /\ IdleParser /\ IdleDependencies
        /\ stage = "read"

ReadStep == /\ stage = "read" /\ Read
            /\ UNCHANGED <<tagger, parser, dependencyParser, stage>>

TagSentence == /\ stage = "read" /\ EndOfFile
               /\ \E ws \in Sentences : Receive(ws)
               /\ stage' = "tag"
               /\ UNCHANGED <<reader, parser, dependencyParser>>

TagStep == /\ stage = "tag" /\ Tag
           /\ stage' = IF phase' = "done" THEN "parse" ELSE stage
           /\ UNCHANGED <<reader, parser, dependencyParser>>

ParseStep == /\ stage = "parse" /\ Parse
             /\ stage' = IF at' = "done" THEN "depend" ELSE stage
             /\ UNCHANGED <<reader, tagger, dependencyParser>>

DependStep == /\ stage = "depend" /\ Depend
              /\ UNCHANGED <<reader, tagger, at, k, cells, next, stage>>

\* Every sequence has its trees, or the program gave up, or it reads for ever.
Finished == /\ "crash" \in {phase, at} \/ dep \in {"done", "crash"} \/ stat = HUNG
            /\ UNCHANGED vars

Next == ReadStep \/ TagSentence \/ TagStep \/ ParseStep \/ DependStep \/ Finished

Spec == Init /\ [][Next]_vars

-----------------------------------------------------------------------------
\* Each word has an analysis selected in every sequence that is parsed, so that the
\* parser does not give up on a word without edges: only without a start symbol, or
\* where words that retokenization made are in the first of several sequences only, or
\* have no analysis at all, as an affix whose form the dictionary lacks.
EveryWordHasEdges ==
  at = "crash" =>
    \/ gram.start = NoSym
    \/ opt.retok /\ opt.kbest > 1
    \/ opt.retok /\ \E w \in Range(input) : \E a \in Range(w.analyses) :
                     \E v \in Range(a.retok) : ~Analysed(v)
=============================================================================
