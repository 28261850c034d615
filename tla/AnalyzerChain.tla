---------------------------- MODULE AnalyzerChain ----------------------------
(***************************************************************************)
(* CreateAnalyzers of threaded_analyzer.cc: which options it accepts, and  *)
(* which modules it chains, in which order, for the accepted ones.         *)
(***************************************************************************)
EXTENDS Formats, Sequences

\* What the command line can ask for.
OptionSet == [InputFormat : InputFormats, OutputFormat : OutputFormats,
              WSD          : {"none", "all", "mfs", "ukb"},
              NEC : BOOLEAN, Phonetics : BOOLEAN, Coref : BOOLEAN, Train : BOOLEAN]

\* The coherence checks, of the options as they are given.
Accepted(o) ==
  /\ o.OutputFormat # IDENT
  /\ ~o.Coref
  /\ \/ o.InputFormat < o.OutputFormat
     \/ o.InputFormat = o.OutputFormat /\ o.InputFormat = TAGGED /\ o.NEC
  /\ ~(o.OutputFormat < TAGGED /\ o.WSD = "ukb")

\* --train sets the output format, whatever it was, once the options are accepted.
Trained(o) == IF o.Train THEN [o EXCEPT !.OutputFormat = TAGGED] ELSE o

\* Is module m launched?
Launched(o, m) ==
  LET in == o.InputFormat  out == o.OutputFormat IN
  \/ m = "tokenizer" /\ in < TOKEN    /\ out >= TOKEN
  \/ m = "splitter"  /\ in < SPLITTED /\ out >= SPLITTED
  \/ m = "maco"      /\ in < MORFO    /\ out >= MORFO
  \/ m = "senses"    /\ in < SENSES   /\ out >= MORFO  /\ o.WSD # "none"
  \/ m = "tagger"    /\ in < TAGGED   /\ out >= TAGGED
  \/ m = "phonetics" /\ o.Phonetics
  \/ m = "ukb"       /\ (o.Coref \/ (in < SENSES /\ out >= TAGGED /\ o.WSD = "ukb"))
  \/ m = "nec"       /\ in <= TAGGED  /\ out >= TAGGED /\ (o.NEC \/ o.Coref)
  \/ m = "chart"     /\ in < SHALLOW  /\ (out >= SHALLOW \/ o.Coref)
  \/ m = "dep"       /\ in < SHALLOW  /\ out >= PARSED

\* The order in which CreateAnalyzers connects them.
Order == <<"tokenizer", "splitter", "maco", "senses", "tagger", "phonetics", "ukb", "nec",
           "chart", "dep">>

Chain(o) == SelectSeq(Order, LAMBDA m : Launched(Trained(o), m))

\* Which do_analysis a module's thread runs, and what it reads and writes.
Kind(m)   == IF m \in {"tokenizer", "splitter"} THEN m ELSE "processor"
Reads(k)  == CASE k = "tokenizer" -> "wstring" [] k = "splitter" -> "words"
               [] k = "processor" -> "sentences"
Writes(k) == IF k = "tokenizer" THEN "words" ELSE "sentences"
=============================================================================
