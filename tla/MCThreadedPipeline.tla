------------------------- MODULE MCThreadedPipeline -------------------------
(* Plain input, up to the tagger, and short texts with empty lines.          *)
EXTENDS ThreadedPipeline

Asking(in, outs, wsd) == {o \in OptionSet : /\ o.InputFormat = in /\ o.OutputFormat \in outs
                                            /\ o.WSD = wsd /\ ~o.NEC /\ ~o.Phonetics /\ ~o.Train
                                            /\ Accepted(o)}

PlainChains == {Chain(o) : o \in Asking(PLAIN, {SPLITTED, TAGGED}, "none")}
TokenChains == {Chain(o) : o \in Asking(TOKEN, {SPLITTED, MORFO}, "none")}

\* Every chain for plain text and sentences as output fits, and runs a module once.
ASSUME ChainAssumption ==
  \A o \in OptionSet : Accepted(o) =>
    /\ IsInjective(Chain(o))
    /\ o.InputFormat = PLAIN /\ Trained(o).OutputFormat >= SPLITTED => WellTyped(Chain(o))

MCInputs == {<<>>, <<1, 2>>, <<2, 0, 1>>}
=============================================================================
