------------------------------ MODULE Formats ------------------------------
(* The input and output formats of the analyzers and their codes, config.h. *)
EXTENDS Naturals

PLAIN    == 0
IDENT    == 1
TOKEN    == 2
SPLITTED == 3
MORFO    == 4
TAGGED   == 5
SENSES   == 6
SHALLOW  == 7
PARSED   == 8
DEP      == 9

InputFormats  == {PLAIN, TOKEN, SPLITTED, MORFO, TAGGED, SENSES}
OutputFormats == {IDENT, TOKEN, SPLITTED, MORFO, TAGGED, SHALLOW, PARSED, DEP}
=============================================================================
