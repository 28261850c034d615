-------------------------- MODULE ThreadedPipeline --------------------------
(***************************************************************************)
(* The threaded analyzer: a reader thread, one thread per module and main, *)
(* connected by pipes that carry pointers to heap objects.  Thread 0 reads *)
(* the input, thread k runs module k of the chain from pipe k-1 to pipe k, *)
(* and thread N+1 is main, which prints what the last pipe delivers.       *)
(*                                                                         *)
(* An object is its address, the type it was allocated with and the words  *)
(* it carries; a word is <<line, position>>.                               *)
(***************************************************************************)
EXTENDS AnalyzerChain, SequencesExt

CONSTANTS Chains,    \* the module sequences the accepted options give
          Inputs,    \* texts: sequences of numbers of words per line
          Capacity   \* pointers that fit into a pipe

ASSUME PipelineAssumption ==
  /\ Chains \subseteq Seq(Range(Order)) /\ \A c \in Chains : IsInjective(c)
  /\ Inputs \subseteq Seq(Nat)
  /\ Capacity \in Nat \ {0}

VARIABLES modules, text,      \* the chain and the input, fixed
          lines,              \* how many lines the reader has got
          pc, x, y,           \* per thread: where it is, its input, its result
          pipe,               \* pipe[k]: the objects in it
          readClosed, writeClosed,
          buffer,             \* words retained by the splitter
          live, allocated,    \* objects not yet deleted; per thread, how many it made
          analyzers,          \* the modules not yet deleted
          printed             \* words printed

data   == <<modules, text>>
pipes  == <<pipe, readClosed, writeClosed>>
heap   == <<live, allocated>>
rest   == <<buffer, analyzers, printed, lines>>
vars   == <<data, pipes, heap, rest, pc, x, y>>

N       == Len(modules)
Threads == 0..(N + 1)
Pipes   == 0..N
Module  == 1..N
Main    == N + 1
kind(t) == Kind(modules[t])

NULL == [id |-> <<0, 0>>, type |-> "null", words |-> <<>>]

\* The words of a line, as the tokenizer makes them.
Line(n) == [j \in 1..text[n] |-> <<n, j>>]

\* new T(ws), called by thread t
New(t, type, ws) == [id |-> <<t, allocated[t] + 1>>, type |-> type, words |-> ws]
Allocate(t, obj) == /\ live' = live \cup {obj.id}
                    /\ allocated' = [allocated EXCEPT ![t] = @ + 1]

Init ==
  /\ modules \in Chains /\ text \in Inputs /\ lines = 0
  /\ pc = [t \in Threads |-> IF t = 0 THEN "getline" ELSE "receive"]
  /\ x = [t \in Threads |-> IF t = 0 THEN [id |-> <<0, 1>>, type |-> "wstring", words |-> <<>>]
                                     ELSE NULL]
  /\ y = [t \in Threads |-> NULL]
  /\ pipe = [k \in Pipes |-> <<>>]
  /\ readClosed = [k \in Pipes |-> FALSE] /\ writeClosed = [k \in Pipes |-> FALSE]
  /\ buffer = <<>>
  /\ live = {<<0, 1>>} /\ allocated = [t \in Threads |-> IF t = 0 THEN 1 ELSE 0]
  /\ analyzers = Module
  /\ printed = <<>>

At(t, from, to) == pc[t] = from /\ pc' = [pc EXCEPT ![t] = to]

\* Fault: a read that takes an empty pipe for EOF.
ReceiveNothing(t) == /\ pipe[t - 1] = <<>>
                     /\ x' = [x EXCEPT ![t] = NULL]
                     /\ UNCHANGED pipes

\* FL_pipe: write blocks while the pipe is full; read blocks while it is empty,
\* unless its write end is closed, when receive returns NULL.
Send(k, obj) == /\ Len(pipe[k]) < Capacity
                /\ pipe' = [pipe EXCEPT ![k] = Append(@, obj)]
                /\ UNCHANGED <<readClosed, writeClosed>>
Receive(t) == /\ pipe[t - 1] # <<>>
              /\ x' = [x EXCEPT ![t] = Head(pipe[t - 1])]
              /\ pipe' = [pipe EXCEPT ![t - 1] = Tail(@)]
              /\ UNCHANGED <<readClosed, writeClosed>>
ReceiveNULL(t) == /\ pipe[t - 1] = <<>> /\ writeClosed[t - 1]
                  /\ x' = [x EXCEPT ![t] = NULL]
                  /\ UNCHANGED pipes
CloseWrite(k) == writeClosed' = [writeClosed EXCEPT ![k] = TRUE] /\ UNCHANGED <<pipe, readClosed>>
CloseRead(k)  == readClosed' = [readClosed EXCEPT ![k] = TRUE] /\ UNCHANGED <<pipe, writeClosed>>

-----------------------------------------------------------------------------
(* read_text: the buffer for a line is allocated before getline is called.  *)

GetLine ==
  /\ At(0, "getline", "send") /\ lines < Len(text)
  /\ lines' = lines + 1
  /\ x' = [x EXCEPT ![0].words = Line(lines + 1)]
  /\ UNCHANGED <<data, pipes, heap, y, buffer, analyzers, printed>>

SendLine ==
  /\ At(0, "send", "getline")
  /\ Send(0, x[0])
  /\ LET line == New(0, "wstring", <<>>) IN x' = [x EXCEPT ![0] = line] /\ Allocate(0, line)
  /\ UNCHANGED <<data, rest, y>>

EndOfText ==
  /\ At(0, "getline", "done") /\ lines = Len(text)
  /\ CloseWrite(0)
  /\ UNCHANGED <<data, heap, rest, x, y>>

Reader == GetLine \/ SendLine \/ EndOfText

-----------------------------------------------------------------------------
(* do_analysis of thread t.                                                 *)

ReceiveObject(t) ==
  /\ At(t, "receive", "work") /\ Receive(t)
  /\ UNCHANGED <<data, heap, rest, y>>

ReceiveEOF(t) ==
  /\ At(t, "receive", "close_in") /\ ReceiveNULL(t)
  /\ UNCHANGED <<data, heap, rest, y>>

Result(t, ws) == LET obj == New(t, Writes(kind(t)), ws)
                 IN  y' = [y EXCEPT ![t] = obj] /\ Allocate(t, obj)

Tokenize(t) ==
  /\ At(t, "work", "send") /\ kind(t) = "tokenizer"
  /\ Result(t, x[t].words)
  /\ UNCHANGED <<data, pipes, rest, x>>

\* Fault: a sentence is made of the new words only.
SplitListForgetting(t) ==
  /\ At(t, "work", "send") /\ kind(t) = "splitter"
  /\ \E n \in 0..Len(x[t].words) :
       LET kept == SubSeq(x[t].words, n + 1, Len(x[t].words))
       IN  /\ Result(t, SubSeq(x[t].words, 1, n))
           /\ buffer' = buffer \o kept
  /\ UNCHANGED <<data, pipes, x, analyzers, printed, lines>>

\* The splitter returns what it retained and words up to some sentence end, or
\* nothing; module Splitter has the details.
SplitList(t) ==
  /\ At(t, "work", "send") /\ kind(t) = "splitter"
  /\ \E n \in 0..Len(x[t].words) :
       LET returned == IF n = 0 THEN <<>> ELSE buffer \o SubSeq(x[t].words, 1, n)
           kept     == SubSeq(x[t].words, n + 1, Len(x[t].words))
       IN  /\ Result(t, returned)
           /\ buffer' = IF n = 0 THEN buffer \o kept ELSE kept
  /\ UNCHANGED <<data, pipes, x, analyzers, printed, lines>>

\* The other modules update the object they got and pass it on.
AnalyzeSentences(t) ==
  /\ At(t, "work", "send") /\ kind(t) = "processor"
  /\ y' = [y EXCEPT ![t] = x[t]]
  /\ UNCHANGED <<data, pipes, heap, rest, x>>

\* Fault: the input is sent instead of the result.
SendInput(t) ==
  /\ At(t, "send", IF kind(t) = "processor" THEN "receive" ELSE "delete")
  /\ Send(t, x[t])
  /\ UNCHANGED <<data, heap, rest, x, y>>

\* Fault: every module deletes its input, also the one that is its result.
SendAndDelete(t) ==
  /\ At(t, "send", "delete")
  /\ Send(t, y[t])
  /\ UNCHANGED <<data, heap, rest, x, y>>

SendResult(t) ==
  /\ At(t, "send", IF kind(t) = "processor" THEN "receive" ELSE "delete")
  /\ Send(t, y[t])
  /\ UNCHANGED <<data, heap, rest, x, y>>

DeleteInput(t) ==
  /\ At(t, "delete", "receive")
  /\ live' = live \ {x[t].id}
  /\ UNCHANGED <<data, pipes, rest, allocated, x, y>>

\* Faults: both ends are closed together; the splitter is not flushed.
CloseBoth(t) ==
  /\ At(t, "close_in", IF kind(t) = "splitter" THEN "flush" ELSE "close_out")
  /\ readClosed' = [readClosed EXCEPT ![t - 1] = TRUE]
  /\ writeClosed' = [writeClosed EXCEPT ![t] = TRUE]
  /\ UNCHANGED <<data, heap, rest, pipe, x, y>>
CloseUnflushed(t) ==
  /\ At(t, "close_in", "close_out")
  /\ CloseRead(t - 1)
  /\ UNCHANGED <<data, heap, rest, x, y>>

CloseInput(t) ==
  /\ At(t, "close_in", IF kind(t) = "splitter" THEN "flush" ELSE "close_out")
  /\ CloseRead(t - 1)
  /\ UNCHANGED <<data, heap, rest, x, y>>

FlushSplitter(t) ==
  /\ At(t, "flush", "send_flushed")
  /\ Result(t, buffer) /\ buffer' = <<>>
  /\ UNCHANGED <<data, pipes, x, analyzers, printed, lines>>

SendFlushed(t) ==
  /\ At(t, "send_flushed", "close_out")
  /\ Send(t, y[t])
  /\ UNCHANGED <<data, heap, rest, x, y>>

CloseOutput(t) ==
  /\ At(t, "close_out", "done")
  /\ CloseWrite(t)
  /\ UNCHANGED <<data, heap, rest, x, y>>

Processor(t) == \/ ReceiveObject(t) \/ ReceiveEOF(t)
                \/ Tokenize(t) \/ SplitList(t) \/ AnalyzeSentences(t)
                \/ SendResult(t) \/ DeleteInput(t)
                \/ CloseInput(t) \/ FlushSplitter(t) \/ SendFlushed(t) \/ CloseOutput(t)

-----------------------------------------------------------------------------
(* main: print and delete until EOF, then delete the analyzers and return.  *)

MainReceive ==
  /\ At(Main, "receive", "print") /\ Receive(Main)
  /\ UNCHANGED <<data, heap, rest, y>>

PrintResults ==
  /\ At(Main, "print", "receive")
  /\ printed' = printed \o x[Main].words
  /\ live' = live \ {x[Main].id}
  /\ UNCHANGED <<data, pipes, allocated, x, y, buffer, analyzers, lines>>

Cleanup ==
  /\ At(Main, "receive", "done") /\ ReceiveNULL(Main)
  /\ analyzers' = {}
  /\ UNCHANGED <<data, heap, y, buffer, printed, lines>>

MainThread == MainReceive \/ PrintResults \/ Cleanup

\* The process has ended.
Terminated == pc[Main] = "done" /\ UNCHANGED vars

Next == Reader \/ (\E t \in Module : Processor(t)) \/ MainThread \/ Terminated

\* Every thread is scheduled again and again; a thread blocked in read or write
\* has no step.
Fairness == /\ WF_vars(Reader) /\ WF_vars(MainThread)
            /\ \A t \in 1..Len(Order) : WF_vars(t \in Module /\ Processor(t))

Spec     == Init /\ [][Next]_vars
FairSpec == Spec /\ Fairness

-----------------------------------------------------------------------------
\* Chains whose modules read what is written before them: wstring objects by the
\* reader, lists of words by the tokenizer, and sentences for main.
WellTyped(c) ==
  /\ c # <<>> /\ Reads(Kind(c[1])) = "wstring" /\ Writes(Kind(c[Len(c)])) = "sentences"
  /\ \A t \in 2..Len(c) : Reads(Kind(c[t])) = Writes(Kind(c[t - 1]))

\* Every pointer is used as what it points to: no thread gets an object of
\* another type than the one its do_analysis (or main) casts it to.
TypesMatch == /\ \A t \in Module : pc[t] = "work" => x[t].type = Reads(kind(t))
              /\ pc[Main] = "print" => x[Main].type = "sentences"

\* The pointers that will still be used, by where they are.
UsesX(t) == \/ pc[t] \in {"work", "delete", "print"} \/ t = 0
            \/ pc[t] = "send" /\ kind(t) # "processor"
UsesY(t) == t \in Module /\ pc[t] \in {"send", "send_flushed"}
InPipes    == {c \in Pipes \X (1..Capacity) : c[2] <= Len(pipe[c[1]])}
References == [r \in {<<"x", t>> : t \in {u \in Threads : UsesX(u)}} \cup
                     {<<"y", t>> : t \in {u \in Threads : UsesY(u)}} \cup
                     {<<"pipe", c>> : c \in InPipes}
               |-> CASE r[1] = "x" -> x[r[2]].id [] r[1] = "y" -> y[r[2]].id
                     [] r[1] = "pipe" -> pipe[r[2][1]][r[2][2]].id]

\* Memory is owned by one thread or pipe at a time: no two pointers in use are
\* to the same object, each is to a live one, and every live object is
\* referenced (the reader's last line buffer being kept for ever).
OwnedOnce == IsInjective(References) /\ Range(References) = live

\* A pipe's read end is closed only when it is empty and nobody will write it
\* (so no write meets a broken pipe), and a thread that has finished has seen
\* every thread before it finish.
EndOfStream ==
  /\ \A k \in Pipes : readClosed[k] => writeClosed[k] /\ pipe[k] = <<>>
  /\ \A k \in Pipes : writeClosed[k] <=> pc[k] = "done"
  /\ \A t \in 1..Main : pc[t] = "done" => pc[t - 1] = "done"

\* No module is deleted while a thread may still call it.
AnalyzersOutlive == \A t \in Module : pc[t] # "done" => t \in analyzers

\* The words thread t holds, the ones read first in front.
Holding(t) ==
  (IF UsesY(t) THEN y[t].words ELSE <<>>) \o
  (IF t \in Module /\ modules[t] = "splitter" THEN buffer ELSE <<>>) \o
  (IF pc[t] \in {"work", "print"} \/ (t = 0 /\ pc[0] = "send") THEN x[t].words ELSE <<>>)

\* ... and behind them those in the pipe it reads.
Stage(t) == Holding(t) \o
            (IF t = 0 THEN <<>> ELSE FlattenSeq([n \in DOMAIN pipe[t - 1] |-> pipe[t - 1][n].words]))

\* From main back to the reader.
InTransit == FlattenSeq([k \in 1..(Main + 1) |-> Stage(Main + 1 - k)])

TextUpTo(n) == FlattenSeq([k \in 1..n |-> Line(k)])

\* Each word read is in exactly one place, and what is printed is a prefix of
\* the text: modules running at the same time reorder and lose nothing.
InOrder == printed \o InTransit = TextUpTo(lines)

\* Every text is analyzed to its end: main prints all of it and returns.
AllPrinted == <>(pc[Main] = "done" /\ printed = TextUpTo(Len(text)))
=============================================================================
