----------------------- MODULE ThreadedPipelineProofs -----------------------
(***************************************************************************)
(* The threaded analyzer, for every chain of modules, text and pipe        *)
(* capacity: pipes are closed in the order of the chain and the modules    *)
(* outlive the threads that call them; the objects are of the type their   *)
(* readers cast them to, when the modules of the chain fit; no word is     *)
(* lost, repeated or moved; every object is owned once and none leaks.     *)
(***************************************************************************)
EXTENDS ThreadedPipeline, Flattening

PCs == {"getline", "receive", "work", "send", "delete", "close_in", "flush", "send_flushed",
        "close_out", "print", "done"}

\* From here on a thread has read the end of its input.
Closing == {"close_in", "flush", "send_flushed", "close_out", "done"}

Shape == /\ N \in Nat
         /\ pc \in [Threads -> PCs]
         /\ pipe = [k \in Pipes |-> pipe[k]]
         /\ readClosed \in [Pipes -> BOOLEAN] /\ writeClosed \in [Pipes -> BOOLEAN]

\* A thread that has seen EOF reads an empty pipe and everybody before it is done.
SeenEOF == \A t \in 1..Main : pc[t] \in Closing =>
             pipe[t - 1] = <<>> /\ \A u \in 0..(t - 1) : pc[u] = "done"

WriteEnds == \A k \in Pipes : writeClosed[k] <=> pc[k] = "done"
ReadEnds  == \A k \in Pipes : readClosed[k] =>
               k + 1 \in Module /\ pc[k + 1] \in Closing \ {"close_in"}
Alive     == pc[Main] # "done" => analyzers = Module

IInv == Shape /\ SeenEOF /\ WriteEnds /\ ReadEnds /\ Alive

USE DEF Threads, Pipes, Module, Main, data, pipes, heap, rest

LEMMA InitIInv == Init => IInv
  <1> SUFFICES ASSUME Init PROVE IInv
    OBVIOUS
  <1>1. N \in Nat
    BY PipelineAssumption, LenProperties DEF Init, N
  <1>2. Shape
    BY <1>1 DEF Init, Shape, PCs
  <1> QED BY <1>1, <1>2 DEF Init, IInv, SeenEOF, WriteEnds, ReadEnds, Alive, Closing

\* How a step of thread t from one place to another changes pc.
LEMMA Moves ==
  ASSUME Shape, NEW t \in Threads, NEW from, NEW to \in PCs, At(t, from, to)
  PROVE  /\ pc[t] = from /\ pc'[t] = to /\ pc' \in [Threads -> PCs]
         /\ \A u \in Threads \ {t} : pc'[u] = pc[u]
  BY DEF At, Shape

\* A step that stays outside Closing and closes no pipe.
LEMMA OpenStep ==
  ASSUME IInv, UNCHANGED <<modules, readClosed, writeClosed, analyzers>>,
         NEW t \in Threads, NEW from \in PCs \ Closing, NEW to \in PCs \ Closing, At(t, from, to),
         pipe' = [k \in Pipes |-> pipe'[k]],
         \A k \in Pipes \ {t} : pipe[k] = <<>> => pipe'[k] = <<>>
  PROVE  IInv'
  <1> USE DEF IInv
  <1>1. /\ pc[t] = from /\ pc'[t] = to /\ pc' \in [Threads -> PCs]
        /\ \A u \in Threads \ {t} : pc'[u] = pc[u]
        /\ UNCHANGED <<N, Threads, Pipes, Module, Main>>
    BY Moves DEF N
  <1>2. Shape'
    BY <1>1 DEF Shape, N
  <1>3. ASSUME NEW u \in 1..Main, pc'[u] \in Closing
        PROVE  pipe'[u - 1] = <<>> /\ \A s \in 0..(u - 1) : pc'[s] = "done"
    <2>1. u # t /\ pc[u] \in Closing /\ u \in Threads
      BY <1>1, <1>3 DEF Shape
    <2>2. pipe[u - 1] = <<>> /\ \A s \in 0..(u - 1) : pc[s] = "done"
      BY <2>1 DEF SeenEOF
    <2>3. t \notin 0..(u - 1)
      BY <1>1, <2>2 DEF Closing
    <2>4. u - 1 \in Pipes \ {t} /\ \A s \in 0..(u - 1) : s \in Threads \ {t}
      BY <2>1, <2>3 DEF Shape
    <2> QED BY <1>1, <2>2, <2>4
  <1>4. SeenEOF'
    BY <1>1, <1>3 DEF SeenEOF
  <1>5. WriteEnds' /\ ReadEnds' /\ Alive'
    BY <1>1 DEF Shape, WriteEnds, ReadEnds, Alive, Closing
  <1> QED BY <1>2, <1>4, <1>5

\* A step of a module's thread that has seen EOF and goes on shutting down.
LEMMA ClosingStep ==
  ASSUME IInv, UNCHANGED <<modules, writeClosed, analyzers>>,
         NEW t \in Module, NEW from \in Closing \ {"done"},
         NEW to \in Closing \ {"close_in", "done"}, At(t, from, to),
         readClosed' \in [Pipes -> BOOLEAN],
         \A k \in Pipes \ {t - 1} : readClosed'[k] = readClosed[k],
         pipe' = [k \in Pipes |-> pipe'[k]],
         \A k \in Pipes \ {t} : pipe[k] = <<>> => pipe'[k] = <<>>
  PROVE  IInv'
  <1> USE DEF IInv
  <1>1. /\ pc[t] = from /\ pc'[t] = to /\ pc' \in [Threads -> PCs] /\ t \in Threads
        /\ \A u \in Threads \ {t} : pc'[u] = pc[u]
        /\ UNCHANGED <<N, Threads, Pipes, Module, Main>>
    BY Moves DEF N, Closing, PCs, Shape
  <1>2. Shape'
    BY <1>1 DEF Shape, N
  <1>3. ASSUME NEW u \in 1..Main, pc'[u] \in Closing
        PROVE  pipe'[u - 1] = <<>> /\ \A s \in 0..(u - 1) : pc'[s] = "done"
    <2>1. pc[u] \in Closing /\ u \in Threads
      BY <1>1, <1>3 DEF Shape
    <2>2. pipe[u - 1] = <<>> /\ \A s \in 0..(u - 1) : pc[s] = "done"
      BY <2>1 DEF SeenEOF
    <2>3. t \notin 0..(u - 1)
      BY <1>1, <2>2
    <2>4. u - 1 \in Pipes \ {t} /\ \A s \in 0..(u - 1) : s \in Threads \ {t}
      BY <2>1, <2>3 DEF Shape
    <2> QED BY <1>1, <2>2, <2>4
  <1>4. SeenEOF'
    BY <1>1, <1>3 DEF SeenEOF
  <1>5. ReadEnds'
    <2> SUFFICES ASSUME NEW k \in Pipes, readClosed'[k]
                 PROVE  k + 1 \in Module /\ pc'[k + 1] \in Closing \ {"close_in"}
      BY <1>1 DEF ReadEnds
    <2>1. CASE k = t - 1
      BY <1>1, <2>1 DEF Shape
    <2>2. CASE k # t - 1
      BY <1>1, <2>2 DEF Shape, ReadEnds
    <2> QED BY <2>1, <2>2
  <1>6. WriteEnds' /\ Alive'
    BY <1>1 DEF Shape, WriteEnds, Alive
  <1> QED BY <1>2, <1>4, <1>5, <1>6

\* A thread before main finishes by closing the pipe it writes.
LEMMA DoneStep ==
  ASSUME IInv, UNCHANGED <<modules, analyzers>>, NEW t \in 0..N, NEW from, At(t, from, "done"),
         t = 0 \/ from = "close_out", CloseWrite(t)
  PROVE  IInv'
  <1> USE DEF IInv
  <1>1. /\ pc[t] = from /\ pc'[t] = "done" /\ pc' \in [Threads -> PCs] /\ t \in Threads
        /\ \A u \in Threads \ {t} : pc'[u] = pc[u]
        /\ UNCHANGED <<N, Threads, Pipes, Module, Main>>
    <2>1. t \in Threads /\ "done" \in PCs
      BY DEF Shape, PCs
    <2> QED BY <2>1, Moves DEF N
  <1>2. pipe' = pipe /\ readClosed' = readClosed
        /\ writeClosed' = [writeClosed EXCEPT ![t] = TRUE]
    BY DEF CloseWrite
  <1>3. Shape'
    BY <1>1, <1>2 DEF Shape
  <1>4. t # 0 => pipe[t - 1] = <<>> /\ \A s \in 0..(t - 1) : pc[s] = "done"
    <2> SUFFICES ASSUME t # 0 PROVE pipe[t - 1] = <<>> /\ \A s \in 0..(t - 1) : pc[s] = "done"
      OBVIOUS
    <2>1. t \in 1..Main
      BY DEF Shape
    <2>2. pc[t] \in Closing
      BY <1>1 DEF Closing
    <2> QED BY <2>1, <2>2 DEF SeenEOF
  <1>5. ASSUME NEW u \in 1..Main, pc'[u] \in Closing
        PROVE  pipe[u - 1] = <<>> /\ \A s \in 0..(u - 1) : pc'[s] = "done"
    <2>1. CASE u = t
      <3>1. \A s \in 0..(u - 1) : s \in Threads \ {t}
        BY <2>1, <1>1 DEF Shape
      <3> QED BY <1>1, <1>4, <2>1, <3>1
    <2>2. CASE u # t
      <3>1. pc[u] \in Closing /\ u \in Threads
        BY <1>1, <1>5, <2>2 DEF Shape
      <3>2. pipe[u - 1] = <<>> /\ \A s \in 0..(u - 1) : pc[s] = "done"
        BY <3>1 DEF SeenEOF
      <3>3. \A s \in 0..(u - 1) : s \in Threads
        BY <3>1 DEF Shape
      <3> QED BY <1>1, <3>2, <3>3
    <2> QED BY <2>1, <2>2
  <1>6. SeenEOF'
    BY <1>1, <1>2, <1>5 DEF SeenEOF
  <1>7. WriteEnds'
    BY <1>1, <1>2 DEF Shape, WriteEnds
  <1>8. ReadEnds'
    <2> SUFFICES ASSUME NEW k \in Pipes, readClosed[k]
                 PROVE  k + 1 \in Module /\ pc'[k + 1] \in Closing \ {"close_in"}
      BY <1>1, <1>2 DEF ReadEnds
    <2>1. k + 1 \in Module /\ pc[k + 1] \in Closing \ {"close_in"}
      BY DEF ReadEnds
    <2>2. k + 1 \in Threads
      BY <2>1 DEF Shape
    <2> QED BY <1>1, <2>1, <2>2 DEF Closing
  <1>9. Alive'
    BY <1>1 DEF Shape, Alive
  <1> QED BY <1>3, <1>6, <1>7, <1>8, <1>9

LEMMA StepIInv == IInv /\ [Next]_vars => IInv'
  <1> SUFFICES ASSUME IInv, [Next]_vars PROVE IInv'
    OBVIOUS
  <1>0. /\ N \in Nat /\ 0 \in Threads /\ Main \in Threads /\ Module \subseteq Threads
        /\ pipe = [k \in Pipes |-> pipe[k]]
    BY DEF IInv, Shape
  <1>1. CASE GetLine
    <2>1. At(0, "getline", "send") /\ "getline" \in PCs \ Closing /\ "send" \in PCs \ Closing
      BY <1>1 DEF GetLine, PCs, Closing
    <2> QED BY <1>0, <1>1, <2>1, OpenStep DEF GetLine
  <1>2. CASE SendLine
    <2>1. At(0, "send", "getline") /\ "getline" \in PCs \ Closing /\ "send" \in PCs \ Closing
      BY <1>2 DEF SendLine, PCs, Closing
    <2>2. /\ pipe' = [k \in Pipes |-> pipe'[k]]
          /\ \A k \in Pipes \ {0} : pipe'[k] = pipe[k]
      BY <1>0, <1>2 DEF SendLine, Send
    <2> QED BY <1>0, <1>2, <2>1, <2>2, OpenStep DEF SendLine, Send
  <1>3. CASE EndOfText
    BY <1>0, <1>3, DoneStep DEF EndOfText
  <1>4. ASSUME NEW t \in Module, Processor(t) PROVE IInv'
    <2>0. t \in Threads /\ t \in 0..N /\ t - 1 \in Pipes /\ t \in Pipes
      BY <1>0
    <2>1. CASE ReceiveObject(t)
      <3>1. At(t, "receive", "work") /\ "receive" \in PCs \ Closing /\ "work" \in PCs \ Closing
        BY <2>1 DEF ReceiveObject, PCs, Closing
      <3>2. /\ pipe' = [k \in Pipes |-> pipe'[k]]
            /\ \A k \in Pipes : pipe[k] = <<>> => pipe'[k] = <<>>
        BY <1>0, <2>1 DEF ReceiveObject, Receive
      <3> QED BY <2>0, <2>1, <3>1, <3>2, OpenStep DEF ReceiveObject, Receive
    <2>2. CASE ReceiveEOF(t)
      <3>1. /\ pc[t] = "receive" /\ pc'[t] = "close_in" /\ pc' \in [Threads -> PCs]
            /\ \A u \in Threads \ {t} : pc'[u] = pc[u]
        BY <2>0, <2>2, Moves DEF ReceiveEOF, PCs, IInv
      <3>2. /\ pipe[t - 1] = <<>> /\ writeClosed[t - 1]
            /\ UNCHANGED <<modules, pipe, readClosed, writeClosed, analyzers>>
            /\ UNCHANGED <<N, Threads, Pipes, Module, Main>>
        BY <2>2 DEF ReceiveEOF, ReceiveNULL, N
      <3>3. pc[t - 1] = "done"
        BY <2>0, <3>2 DEF IInv, WriteEnds
      <3>4. \A s \in 0..(t - 1) : pc[s] = "done" /\ s \in Threads \ {t}
        <4> SUFFICES ASSUME NEW s \in 0..(t - 1) PROVE pc[s] = "done" /\ s \in Threads \ {t}
          OBVIOUS
        <4>1. s \in Threads \ {t}
          BY <1>0
        <4>2. CASE s = t - 1
          BY <3>3, <4>1, <4>2
        <4>3. CASE s # t - 1
          <5>1. t - 1 \in 1..Main /\ s \in 0..((t - 1) - 1) /\ pc[t - 1] \in Closing
            BY <1>0, <3>3, <4>3 DEF Closing
          <5>2. pc[s] = "done"
            BY <5>1 DEF IInv, SeenEOF
          <5> QED BY <4>1, <5>2
        <4> QED BY <4>2, <4>3
      <3>5. ASSUME NEW u \in 1..Main, pc'[u] \in Closing
            PROVE  pipe[u - 1] = <<>> /\ \A s \in 0..(u - 1) : pc'[s] = "done"
        <4>1. CASE u = t
          BY <3>1, <3>2, <3>4, <4>1
        <4>2. CASE u # t
          <5>1. u \in Threads /\ pc[u] \in Closing
            BY <1>0, <3>1, <3>5, <4>2
          <5>2. pipe[u - 1] = <<>> /\ \A s \in 0..(u - 1) : pc[s] = "done" /\ s \in Threads
            BY <1>0, <5>1 DEF IInv, SeenEOF
          <5> QED BY <3>1, <5>2
        <4> QED BY <4>1, <4>2
      <3>6. Shape' /\ SeenEOF'
        BY <3>1, <3>2, <3>5 DEF IInv, Shape, SeenEOF
      <3>7. WriteEnds' /\ Alive'
        BY <1>0, <3>1, <3>2 DEF IInv, WriteEnds, Alive
      <3>8. ReadEnds'
        <4> SUFFICES ASSUME NEW k \in Pipes, readClosed[k]
                     PROVE  k + 1 \in Module /\ pc'[k + 1] \in Closing \ {"close_in"}
          BY <3>2 DEF ReadEnds
        <4>1. k + 1 \in Module /\ pc[k + 1] \in Closing \ {"close_in"}
          BY DEF IInv, ReadEnds
        <4>2. k + 1 \in Threads \ {t}
          BY <1>0, <3>1, <4>1 DEF Closing
        <4> QED BY <3>1, <4>1, <4>2
      <3> QED BY <3>6, <3>7, <3>8 DEF IInv
    <2>3. CASE Tokenize(t) \/ SplitList(t) \/ AnalyzeSentences(t)
      <3>1. /\ At(t, "work", "send") /\ "work" \in PCs \ Closing /\ "send" \in PCs \ Closing
            /\ UNCHANGED <<modules, pipe, readClosed, writeClosed, analyzers>>
        BY <2>3 DEF Tokenize, SplitList, AnalyzeSentences, PCs, Closing
      <3> QED BY <1>0, <2>0, <3>1, OpenStep
    <2>4. CASE SendResult(t)
      <3>1. PICK to \in {"receive", "delete"} : At(t, "send", to)
        BY <2>4 DEF SendResult
      <3>2. "send" \in PCs \ Closing /\ to \in PCs \ Closing
        BY DEF PCs, Closing
      <3>3. /\ pipe' = [k \in Pipes |-> pipe'[k]]
            /\ \A k \in Pipes \ {t} : pipe'[k] = pipe[k]
        BY <1>0, <2>0, <2>4 DEF SendResult, Send
      <3> QED BY <2>0, <2>4, <3>1, <3>2, <3>3, OpenStep DEF SendResult, Send
    <2>5. CASE DeleteInput(t)
      <3>1. At(t, "delete", "receive") /\ "delete" \in PCs \ Closing /\ "receive" \in PCs \ Closing
        BY <2>5 DEF DeleteInput, PCs, Closing
      <3> QED BY <1>0, <2>0, <2>5, <3>1, OpenStep DEF DeleteInput
    <2>6. CASE CloseInput(t)
      <3>1. PICK to \in {"flush", "close_out"} : At(t, "close_in", to)
        BY <2>6 DEF CloseInput
      <3>2. "close_in" \in Closing \ {"done"} /\ to \in Closing \ {"close_in", "done"}
        BY DEF Closing
      <3>3. /\ readClosed' \in [Pipes -> BOOLEAN] /\ pipe' = pipe
            /\ \A k \in Pipes \ {t - 1} : readClosed'[k] = readClosed[k]
        BY <2>6 DEF CloseInput, CloseRead, IInv, Shape
      <3> QED BY <1>0, <2>6, <3>1, <3>2, <3>3, ClosingStep DEF CloseInput, CloseRead
    <2>7. CASE FlushSplitter(t)
      <3>1. /\ At(t, "flush", "send_flushed")
            /\ "flush" \in Closing \ {"done"} /\ "send_flushed" \in Closing \ {"close_in", "done"}
        BY <2>7 DEF FlushSplitter, Closing
      <3> QED BY <1>0, <2>7, <3>1, ClosingStep DEF FlushSplitter, IInv, Shape
    <2>8. CASE SendFlushed(t)
      <3>1. /\ At(t, "send_flushed", "close_out")
            /\ "send_flushed" \in Closing \ {"done"} /\ "close_out" \in Closing \ {"close_in", "done"}
        BY <2>8 DEF SendFlushed, Closing
      <3>2. /\ pipe' = [k \in Pipes |-> pipe'[k]]
            /\ \A k \in Pipes \ {t} : pipe'[k] = pipe[k]
        BY <1>0, <2>0, <2>8 DEF SendFlushed, Send
      <3> QED BY <2>8, <3>1, <3>2, ClosingStep DEF SendFlushed, Send, IInv, Shape
    <2>9. CASE CloseOutput(t)
      BY <2>0, <2>9, DoneStep DEF CloseOutput
    <2> QED BY <1>4, <2>1, <2>2, <2>3, <2>4, <2>5, <2>6, <2>7, <2>8, <2>9 DEF Processor
  <1>5. CASE MainReceive
    <2>1. At(Main, "receive", "print") /\ "receive" \in PCs \ Closing /\ "print" \in PCs \ Closing
      BY <1>5 DEF MainReceive, PCs, Closing
    <2>2. /\ pipe' = [k \in Pipes |-> pipe'[k]]
          /\ \A k \in Pipes : pipe[k] = <<>> => pipe'[k] = <<>>
      BY <1>0, <1>5 DEF MainReceive, Receive
    <2> QED BY <1>0, <1>5, <2>1, <2>2, OpenStep DEF MainReceive, Receive
  <1>6. CASE PrintResults
    <2>1. At(Main, "print", "receive") /\ "receive" \in PCs \ Closing /\ "print" \in PCs \ Closing
      BY <1>6 DEF PrintResults, PCs, Closing
    <2> QED BY <1>0, <1>6, <2>1, OpenStep DEF PrintResults
  <1>7. CASE Cleanup
    <2>1. /\ pc[Main] = "receive" /\ pc'[Main] = "done" /\ pc' \in [Threads -> PCs]
          /\ \A u \in Threads \ {Main} : pc'[u] = pc[u]
      BY <1>0, <1>7, Moves DEF Cleanup, PCs, IInv
    <2>2. /\ pipe[N] = <<>> /\ writeClosed[N]
          /\ UNCHANGED <<modules, pipe, readClosed, writeClosed>>
          /\ UNCHANGED <<N, Threads, Pipes, Module, Main>>
      BY <1>0, <1>7 DEF Cleanup, ReceiveNULL, N
    <2>3. \A s \in 0..N : pc[s] = "done" /\ s \in Threads \ {Main}
      BY <1>0, <2>2 DEF IInv, WriteEnds, SeenEOF, Closing
    <2>4. ASSUME NEW u \in 1..Main, pc'[u] \in Closing
          PROVE  pipe[u - 1] = <<>> /\ \A s \in 0..(u - 1) : pc'[s] = "done"
      <3>1. CASE u = Main
        BY <1>0, <2>1, <2>2, <2>3, <3>1
      <3>2. CASE u # Main
        <4>1. u \in Threads /\ pc[u] \in Closing /\ 0..(u - 1) \subseteq 0..N
          BY <1>0, <2>1, <2>4, <3>2
        <4>2. pipe[u - 1] = <<>>
          BY <4>1 DEF IInv, SeenEOF
        <4> QED BY <2>1, <2>3, <4>1, <4>2
      <3> QED BY <3>1, <3>2
    <2>5. Shape' /\ SeenEOF'
      BY <2>1, <2>2, <2>4 DEF IInv, Shape, SeenEOF
    <2>6. WriteEnds'
      BY <1>0, <2>1, <2>2 DEF IInv, WriteEnds
    <2>7. ReadEnds'
      BY <1>0, <2>1, <2>2 DEF IInv, ReadEnds
    <2>8. Alive'
      BY <1>0, <2>1, <2>2 DEF IInv, Alive
    <2> QED BY <2>5, <2>6, <2>7, <2>8 DEF IInv
  <1>8. CASE UNCHANGED vars
    BY <1>8 DEF vars, IInv, Shape, SeenEOF, WriteEnds, ReadEnds, Alive, N
  <1> QED BY <1>1, <1>2, <1>3, <1>4, <1>5, <1>6, <1>7, <1>8 DEF Next, Reader, MainThread, Terminated

LEMMA Inductive == Spec => []IInv
  BY InitIInv, StepIInv, PTL DEF Spec

-----------------------------------------------------------------------------

\* Pipes close from the first to the last: a read end only after its writer has
\* closed and everything was read, and a thread ends after those before it.
THEOREM StreamEndsInOrder == Spec => []EndOfStream
  <1>1. IInv => EndOfStream
    <2> SUFFICES ASSUME IInv PROVE EndOfStream
      OBVIOUS
    <2> USE DEF IInv, Shape
    <2>1. ASSUME NEW k \in Pipes, readClosed[k] PROVE writeClosed[k] /\ pipe[k] = <<>>
      <3>1. k + 1 \in 1..Main /\ pc[k + 1] \in Closing /\ (k + 1) - 1 = k /\ k \in 0..((k + 1) - 1)
        BY <2>1 DEF ReadEnds
      <3> QED BY <3>1 DEF SeenEOF, WriteEnds
    <2>2. ASSUME NEW t \in 1..Main, pc[t] = "done" PROVE pc[t - 1] = "done"
      BY <2>2 DEF SeenEOF, Closing
    <2> QED BY <2>1, <2>2 DEF EndOfStream, WriteEnds
  <1> QED BY <1>1, Inductive, PTL

\* main deletes the modules only when no thread will call them again.
THEOREM ModulesOutliveThreads == Spec => []AnalyzersOutlive
  <1>1. IInv => AnalyzersOutlive
    <2> SUFFICES ASSUME IInv, NEW t \in Module, pc[t] # "done" PROVE t \in analyzers
      BY DEF AnalyzersOutlive
    <2> USE DEF IInv, Shape
    <2>1. CASE pc[Main] = "done"
      <3>1. Main \in 1..Main /\ t \in 0..(Main - 1) /\ pc[Main] \in Closing
        BY <2>1 DEF Closing
      <3> QED BY <3>1 DEF SeenEOF
    <2>2. CASE pc[Main] # "done"
      BY <2>2 DEF Alive
    <2> QED BY <2>1, <2>2
  <1> QED BY <1>1, Inductive, PTL

-----------------------------------------------------------------------------
(* Where each thread can be, and what the variables hold.                    *)

Word   == Nat \X Nat
Words  == Seq(Word)
Types  == {"null", "wstring", "words", "sentences"}
Object == [id : Nat \X Nat, type : Types, words : Words]

Places ==
  /\ pc[0] \in {"getline", "send", "done"}
  /\ pc[Main] \in {"receive", "print", "done"}
  /\ \A t \in Module :
       /\ pc[t] \in PCs \ {"getline", "print"}
       /\ pc[t] \in {"flush", "send_flushed"} => kind(t) = "splitter"
       /\ pc[t] = "delete" => kind(t) # "processor"

Control == /\ N \in Nat /\ modules \in Chains /\ text \in Inputs
           /\ lines \in Nat /\ lines <= Len(text)
           /\ pc \in [Threads -> PCs]
           /\ Places

Objects == /\ x \in [Threads -> Object] /\ y \in [Threads -> Object]
           /\ pipe \in [Pipes -> Seq(Object)]
           /\ buffer \in Words /\ printed \in Words
           /\ allocated \in [Threads -> Nat]

Base == Control /\ Objects

LEMMA OfChain ==
  ASSUME modules \in Chains, text \in Inputs
  PROVE  /\ N \in Nat /\ IsInjective(modules) /\ DOMAIN modules = 1..N
         /\ Len(text) \in Nat /\ \A n \in 1..Len(text) : text[n] \in Nat
  BY PipelineAssumption, LenProperties, ElementOfSeq DEF N

LEMMA NULLObject == NULL \in Object
  BY EmptySeq DEF NULL, Object, Words, Types

LEMMA KindIs ==
  ASSUME NEW t
  PROVE  /\ kind(t) \in {"tokenizer", "splitter", "processor"}
         /\ kind(t) = "splitter" <=> modules[t] = "splitter"
  BY DEF kind, Kind

LEMMA WritesType ==
  ASSUME NEW t
  PROVE  Writes(kind(t)) \in Types
  BY DEF Writes, Types

LEMMA NewObject ==
  ASSUME Base, NEW t \in Threads, NEW type \in Types, NEW ws \in Words
  PROVE  New(t, type, ws) \in Object
  <1>1. allocated[t] \in Nat /\ t \in Nat
    BY DEF Base, Objects, Control
  <1>2. PICK n \in Nat : n = allocated[t]
    BY <1>1
  <1>3. <<t, n + 1>> \in Nat \X Nat
    BY <1>1
  <1> QED BY <1>2, <1>3 DEF New, Object

LEMMA LineWords ==
  ASSUME modules \in Chains, text \in Inputs, NEW n \in 1..Len(text)
  PROVE  Line(n) \in Words
  <1>1. text[n] \in Nat /\ n \in Nat
    BY OfChain
  <1>2. PICK k \in Nat : k = text[n]
    BY <1>1
  <1>3. [j \in 1..k |-> <<n, j>>] \in Seq(Nat \X Nat)
    BY <1>1
  <1> QED BY <1>2, <1>3 DEF Line, Words, Word

LEMMA InitBase ==
  ASSUME Init
  PROVE  Base
  <1>1. modules \in Chains /\ text \in Inputs /\ lines = 0
    BY DEF Init
  <1>2. N \in Nat /\ Len(text) \in Nat
    BY <1>1, OfChain
  <1>3. Control
    BY <1>1, <1>2 DEF Init, Control, Places, PCs
  <1>4. [id |-> <<0, 1>>, type |-> "wstring", words |-> <<>>] \in Object /\ <<>> \in Words
        /\ <<>> \in Seq(Object)
    BY EmptySeq DEF Object, Words, Types
  <1>5. Objects
    BY <1>2, <1>4, NULLObject DEF Init, Objects
  <1> QED BY <1>3, <1>5 DEF Base

\* Words cut in two.
LEMMA CutWords ==
  ASSUME NEW v \in Words, NEW n \in 0..Len(v)
  PROVE  /\ SubSeq(v, 1, n) \in Words /\ SubSeq(v, n + 1, Len(v)) \in Words
         /\ n = 0 => SubSeq(v, n + 1, Len(v)) = v
         /\ n # 0 => SubSeq(v, 1, n) \o SubSeq(v, n + 1, Len(v)) = v
  <1>1. CASE n = 0
    <2>1. SubSeq(v, 1, 0) = <<>> /\ SubSeq(v, 1, Len(v)) = v
      BY SubSeqEmpty, SubSeqFull DEF Words
    <2>2. <<>> \in Words
      BY EmptySeq DEF Words
    <2>3. n + 1 = 1
      BY <1>1
    <2>4. SubSeq(v, 1, n) = <<>> /\ SubSeq(v, n + 1, Len(v)) = v
      BY <1>1, <2>1, <2>3
    <2> QED BY <1>1, <2>2, <2>4
  <1>2. CASE n # 0
    <2>1. n \in 1..Len(v)
      BY <1>2, LenProperties DEF Words
    <2>2. PICK W : W = Word
      OBVIOUS
    <2>3. v \in Seq(W)
      BY <2>2 DEF Words
    <2>4. /\ SubSeq(v, 1, n) \in Seq(W) /\ SubSeq(v, n + 1, Len(v)) \in Seq(W)
          /\ SubSeq(v, 1, n) \o SubSeq(v, n + 1, Len(v)) = v
      BY <2>1, <2>3, CutAt
    <2> QED BY <1>2, <2>2, <2>4 DEF Words
  <1> QED BY <1>1, <1>2

LEMMA JoinWords ==
  ASSUME NEW v \in Words, NEW w \in Words
  PROVE  v \o w \in Words
  BY ConcatProperties DEF Words

\* The control part of every step.
LEMMA StepControl ==
  ASSUME Control, [Next]_vars
  PROVE  Control'
  <1>0. N \in Nat /\ modules \in Chains /\ text \in Inputs /\ Len(text) \in Nat
    BY OfChain DEF Control
  <1>1. ASSUME UNCHANGED data
        PROVE  UNCHANGED <<N, Threads, Pipes, Module, Main>> /\ \A t : kind(t)' = kind(t)
    BY <1>1 DEF N, kind
  <1>2. ASSUME NEW t \in Threads, NEW from, NEW to \in PCs, At(t, from, to), UNCHANGED data,
               lines' \in Nat, lines' <= Len(text),
               t = 0 => to \in {"getline", "send", "done"},
               t = Main => to \in {"receive", "print", "done"},
               t \in Module => /\ to \notin {"getline", "print"}
                               /\ to \in {"flush", "send_flushed"} => kind(t) = "splitter"
                               /\ to = "delete" => kind(t) # "processor"
        PROVE  Control'
    <2>1. /\ pc'[t] = to /\ pc' \in [Threads -> PCs]
          /\ \A u \in Threads \ {t} : pc'[u] = pc[u]
      BY <1>2 DEF At, Control
    <2>2. UNCHANGED <<N, Threads, Pipes, Module, Main>> /\ \A u : kind(u)' = kind(u)
      BY <1>1, <1>2
    <2>3. ASSUME NEW u \in Module
          PROVE  /\ pc'[u] \in PCs \ {"getline", "print"}
                 /\ pc'[u] \in {"flush", "send_flushed"} => kind(u) = "splitter"
                 /\ pc'[u] = "delete" => kind(u) # "processor"
      <3>1. u \in Threads
        BY <1>0
      <3>2. CASE u = t
        BY <1>2, <2>1, <3>2
      <3>3. CASE u # t
        BY <2>1, <3>1, <3>3 DEF Control, Places
      <3> QED BY <3>2, <3>3
    <2>4. pc'[0] \in {"getline", "send", "done"} /\ pc'[Main] \in {"receive", "print", "done"}
      <3>1. 0 \in Threads /\ Main \in Threads
        BY <1>0
      <3> QED BY <1>2, <2>1, <3>1 DEF Control, Places
    <2>5. Places'
      BY <2>2, <2>3, <2>4 DEF Places
    <2> QED BY <1>0, <1>2, <2>1, <2>2, <2>5 DEF Control
  <1>3. lines \in Nat /\ lines <= Len(text)
    BY DEF Control
  <1>4. 0 \in Threads /\ Main \in Threads /\ 0 \notin Module /\ Main \notin Module /\ Main # 0
        /\ \A t \in Module : t \in Threads /\ t # 0 /\ t # Main
    BY <1>0
  <1>5. {"getline", "receive", "work", "send", "delete", "close_in", "flush", "send_flushed",
         "close_out", "print", "done"} \subseteq PCs
    BY DEF PCs
  <1>6. CASE Reader
    <2>1. CASE GetLine
      BY <1>0, <1>2, <1>3, <1>4, <1>5, <2>1 DEF GetLine
    <2>2. CASE SendLine
      BY <1>2, <1>3, <1>4, <1>5, <2>2 DEF SendLine
    <2>3. CASE EndOfText
      BY <1>2, <1>3, <1>4, <1>5, <2>3 DEF EndOfText
    <2> QED BY <1>6, <2>1, <2>2, <2>3 DEF Reader
  <1>7. ASSUME NEW t \in Module, Processor(t)
        PROVE  Control'
    <2>0. t \in Threads /\ t # 0 /\ t # Main /\ pc[t] = pc[t]
      BY <1>4
    <2>1. UNCHANGED data /\ lines' = lines
      BY <1>7 DEF Processor, ReceiveObject, ReceiveEOF, Tokenize, SplitList, AnalyzeSentences,
                  SendResult, DeleteInput, CloseInput, FlushSplitter, SendFlushed, CloseOutput
    <2>2. \E from \in PCs, to \in PCs \ {"getline", "print"} :
            /\ At(t, from, to)
            /\ to \in {"flush", "send_flushed"} => kind(t) = "splitter" \/ from = "flush"
            /\ to = "delete" => kind(t) # "processor"
      <3>1. CASE ReceiveObject(t) \/ ReceiveEOF(t) \/ Tokenize(t) \/ SplitList(t)
                 \/ AnalyzeSentences(t) \/ DeleteInput(t) \/ SendFlushed(t) \/ CloseOutput(t)
        BY <1>5, <3>1 DEF ReceiveObject, ReceiveEOF, Tokenize, SplitList, AnalyzeSentences,
                          DeleteInput, SendFlushed, CloseOutput
      <3>2. CASE SendResult(t)
        BY <1>5, <3>2 DEF SendResult
      <3>3. CASE CloseInput(t)
        BY <1>5, <3>3 DEF CloseInput
      <3>4. CASE FlushSplitter(t)
        BY <1>5, <3>4 DEF FlushSplitter
      <3> QED BY <1>7, <3>1, <3>2, <3>3, <3>4 DEF Processor
    <2>3. PICK from \in PCs, to \in PCs \ {"getline", "print"} :
            /\ At(t, from, to)
            /\ to \in {"flush", "send_flushed"} => kind(t) = "splitter" \/ from = "flush"
            /\ to = "delete" => kind(t) # "processor"
      BY <2>2
    <2>4. from = "flush" => kind(t) = "splitter"
      BY <2>3 DEF At, Control, Places
    <2> QED BY <1>2, <1>3, <2>0, <2>1, <2>3, <2>4
  <1>8. CASE MainThread
    <2>1. CASE MainReceive
      BY <1>2, <1>3, <1>4, <1>5, <2>1 DEF MainReceive
    <2>2. CASE PrintResults
      BY <1>2, <1>3, <1>4, <1>5, <2>2 DEF PrintResults
    <2>3. CASE Cleanup
      BY <1>2, <1>3, <1>4, <1>5, <2>3 DEF Cleanup
    <2> QED BY <1>8, <2>1, <2>2, <2>3 DEF MainThread
  <1>9. CASE UNCHANGED vars
    <2>1. UNCHANGED data /\ pc' = pc /\ lines' = lines
      BY <1>9 DEF vars
    <2>2. UNCHANGED <<N, Threads, Pipes, Module, Main>> /\ \A u : kind(u)' = kind(u)
      BY <1>1, <2>1
    <2> QED BY <2>1, <2>2 DEF Control, Places
  <1> QED BY <1>6, <1>7, <1>8, <1>9 DEF Next, Terminated

\* The objects part: what threads, pipes and the splitter hold keeps its shape.
LEMMA StepObjects ==
  ASSUME Base, [Next]_vars
  PROVE  Objects'
  <1>0. /\ N \in Nat /\ Main \in Threads /\ 0 \in Threads /\ 0 \in Pipes /\ N \in Pipes
        /\ \A t \in Module : t \in Threads /\ t \in Pipes /\ t - 1 \in Pipes
        /\ Main - 1 = N
    BY OfChain DEF Base, Control
  <1>1. UNCHANGED data
    BY DEF Next, Reader, GetLine, SendLine, EndOfText, Processor, ReceiveObject, ReceiveEOF,
           Tokenize, SplitList, AnalyzeSentences, SendResult, DeleteInput, CloseInput,
           FlushSplitter, SendFlushed, CloseOutput, MainThread, MainReceive, PrintResults,
           Cleanup, Terminated, vars
  <1>2. UNCHANGED <<N, Threads, Pipes, Module, Main>>
    BY <1>1 DEF N
  <1>3. /\ x \in [Threads -> Object] /\ y \in [Threads -> Object]
        /\ pipe \in [Pipes -> Seq(Object)]
        /\ buffer \in Words /\ printed \in Words
        /\ allocated \in [Threads -> Nat]
    BY DEF Base, Objects
  <1> DEFINE ObjectsThen == /\ x' \in [Threads -> Object] /\ y' \in [Threads -> Object]
                            /\ pipe' \in [Pipes -> Seq(Object)]
                            /\ buffer' \in Words /\ printed' \in Words
                            /\ allocated' \in [Threads -> Nat]
  <1> SUFFICES ObjectsThen
    BY <1>2 DEF Objects
  <1>4. ASSUME NEW k \in Pipes, NEW o \in Object, Send(k, o)
        PROVE  pipe' \in [Pipes -> Seq(Object)]
    <2>1. Append(pipe[k], o) \in Seq(Object)
      BY <1>3, AppendProperties
    <2> QED BY <1>3, <1>4, <2>1 DEF Send
  <1>5. ASSUME NEW t \in 1..Main, Receive(t)
        PROVE  x' \in [Threads -> Object] /\ pipe' \in [Pipes -> Seq(Object)]
    <2>1. t \in Threads /\ t - 1 \in Pipes
      BY <1>0
    <2>2. pipe[t - 1] \in Seq(Object) /\ pipe[t - 1] # <<>>
      BY <1>3, <1>5, <2>1 DEF Receive
    <2>3. Head(pipe[t - 1]) \in Object /\ Tail(pipe[t - 1]) \in Seq(Object)
      BY <2>2, HeadTailProperties
    <2> QED BY <1>3, <1>5, <2>1, <2>3 DEF Receive
  <1>6. ASSUME NEW t \in 1..Main, ReceiveNULL(t)
        PROVE  x' \in [Threads -> Object] /\ pipe' = pipe
    BY <1>0, <1>3, <1>6, NULLObject DEF ReceiveNULL
  <1>7. ASSUME NEW t \in Threads, NEW type \in Types, NEW ws \in Words,
               Allocate(t, New(t, type, ws))
        PROVE  New(t, type, ws) \in Object /\ allocated' \in [Threads -> Nat]
    BY <1>3, <1>7, NewObject DEF Allocate
  <1>8. ASSUME NEW t \in Module, NEW ws \in Words, Result(t, ws)
        PROVE  y' \in [Threads -> Object] /\ allocated' \in [Threads -> Nat]
    <2>1. t \in Threads /\ Writes(kind(t)) \in Types
      BY <1>0, WritesType
    <2>2. New(t, Writes(kind(t)), ws) \in Object /\ allocated' \in [Threads -> Nat]
      BY <1>7, <1>8, <2>1 DEF Result
    <2> QED BY <1>3, <1>8, <2>1, <2>2 DEF Result
  <1>9. \A t \in Threads : x[t].words \in Words
    BY <1>3 DEF Object
  <1>10. CASE GetLine
    <2>1. lines + 1 \in 1..Len(text) /\ modules \in Chains /\ text \in Inputs
      BY <1>10, OfChain DEF GetLine, Base, Control
    <2>2. PICK w \in Words : w = Line(lines + 1)
      BY <2>1, LineWords
    <2>3. [x[0] EXCEPT !.words = w] \in Object
      <3>1. x[0] \in Object
        BY <1>0, <1>3
      <3>2. ASSUME NEW o \in Object PROVE [o EXCEPT !.words = w] \in Object
        BY DEF Object
      <3> QED BY <3>1, <3>2
    <2>4. x' = [x EXCEPT ![0] = [x[0] EXCEPT !.words = w]]
      BY <1>3, <1>10, <2>2 DEF GetLine
    <2> QED BY <1>3, <1>10, <2>3, <2>4 DEF GetLine
  <1>11. CASE SendLine
    <2>1. "wstring" \in Types /\ <<>> \in Words
      BY EmptySeq DEF Types, Words
    <2>2. New(0, "wstring", <<>>) \in Object /\ allocated' \in [Threads -> Nat]
      BY <1>0, <1>7, <1>11, <2>1 DEF SendLine
    <2>3. pipe' \in [Pipes -> Seq(Object)]
      BY <1>0, <1>3, <1>4, <1>11 DEF SendLine
    <2> QED BY <1>3, <1>11, <2>2, <2>3 DEF SendLine
  <1>12. CASE EndOfText
    BY <1>3, <1>12 DEF EndOfText, CloseWrite
  <1>13. ASSUME NEW t \in Module, Processor(t)
         PROVE  ObjectsThen
    <2>0. t \in Threads /\ t \in Pipes /\ t \in 1..Main
      BY <1>0
    <2>1. CASE ReceiveObject(t)
      BY <1>3, <1>5, <2>0, <2>1 DEF ReceiveObject
    <2>2. CASE ReceiveEOF(t)
      BY <1>3, <1>6, <2>0, <2>2 DEF ReceiveEOF
    <2>3. CASE Tokenize(t)
      BY <1>3, <1>8, <1>9, <2>0, <2>3 DEF Tokenize
    <2>4. CASE SplitList(t)
      <3>1. PICK v \in Words : v = x[t].words
        BY <1>9, <2>0
      <3>2. PICK n \in 0..Len(v) :
              /\ Result(t, IF n = 0 THEN <<>> ELSE buffer \o SubSeq(v, 1, n))
              /\ buffer' = IF n = 0 THEN buffer \o SubSeq(v, n + 1, Len(v))
                                    ELSE SubSeq(v, n + 1, Len(v))
        BY <2>4, <3>1 DEF SplitList
      <3>3. SubSeq(v, 1, n) \in Words /\ SubSeq(v, n + 1, Len(v)) \in Words /\ <<>> \in Words
        BY CutWords, EmptySeq DEF Words
      <3>4. buffer \o SubSeq(v, 1, n) \in Words /\ buffer \o SubSeq(v, n + 1, Len(v)) \in Words
        BY <1>3, <3>3, JoinWords
      <3>5. PICK r \in Words : r = IF n = 0 THEN <<>> ELSE buffer \o SubSeq(v, 1, n)
        BY <3>3, <3>4
      <3>6. Result(t, r) /\ buffer' \in Words
        BY <3>2, <3>3, <3>4, <3>5
      <3> QED BY <1>3, <1>8, <2>0, <2>4, <3>6 DEF SplitList
    <2>5. CASE AnalyzeSentences(t)
      BY <1>3, <2>0, <2>5 DEF AnalyzeSentences
    <2>6. CASE SendResult(t)
      BY <1>3, <1>4, <2>0, <2>6 DEF SendResult
    <2>7. CASE DeleteInput(t)
      BY <1>3, <2>7 DEF DeleteInput
    <2>8. CASE CloseInput(t)
      BY <1>3, <2>8 DEF CloseInput, CloseRead
    <2>9. CASE FlushSplitter(t)
      <3>1. <<>> \in Words
        BY EmptySeq DEF Words
      <3> QED BY <1>3, <1>8, <2>0, <2>9, <3>1 DEF FlushSplitter
    <2>10. CASE SendFlushed(t)
      BY <1>3, <1>4, <2>0, <2>10 DEF SendFlushed
    <2>11. CASE CloseOutput(t)
      BY <1>3, <2>11 DEF CloseOutput, CloseWrite
    <2> QED BY <1>13, <2>1, <2>2, <2>3, <2>4, <2>5, <2>6, <2>7, <2>8, <2>9, <2>10, <2>11
            DEF Processor
  <1>14. CASE MainReceive
    <2>1. Main \in 1..Main
      BY <1>0
    <2> QED BY <1>3, <1>5, <1>14, <2>1 DEF MainReceive
  <1>15. CASE PrintResults
    <2>1. printed \o x[Main].words \in Words
      BY <1>0, <1>3, <1>9, JoinWords
    <2> QED BY <1>3, <1>15, <2>1 DEF PrintResults
  <1>16. CASE Cleanup
    <2>1. Main \in 1..Main
      BY <1>0
    <2> QED BY <1>3, <1>6, <1>16, <2>1 DEF Cleanup
  <1>17. CASE UNCHANGED vars
    BY <1>3, <1>17 DEF vars
  <1> QED BY <1>10, <1>11, <1>12, <1>13, <1>14, <1>15, <1>16, <1>17
          DEF Next, Reader, MainThread, Terminated

LEMMA AlwaysBase == Spec => []Base
  <1>1. Base /\ [Next]_vars => Base'
    BY StepControl, StepObjects DEF Base
  <1> QED BY InitBase, <1>1, PTL DEF Spec

-----------------------------------------------------------------------------
(* Types: what a pipe carries is what its reader casts it to.                *)

Carries(k) == IF k = 0 THEN "wstring" ELSE Writes(kind(k))
Wants(t)   == IF t = Main THEN "sentences" ELSE Reads(kind(t))

Fits == \A t \in 1..Main : Wants(t) = Carries(t - 1)

Typed ==
  /\ x[0].type = "wstring"
  /\ \A k \in Pipes : \A i \in 1..Len(pipe[k]) : pipe[k][i].type = Carries(k)
  /\ \A t \in Module : pc[t] \in {"send", "send_flushed"} => y[t].type = Writes(kind(t))
  /\ \A t \in 1..Main : pc[t] \in {"work", "print"} => x[t].type = Wants(t)

LEMMA WellTypedFits ==
  ASSUME Base, WellTyped(modules)
  PROVE  Fits
  <1>0. N \in Nat /\ modules \in Chains
    BY DEF Base, Control
  <1>1. N # 0
    <2>1. modules \in Seq(Range(Order)) /\ modules # <<>>
      BY <1>0, PipelineAssumption DEF WellTyped
    <2> QED BY <2>1, EmptySeq DEF N
  <1> SUFFICES ASSUME NEW t \in 1..Main PROVE Wants(t) = Carries(t - 1)
    BY DEF Fits
  <1>2. CASE t = Main
    BY <1>0, <1>1, <1>2 DEF WellTyped, Wants, Carries, N, kind
  <1>3. CASE t # Main /\ t = 1
    BY <1>0, <1>1, <1>3 DEF WellTyped, Wants, Carries, N, kind
  <1>4. CASE t # Main /\ t # 1
    <2>1. t \in 2..Len(modules) /\ t - 1 # 0
      BY <1>0, <1>4 DEF N
    <2> QED BY <1>4, <2>1 DEF WellTyped, Wants, Carries, kind
  <1> QED BY <1>2, <1>3, <1>4

LEMMA StepTyped ==
  ASSUME Base, Fits, Typed, [Next]_vars
  PROVE  Typed'
  <1>0. /\ N \in Nat /\ Main \in Threads /\ 0 \in Threads /\ 0 \in Pipes /\ N \in Pipes
        /\ \A t \in Module : t \in Threads /\ t \in Pipes /\ t - 1 \in Pipes /\ t # Main /\ t # 0
        /\ \A t \in 1..Main : t \in Threads /\ t - 1 \in Pipes /\ t # 0
        /\ Main - 1 = N /\ 0 \notin 1..Main
    BY DEF Base, Control
  <1>1. UNCHANGED data
    BY DEF Next, Reader, GetLine, SendLine, EndOfText, Processor, ReceiveObject, ReceiveEOF,
           Tokenize, SplitList, AnalyzeSentences, SendResult, DeleteInput, CloseInput,
           FlushSplitter, SendFlushed, CloseOutput, MainThread, MainReceive, PrintResults,
           Cleanup, Terminated, vars
  <1>2. /\ UNCHANGED <<N, Threads, Pipes, Module, Main>> /\ \A t : kind(t)' = kind(t)
    BY <1>1 DEF N, kind
  <1>3. \A k : Carries(k)' = Carries(k) /\ Wants(k)' = Wants(k)
    BY <1>1, <1>2 DEF Carries, Wants, kind, Kind
  <1>4. /\ x \in [Threads -> Object] /\ y \in [Threads -> Object]
        /\ pipe \in [Pipes -> Seq(Object)] /\ pc \in [Threads -> PCs]
    BY DEF Base, Objects, Control
  <1> DEFINE PipesThen == \A k \in Pipes : \A i \in 1..Len(pipe'[k]) : pipe'[k][i].type = Carries(k)
             YThen == \A t \in Module : pc'[t] \in {"send", "send_flushed"}
                                          => y'[t].type = Writes(kind(t))
             XThen == \A t \in 1..Main : pc'[t] \in {"work", "print"} => x'[t].type = Wants(t)
             TypedThen == x'[0].type = "wstring" /\ PipesThen /\ YThen /\ XThen
  <1> SUFFICES TypedThen
    BY <1>2, <1>3 DEF Typed
  <1>5. ASSUME NEW k \in Pipes, NEW o \in Object, Send(k, o), o.type = Carries(k)
        PROVE  PipesThen
    <2> SUFFICES ASSUME NEW l \in Pipes, NEW i \in 1..Len(pipe'[l])
                 PROVE  pipe'[l][i].type = Carries(l)
      OBVIOUS
    <2>1. CASE l = k
      <3>1. pipe'[k] = Append(pipe[k], o) /\ pipe[k] \in Seq(Object)
        BY <1>4, <1>5 DEF Send
      <3>2. /\ Len(pipe'[k]) = Len(pipe[k]) + 1 /\ pipe'[k][Len(pipe[k]) + 1] = o
            /\ \A j \in 1..Len(pipe[k]) : pipe'[k][j] = pipe[k][j]
            /\ Len(pipe[k]) \in Nat
        BY <3>1, AppendProperties, LenProperties
      <3>3. CASE i = Len(pipe[k]) + 1
        BY <1>5, <2>1, <3>2, <3>3
      <3>4. CASE i # Len(pipe[k]) + 1
        <4>1. i \in 1..Len(pipe[k])
          BY <2>1, <3>2, <3>4
        <4> QED BY <2>1, <3>2, <4>1 DEF Typed
      <3> QED BY <3>3, <3>4
    <2>2. CASE l # k
      BY <1>4, <1>5, <2>2 DEF Send, Typed
    <2> QED BY <2>1, <2>2
  <1>6. ASSUME NEW t \in 1..Main, Receive(t)
        PROVE  PipesThen /\ x'[t].type = Wants(t) /\ \A u \in Threads \ {t} : x'[u] = x[u]
    <2>0. t \in Threads /\ t - 1 \in Pipes
      BY <1>0
    <2>1. /\ pipe[t - 1] \in Seq(Object) /\ pipe[t - 1] # <<>>
          /\ x' = [x EXCEPT ![t] = Head(pipe[t - 1])]
          /\ pipe' = [pipe EXCEPT ![t - 1] = Tail(@)]
      BY <1>4, <1>6, <2>0 DEF Receive
    <2>2. /\ Head(pipe[t - 1]) = pipe[t - 1][1] /\ 1 \in 1..Len(pipe[t - 1])
          /\ Len(Tail(pipe[t - 1])) = Len(pipe[t - 1]) - 1
          /\ \A i \in 1..Len(Tail(pipe[t - 1])) : Tail(pipe[t - 1])[i] = pipe[t - 1][i + 1]
      BY <2>1, HeadTailProperties, EmptySeq, LenProperties
    <2>3. Head(pipe[t - 1]).type = Wants(t)
      BY <2>0, <2>2 DEF Typed, Fits
    <2>4. PipesThen
      <3> SUFFICES ASSUME NEW l \in Pipes, NEW i \in 1..Len(pipe'[l])
                   PROVE  pipe'[l][i].type = Carries(l)
        OBVIOUS
      <3>1. CASE l = t - 1
        <4>1. pipe'[l] = Tail(pipe[t - 1])
          BY <1>4, <2>1, <3>1
        <4>2. i + 1 \in 1..Len(pipe[t - 1]) /\ pipe'[l][i] = pipe[t - 1][i + 1]
          <5>1. Len(pipe[t - 1]) \in Nat
            BY <2>1, LenProperties
          <5> QED BY <2>2, <4>1, <5>1
        <4> QED BY <3>1, <4>2 DEF Typed
      <3>2. CASE l # t - 1
        BY <1>4, <2>1, <3>2 DEF Typed
      <3> QED BY <3>1, <3>2
    <2> QED BY <1>4, <2>0, <2>1, <2>3, <2>4
  <1>7. ASSUME NEW t \in Threads, NEW from, NEW to, At(t, from, to)
        PROVE  pc[t] = from /\ pc'[t] = to /\ \A u \in Threads \ {t} : pc'[u] = pc[u]
    BY <1>4, <1>7 DEF At
  <1>8. ASSUME NEW t \in Module, NEW ws, Result(t, ws)
        PROVE  y'[t].type = Writes(kind(t)) /\ \A u \in Threads \ {t} : y'[u] = y[u]
    BY <1>0, <1>4, <1>8 DEF Result, New
  <1>9. CASE GetLine
    <2>1. x'[0].type = "wstring" /\ \A u \in Threads \ {0} : x'[u] = x[u]
      <3>1. x[0] \in Object
        BY <1>0, <1>4
      <3>2. \A w : [x[0] EXCEPT !.words = w].type = x[0].type
        BY <3>1 DEF Object
      <3>3. x' = [x EXCEPT ![0] = [x[0] EXCEPT !.words = Line(lines + 1)]]
        BY <1>4, <1>9 DEF GetLine
      <3>4. x'[0] = [x[0] EXCEPT !.words = Line(lines + 1)]
        BY <1>0, <1>4, <3>3
      <3> QED BY <1>4, <3>2, <3>3, <3>4 DEF Typed
    <2> QED BY <1>0, <1>7, <1>9, <2>1 DEF GetLine, Typed
  <1>10. CASE SendLine
    <2>1. x'[0].type = "wstring" /\ \A u \in Threads \ {0} : x'[u] = x[u]
      BY <1>0, <1>4, <1>10 DEF SendLine, New
    <2>2. PipesThen
      BY <1>0, <1>4, <1>5, <1>10 DEF SendLine, Typed, Carries
    <2> HIDE DEF PipesThen
    <2> QED BY <1>0, <1>7, <1>10, <2>1, <2>2 DEF SendLine, Typed
  <1>11. CASE EndOfText
    BY <1>0, <1>7, <1>11, ZenonT(80) DEF EndOfText, CloseWrite, Typed
  <1>12. ASSUME NEW t \in Module, Processor(t)
         PROVE  TypedThen
    <2>0. t \in Threads /\ t \in Pipes /\ t \in 1..Main /\ t # Main /\ t # 0
      BY <1>0
    <2>1. CASE ReceiveObject(t)
      <3>1. PipesThen /\ x'[t].type = Wants(t) /\ \A u \in Threads \ {t} : x'[u] = x[u]
        BY <1>6, <2>0, <2>1 DEF ReceiveObject
      <3> HIDE DEF PipesThen
      <3>2. pc'[t] = "work" /\ y' = y /\ \A u \in Threads \ {t} : pc'[u] = pc[u]
        BY <1>7, <2>0, <2>1 DEF ReceiveObject
      <3>3. XThen /\ YThen /\ x'[0].type = "wstring"
        BY <1>0, <2>0, <3>1, <3>2 DEF Typed
      <3> QED BY <3>1, <3>3
    <2>2. CASE ReceiveEOF(t)
      <3>1. pipe' = pipe /\ y' = y /\ \A u \in Threads \ {t} : x'[u] = x[u]
        BY <1>4, <2>0, <2>2 DEF ReceiveEOF, ReceiveNULL
      <3> QED BY <1>0, <1>7, <2>0, <2>2, <3>1 DEF ReceiveEOF, Typed
    <2>3. CASE Tokenize(t) \/ SplitList(t) \/ FlushSplitter(t)
      <3>1. /\ \E from, to : At(t, from, to) /\ to \notin {"work", "print"}
            /\ \E ws : Result(t, ws)
            /\ UNCHANGED <<pipe, x>>
        BY <2>3 DEF Tokenize, SplitList, FlushSplitter
      <3>2. /\ pc'[t] \notin {"work", "print"} /\ \A u \in Threads \ {t} : pc'[u] = pc[u]
            /\ y'[t].type = Writes(kind(t)) /\ \A u \in Threads \ {t} : y'[u] = y[u]
        BY <1>7, <1>8, <2>0, <3>1
      <3>3. YThen
        BY <1>0, <2>0, <3>2 DEF Typed
      <3>4. XThen
        BY <1>0, <2>0, <3>1, <3>2 DEF Typed
      <3> QED BY <3>1, <3>3, <3>4 DEF Typed
    <2>4. CASE AnalyzeSentences(t)
      <3>1. y'[t] = x[t] /\ \A u \in Threads \ {t} : y'[u] = y[u]
        BY <1>4, <2>0, <2>4 DEF AnalyzeSentences
      <3>2. x[t].type = Writes(kind(t))
        <4>1. pc[t] = "work" /\ kind(t) = "processor"
          BY <2>4 DEF AnalyzeSentences, At
        <4>2. x[t].type = Reads(kind(t))
          BY <2>0, <4>1 DEF Typed, Wants
        <4> QED BY <4>1, <4>2 DEF Reads, Writes
      <3> QED BY <1>0, <1>7, <2>0, <2>4, <3>1, <3>2 DEF AnalyzeSentences, Typed
    <2>5. CASE SendResult(t) \/ SendFlushed(t)
      <3>1. /\ \E from \in {"send", "send_flushed"}, to \in {"receive", "delete", "close_out"} :
                 At(t, from, to)
            /\ Send(t, y[t]) /\ UNCHANGED <<x, y>>
        BY <2>5 DEF SendResult, SendFlushed
      <3>2. PICK from \in {"send", "send_flushed"}, to \in {"receive", "delete", "close_out"} :
              At(t, from, to)
        BY <3>1
      <3>3. y[t].type = Carries(t)
        BY <1>7, <2>0, <3>2 DEF Typed, Carries
      <3>4. PipesThen
        BY <1>4, <1>5, <2>0, <3>1, <3>3
      <3> HIDE DEF PipesThen
      <3> QED BY <1>0, <1>7, <2>0, <3>1, <3>2, <3>4 DEF Typed
    <2>6. CASE DeleteInput(t) \/ CloseInput(t) \/ CloseOutput(t)
      <3>1. /\ \E from, to : At(t, from, to) /\ to \in {"receive", "flush", "close_out", "done"}
            /\ UNCHANGED <<pipe, x, y>>
        BY <2>6 DEF DeleteInput, CloseInput, CloseOutput, CloseRead, CloseWrite
      <3> QED BY <1>0, <1>7, <2>0, <3>1 DEF Typed
    <2> QED BY <1>12, <2>1, <2>2, <2>3, <2>4, <2>5, <2>6 DEF Processor
  <1>13. CASE MainReceive
    <2>1. PipesThen /\ x'[Main].type = Wants(Main) /\ \A u \in Threads \ {Main} : x'[u] = x[u]
      <3>1. Main \in 1..Main
        BY <1>0
      <3> QED BY <1>6, <1>13, <3>1 DEF MainReceive
    <2> HIDE DEF PipesThen
    <2>2. pc'[Main] = "print" /\ y' = y /\ \A u \in Threads \ {Main} : pc'[u] = pc[u]
      BY <1>0, <1>7, <1>13 DEF MainReceive
    <2>3. x'[0].type = "wstring"
      <3>1. Main # 0
        BY <1>0
      <3> QED BY <1>0, <2>1, <3>1 DEF Typed
    <2>4. YThen
      BY <1>0, <2>2 DEF Typed
    <2>5. XThen
      <3> SUFFICES ASSUME NEW t \in 1..Main, pc'[t] \in {"work", "print"}
                   PROVE  x'[t].type = Wants(t)
        OBVIOUS
      <3> HIDE DEF Main
      <3>1. CASE t = Main
        BY <2>1, <3>1
      <3>2. CASE t # Main
        <4>1. t \in Threads \ {Main}
          BY <1>0, <3>2
        <4>2. x'[t] = x[t] /\ pc'[t] = pc[t]
          BY <2>1, <2>2, <4>1
        <4> QED BY <4>2 DEF Typed
      <3> QED BY <3>1, <3>2
    <2> QED BY <2>1, <2>3, <2>4, <2>5
  <1>14. CASE PrintResults
    BY <1>0, <1>7, <1>14 DEF PrintResults, Typed
  <1>15. CASE Cleanup
    <2>1. pipe' = pipe /\ y' = y /\ \A u \in Threads \ {Main} : x'[u] = x[u]
      BY <1>0, <1>4, <1>15 DEF Cleanup, ReceiveNULL
    <2> QED BY <1>0, <1>7, <1>15, <2>1 DEF Cleanup, Typed
  <1>16. CASE UNCHANGED vars
    BY <1>16 DEF vars, Typed
  <1> QED BY <1>9, <1>10, <1>11, <1>12, <1>13, <1>14, <1>15, <1>16
          DEF Next, Reader, MainThread, Terminated

\* No thread gets an object of another type than it casts it to, when every
\* chain that can be launched reads what is written before it.
THEOREM ObjectsFit ==
  ASSUME \A c \in Chains : WellTyped(c)
  PROVE  Spec => []TypesMatch
  <1>1. Init => Base /\ Fits /\ Typed
    <2> SUFFICES ASSUME Init PROVE Base /\ Fits /\ Typed
      OBVIOUS
    <2>1. Base /\ N \in Nat /\ modules \in Chains
      BY InitBase DEF Base, Control
    <2>2. Fits
      BY <2>1, WellTypedFits
    <2>3. Typed
      BY <2>1 DEF Init, Typed
    <2> QED BY <2>1, <2>2, <2>3
  <1>2. Base /\ Fits /\ Typed /\ [Next]_vars => (Base /\ Fits /\ Typed)'
    <2> SUFFICES ASSUME Base, Fits, Typed, [Next]_vars PROVE Base' /\ Fits' /\ Typed'
      OBVIOUS
    <2>1. Base' /\ Typed'
      BY StepControl, StepObjects, StepTyped DEF Base
    <2>2. Fits'
      <3>1. modules' \in Chains
        BY <2>1 DEF Base, Control
      <3>2. UNCHANGED data
        BY DEF Next, Reader, GetLine, SendLine, EndOfText, Processor, ReceiveObject, ReceiveEOF,
               Tokenize, SplitList, AnalyzeSentences, SendResult, DeleteInput, CloseInput,
               FlushSplitter, SendFlushed, CloseOutput, MainThread, MainReceive, PrintResults,
               Cleanup, Terminated, vars
      <3> QED BY <3>2 DEF Fits, Wants, Carries, kind, N
    <2> QED BY <2>1, <2>2
  <1>3. Base /\ Fits /\ Typed => TypesMatch
    <2> SUFFICES ASSUME Base, Fits, Typed PROVE TypesMatch
      OBVIOUS
    <2>1. N \in Nat
      BY DEF Base, Control
    <2>2. Main \in 1..Main /\ \A t \in Module : t \in 1..Main /\ t # Main
      BY <2>1
    <2> QED BY <2>2 DEF Typed, TypesMatch, Wants
  <1> QED BY <1>1, <1>2, <1>3, PTL DEF Spec

-----------------------------------------------------------------------------
(* Order: the words of the threads and pipes, from main back to the reader.  *)

LEMMA CatOfWords ==
  ASSUME NEW a \in Words, NEW b \in Words, NEW c \in Words
  PROVE  /\ Cat(a, b) \in Words /\ Cat(Cat(a, b), c) = Cat(a, Cat(b, c))
         /\ <<>> \in Words /\ Cat(<<>>, a) = a /\ Cat(a, <<>>) = a
  <1>1. Cat(a, b) \in Words /\ Cat(Cat(a, b), c) = Cat(a, Cat(b, c))
    BY CatAssociative DEF Words
  <1>2. <<>> \in Words
    BY EmptySeq DEF Words
  <1>3. Cat(<<>>, a) = a /\ Cat(a, <<>>) = a
    BY ConcatEmptySeq DEF Words, Cat
  <1> QED BY <1>1, <1>2, <1>3

\* The words of the places 0 to n - 1, those of place n - 1 in front.
Row(n, f) == FlattenSeq([k \in 1..n |-> f[n - k]])

LEMMA RowType ==
  ASSUME NEW n \in Nat, NEW f \in [0..(n - 1) -> Words]
  PROVE  /\ [k \in 1..n |-> f[n - k]] \in [1..n -> Seq(Word)]
         /\ Row(n, f) \in Words
  <1>1. \A k \in 1..n : n - k \in 0..(n - 1)
    OBVIOUS
  <1>2. [k \in 1..n |-> f[n - k]] \in [1..n -> Seq(Word)]
    BY <1>1 DEF Words
  <1> DEFINE s == [k \in 1..n |-> f[n - k]]
  <1> HIDE DEF s
  <1>3. s \in Seq(Seq(Word))
    BY <1>2, RowSeq DEF s
  <1>4. FlattenSeq(s) \in Seq(Word)
    BY <1>3, FlattenType
  <1> QED BY <1>2, <1>4 DEF Row, Words, s

\* Place t gives words to the place before it.
LEMMA RowGives ==
  ASSUME NEW n \in Nat, NEW f \in [0..(n - 1) -> Words], NEW g \in [0..(n - 1) -> Words],
         NEW t \in 0..(n - 2), NEW w \in Words,
         f[t] = Cat(w, g[t]), g[t + 1] = Cat(f[t + 1], w),
         \A u \in (0..(n - 1)) \ {t, t + 1} : f[u] = g[u]
  PROVE  Row(n, g) = Row(n, f)
  <1> DEFINE s == [k \in 1..n |-> f[n - k]]
             u == [k \in 1..n |-> g[n - k]]
             k == n - (t + 1)
  <1>1. /\ k \in 1..(n - 1) /\ k \in 1..n /\ k + 1 \in 1..n /\ n - k = t + 1 /\ n - (k + 1) = t
        /\ t \in 0..(n - 1) /\ t + 1 \in 0..(n - 1)
        /\ \A i \in (1..n) \ {k, k + 1} : n - i \in (0..(n - 1)) \ {t, t + 1}
    OBVIOUS
  <1>2. s \in [1..n -> Seq(Word)] /\ u \in [1..n -> Seq(Word)]
    BY RowType
  <1>3. s[k] = f[t + 1] /\ s[k + 1] = f[t] /\ u[k] = g[t + 1] /\ u[k + 1] = g[t]
    BY <1>1
  <1>4. \A i \in (1..n) \ {k, k + 1} : s[i] = u[i]
    BY <1>1
  <1>5. Row(n, f) = FlattenSeq(s) /\ Row(n, g) = FlattenSeq(u)
    BY DEF Row
  <1> HIDE DEF s, u, k
  <1>6. PICK a \in Words, b \in Words : a = f[t + 1] /\ b = g[t]
    BY <1>1
  <1>7. Cat(Cat(a, w), b) = Cat(a, Cat(w, b))
    BY CatOfWords
  <1>8. Cat(s[k], s[k + 1]) = Cat(u[k], u[k + 1])
    BY <1>3, <1>6, <1>7
  <1>9. Moved(n, s, u, k) /\ k \in 1..(n - 1)
    BY <1>1, <1>4, <1>8 DEF Moved
  <1>10. FlattenSeq(s) = FlattenSeq(u)
    BY <1>2, <1>9, FlattenMoved, ZenonT(80)
  <1> QED BY <1>5, <1>10

\* New words come in at place 0.
LEMMA RowGrows ==
  ASSUME NEW n \in Nat \ {0}, NEW f \in [0..(n - 1) -> Words], NEW g \in [0..(n - 1) -> Words],
         NEW w \in Words, g[0] = Cat(f[0], w), \A u \in 1..(n - 1) : f[u] = g[u]
  PROVE  Row(n, g) = Cat(Row(n, f), w)
  <1> DEFINE s == [k \in 1..n |-> f[n - k]]
             u == [k \in 1..n |-> g[n - k]]
  <1>1. n \in 1..n /\ n - n = 0 /\ \A i \in 1..(n - 1) : i \in 1..n /\ n - i \in 1..(n - 1)
    OBVIOUS
  <1>2. s \in [1..n -> Seq(Word)] /\ u \in [1..n -> Seq(Word)]
    BY RowType
  <1>3. s[n] = f[0] /\ u[n] = g[0] /\ \A i \in 1..(n - 1) : s[i] = u[i]
    BY <1>1
  <1>4. Row(n, f) = FlattenSeq(s) /\ Row(n, g) = FlattenSeq(u)
    BY DEF Row
  <1> HIDE DEF s, u
  <1>5. MoreBehind(Word, n, s, u, w)
    BY <1>2, <1>3 DEF MoreBehind, Words
  <1>6. FlattenSeq(u) = Cat(FlattenSeq(s), w)
    BY <1>5, FlattenLast
  <1> QED BY <1>4, <1>6

\* The last place gives away what it has in front.
LEMMA RowShrinks ==
  ASSUME NEW n \in Nat \ {0}, NEW f \in [0..(n - 1) -> Words], NEW g \in [0..(n - 1) -> Words],
         NEW w \in Words, f[n - 1] = Cat(w, g[n - 1]), \A u \in 0..(n - 2) : f[u] = g[u]
  PROVE  Row(n, f) = Cat(w, Row(n, g))
  <1> DEFINE s == [k \in 1..n |-> f[n - k]]
             u == [k \in 1..n |-> g[n - k]]
  <1>1. 1 \in 1..n /\ \A i \in 2..n : i \in 1..n /\ n - i \in 0..(n - 2)
    OBVIOUS
  <1>2. s \in [1..n -> Seq(Word)] /\ u \in [1..n -> Seq(Word)]
    BY RowType
  <1>3. s[1] = f[n - 1] /\ u[1] = g[n - 1] /\ \A i \in 2..n : s[i] = u[i]
    BY <1>1
  <1>4. Row(n, f) = FlattenSeq(s) /\ Row(n, g) = FlattenSeq(u)
    BY DEF Row
  <1> HIDE DEF s, u
  <1>5. MoreInFront(Word, n, s, u, w)
    BY <1>2, <1>3 DEF MoreInFront, Words
  <1>6. FlattenSeq(s) = Cat(w, FlattenSeq(u))
    BY <1>5, FlattenFirst
  <1> QED BY <1>4, <1>6

-----------------------------------------------------------------------------
\* A stage, by its parts: the result, the splitter's buffer, the input and the pipe.
YWords(t) == IF UsesY(t) THEN y[t].words ELSE <<>>
Kept(t)   == IF t \in Module /\ modules[t] = "splitter" THEN buffer ELSE <<>>
XWords(t) == IF pc[t] \in {"work", "print"} \/ (t = 0 /\ pc[0] = "send") THEN x[t].words ELSE <<>>
Behind(t) == IF t = 0 THEN <<>> ELSE Collected(pipe[t - 1])

Tally(a, b, c, p) == Cat(Cat(Cat(a, b), c), p)

LEMMA Tallies ==
  ASSUME NEW a \in Words, NEW b \in Words, NEW c \in Words, NEW p \in Words
  PROVE  /\ Tally(a, b, c, p) \in Words
         /\ Tally(<<>>, b, c, p) = Tally(<<>>, b, <<>>, Cat(c, p))
         /\ Tally(a, <<>>, <<>>, p) = Tally(<<>>, <<>>, a, p)
         /\ Tally(a, <<>>, <<>>, p) = Tally(<<>>, a, <<>>, p)
         /\ Tally(a, b, c, p) = Cat(a, Tally(<<>>, b, c, p))
         /\ Tally(<<>>, <<>>, c, p) = Cat(c, Tally(<<>>, <<>>, <<>>, p))
  <1>0. <<>> \in Words /\ \A u, v \in Words : Cat(u, v) \in Words
    BY CatOfWords
  <1>1. \A u, v, w \in Words : Cat(Cat(u, v), w) = Cat(u, Cat(v, w))
    BY CatOfWords
  <1>2. \A u \in Words : Cat(<<>>, u) = u /\ Cat(u, <<>>) = u
    BY CatOfWords
  <1>3. Tally(a, b, c, p) \in Words
    BY <1>0 DEF Tally
  <1>4. Tally(<<>>, b, c, p) = Tally(<<>>, b, <<>>, Cat(c, p))
    BY <1>0, <1>1, <1>2 DEF Tally
  <1>5. /\ Tally(a, <<>>, <<>>, p) = Tally(<<>>, <<>>, a, p)
        /\ Tally(a, <<>>, <<>>, p) = Tally(<<>>, a, <<>>, p)
    BY <1>0, <1>2 DEF Tally
  <1>6. Tally(a, b, c, p) = Cat(a, Tally(<<>>, b, c, p))
    <2>1. PICK u \in Words : u = Cat(b, c)
      BY <1>0
    <2>2. Cat(Cat(a, b), c) = Cat(a, u) /\ Cat(Cat(a, u), p) = Cat(a, Cat(u, p))
      BY <1>1, <2>1
    <2> QED BY <1>2, <2>1, <2>2 DEF Tally
  <1>7. Tally(<<>>, <<>>, c, p) = Cat(c, Tally(<<>>, <<>>, <<>>, p))
    BY <1>0, <1>2 DEF Tally
  <1> QED BY <1>3, <1>4, <1>5, <1>6, <1>7

LEMMA TallySplit ==
  ASSUME NEW b \in Words, NEW w \in Words, NEW r \in Words, NEW k \in Words, NEW p \in Words,
         Cat(r, k) = Cat(b, w)
  PROVE  Tally(r, k, <<>>, p) = Tally(<<>>, b, w, p)
  <1>1. \A u \in Words : Cat(<<>>, u) = u /\ Cat(u, <<>>) = u
    BY CatOfWords
  <1>2. Cat(r, k) \in Words
    BY CatOfWords
  <1> QED BY <1>1, <1>2 DEF Tally

LEMMA TallyBehind ==
  ASSUME NEW a \in Words, NEW b \in Words, NEW c \in Words, NEW p \in Words, NEW w \in Words
  PROVE  Tally(a, b, c, Cat(p, w)) = Cat(Tally(a, b, c, p), w)
  <1>1. PICK h \in Words : h = Cat(Cat(a, b), c)
    BY CatOfWords
  <1>2. Cat(Cat(h, p), w) = Cat(h, Cat(p, w))
    BY CatOfWords
  <1> QED BY <1>1, <1>2 DEF Tally

LEMMA StageParts ==
  ASSUME Base, NEW t \in Threads
  PROVE  /\ YWords(t) \in Words /\ Kept(t) \in Words /\ XWords(t) \in Words /\ Behind(t) \in Words
         /\ Stage(t) = Tally(YWords(t), Kept(t), XWords(t), Behind(t))
         /\ Stage(t) \in Words
  <1>1. /\ x[t].words \in Words /\ y[t].words \in Words /\ buffer \in Words /\ <<>> \in Words
    BY EmptySeq DEF Base, Objects, Object, Words
  <1>2. Behind(t) \in Words
    <2>1. CASE t = 0
      BY <1>1, <2>1 DEF Behind
    <2>2. CASE t # 0
      <3>1. t - 1 \in Pipes
        BY <2>2 DEF Base, Control
      <3>2. pipe[t - 1] \in Seq(Object)
        BY <3>1 DEF Base, Objects
      <3>3. \A o \in Object : o.words \in Seq(Word)
        BY DEF Object, Words
      <3>4. Collected(pipe[t - 1]) \in Seq(Word)
        BY <3>2, <3>3, CollectedType
      <3> QED BY <2>2, <3>4 DEF Behind, Words
    <2> QED BY <2>1, <2>2
  <1>3. YWords(t) \in Words /\ Kept(t) \in Words /\ XWords(t) \in Words
    BY <1>1 DEF YWords, Kept, XWords
  <1>4. Stage(t) = Tally(YWords(t), Kept(t), XWords(t), Behind(t))
    BY DEF Stage, Holding, Tally, Cat, YWords, Kept, XWords, Behind, Collected
  <1> QED BY <1>2, <1>3, <1>4, Tallies

\* A thread that does not move, and whose pipe and buffer nobody touches.
LEMMA StageKept ==
  ASSUME UNCHANGED data, NEW u \in Threads, pc'[u] = pc[u], x'[u] = x[u], y'[u] = y[u],
         u # 0 => pipe'[u - 1] = pipe[u - 1],
         buffer' = buffer \/ ~(u \in Module /\ modules[u] = "splitter")
  PROVE  Stage(u)' = Stage(u)
  <1>1. UNCHANGED <<N, modules>>
    BY DEF N
  <1>2. UsesY(u)' <=> UsesY(u)
    BY <1>1 DEF UsesY
  <1>3. Kept(u)' = Kept(u)
    BY <1>1 DEF Kept
  <1>4. YWords(u)' = YWords(u)
    BY <1>2 DEF YWords
  <1>5. XWords(u)' = XWords(u)
    BY DEF XWords
  <1>6. Behind(u)' = Behind(u)
    BY DEF Behind, Collected
  <1>7. /\ Stage(u) = Tally(YWords(u), Kept(u), XWords(u), Behind(u))
        /\ Stage(u)' = Tally(YWords(u)', Kept(u)', XWords(u)', Behind(u)')
    BY DEF Stage, Holding, Tally, Cat, YWords, Kept, XWords, Behind, Collected
  <1> QED BY <1>3, <1>4, <1>5, <1>6, <1>7

LEMMA TextGrows ==
  ASSUME modules \in Chains, text \in Inputs, NEW n \in Nat, n + 1 \in 1..Len(text)
  PROVE  TextUpTo(n) \in Words /\ TextUpTo(n + 1) = Cat(TextUpTo(n), Line(n + 1))
  <1> DEFINE s == [k \in 1..n |-> Line(k)]
             u == [k \in 1..(n + 1) |-> Line(k)]
  <1>1. \A k \in 1..(n + 1) : k \in 1..Len(text)
    BY OfChain
  <1>2. \A k \in 1..(n + 1) : Line(k) \in Seq(Word)
    BY <1>1, LineWords DEF Words
  <1>3. s \in [1..n -> Seq(Word)] /\ u \in [1..(n + 1) -> Seq(Word)]
    BY <1>2
  <1>4. s \in Seq(Seq(Word)) /\ Len(s) = n /\ u \in Seq(Seq(Word)) /\ Len(u) = n + 1
    BY <1>3
  <1>5. PICK e \in Seq(Word) : e = Line(n + 1)
    BY <1>2
  <1>6. /\ \A k \in 1..n : u[k] = s[k]
        /\ u[n + 1] = e
    BY <1>5
  <1> HIDE DEF s, u
  <1>7. /\ Append(s, e) \in Seq(Seq(Word)) /\ Len(Append(s, e)) = n + 1
        /\ \A k \in 1..n : Append(s, e)[k] = s[k]
        /\ Append(s, e)[n + 1] = e
    BY <1>4, AppendProperties
  <1>8. u = Append(s, e)
    <2>1. ASSUME NEW k \in 1..(n + 1) PROVE u[k] = Append(s, e)[k]
      BY <1>6, <1>7
    <2> QED BY <1>4, <1>7, <2>1, SeqEqual
  <1>9. FlattenSeq(u) = FlattenSeq(s) \o e /\ FlattenSeq(s) \in Seq(Word)
    BY <1>4, <1>8, FlattenAppend, FlattenType
  <1> QED BY <1>5, <1>9 DEF TextUpTo, Cat, Words, s, u

LEMMA InTransitRow ==
  ASSUME N \in Nat
  PROVE  InTransit = Row(Main + 1, [t \in Threads |-> Stage(t)])
  <1> DEFINE f == [t \in Threads |-> Stage(t)]
  <1>1. \A k \in 1..(Main + 1) : f[Main + 1 - k] = Stage(Main + 1 - k)
    OBVIOUS
  <1> HIDE DEF f
  <1>2. [k \in 1..(Main + 1) |-> f[Main + 1 - k]] = [k \in 1..(Main + 1) |-> Stage(Main + 1 - k)]
    BY <1>1
  <1>3. Row(Main + 1, f) = FlattenSeq([k \in 1..(Main + 1) |-> f[Main + 1 - k]])
    BY DEF Row
  <1> QED BY <1>2, <1>3 DEF InTransit, f

LEMMA InTransitRowNext ==
  ASSUME N \in Nat, UNCHANGED data
  PROVE  InTransit' = Row(Main + 1, [t \in Threads |-> Stage(t)'])
  <1>0. UNCHANGED <<N, Main, Threads>>
    BY DEF N
  <1> DEFINE f == [t \in Threads |-> Stage(t)']
  <1>1. \A k \in 1..(Main + 1) : f[Main + 1 - k] = (Stage(Main + 1 - k))'
    <2> SUFFICES ASSUME NEW k \in 1..(Main + 1) PROVE f[Main + 1 - k] = (Stage(Main + 1 - k))'
      OBVIOUS
    <2>1. PICK t \in Threads : t = Main + 1 - k
      OBVIOUS
    <2>2. (Stage(Main + 1 - k))' = Stage(t)'
      BY <1>0, <2>1 DEF Stage, Holding, UsesY, kind, Kind
    <2> QED BY <2>1, <2>2
  <1>2. InTransit' = FlattenSeq([k \in 1..(Main + 1) |-> (Stage(Main + 1 - k))'])
    BY <1>0 DEF InTransit
  <1> HIDE DEF f
  <1>3. [k \in 1..(Main + 1) |-> f[Main + 1 - k]] = [k \in 1..(Main + 1) |-> (Stage(Main + 1 - k))']
    BY <1>1
  <1>4. Row(Main + 1, f) = FlattenSeq([k \in 1..(Main + 1) |-> f[Main + 1 - k]])
    BY DEF Row
  <1> QED BY <1>2, <1>3, <1>4 DEF f

LEMMA StagesTyped ==
  Base => \A t \in Threads :
    /\ YWords(t) \in Words /\ Kept(t) \in Words /\ XWords(t) \in Words /\ Behind(t) \in Words
    /\ Stage(t) = Tally(YWords(t), Kept(t), XWords(t), Behind(t))
    /\ Stage(t) \in Words
  BY StageParts

LEMMA StagesTypedNext ==
  Base' => (\A t \in Threads :
    /\ YWords(t) \in Words /\ Kept(t) \in Words /\ XWords(t) \in Words /\ Behind(t) \in Words
    /\ Stage(t) = Tally(YWords(t), Kept(t), XWords(t), Behind(t))
    /\ Stage(t) \in Words)'
  BY StagesTyped, PTL

LEMMA DataKept == [Next]_vars => UNCHANGED data
  BY DEF Next, Reader, GetLine, SendLine, EndOfText, Processor, ReceiveObject, ReceiveEOF,
         Tokenize, SplitList, AnalyzeSentences, SendResult, DeleteInput, CloseInput,
         FlushSplitter, SendFlushed, CloseOutput, MainThread, MainReceive, PrintResults,
         Cleanup, Terminated, vars

\* There is one splitter at most.
LEMMA OneSplitter ==
  ASSUME Base, NEW t \in Module, modules[t] = "splitter", NEW u \in Module, modules[u] = "splitter"
  PROVE  u = t
  <1>1. IsInjective(modules) /\ DOMAIN modules = Module
    BY OfChain DEF Base, Control
  <1> QED BY <1>1 DEF IsInjective

\* What an object sent adds to the stage that reads it, and one received keeps there.
LEMMA SentBehind ==
  ASSUME Base, UNCHANGED data, NEW t \in Pipes, NEW o \in Object, Send(t, o)
  PROVE  /\ Behind(t + 1)' = Cat(Behind(t + 1), o.words)
         /\ \A k \in Pipes \ {t} : pipe'[k] = pipe[k]
  <1>1. pipe \in [Pipes -> Seq(Object)] /\ N \in Nat
    BY DEF Base, Objects, Control
  <1>2. pipe'[t] = Append(pipe[t], o) /\ \A k \in Pipes \ {t} : pipe'[k] = pipe[k]
    BY <1>1 DEF Send
  <1>3. \A b \in Object : b.words \in Seq(Word)
    BY DEF Object, Words
  <1>4. PICK p \in Seq(Object) : p = pipe[t]
    BY <1>1
  <1>5. Collected(Append(p, o)) = Collected(p) \o o.words
    BY <1>3, CollectedAppend
  <1>6. t + 1 # 0 /\ (t + 1) - 1 = t
    BY <1>1
  <1>7. Behind(t + 1) = Collected(p)
    BY <1>4, <1>6 DEF Behind
  <1>8. Behind(t + 1)' = Collected(Append(p, o))
    <2>1. Behind(t + 1)' = Collected(pipe'[(t + 1) - 1])
      BY <1>6 DEF Behind, Collected
    <2> QED BY <1>2, <1>4, <1>6, <2>1
  <1> QED BY <1>2, <1>5, <1>7, <1>8 DEF Cat

LEMMA ReceivedBehind ==
  ASSUME Base, UNCHANGED data, NEW t \in 1..Main, Receive(t)
  PROVE  /\ x'[t].words \in Words /\ Behind(t) = Cat(x'[t].words, Behind(t)')
         /\ \A u \in Threads \ {t} : x'[u] = x[u] /\ (u # 0 => pipe'[u - 1] = pipe[u - 1])
  <1>1. pipe \in [Pipes -> Seq(Object)] /\ x \in [Threads -> Object] /\ N \in Nat
    BY DEF Base, Objects, Control
  <1>2. t \in Threads /\ t - 1 \in Pipes /\ t # 0
    BY <1>1
  <1>3. PICK p \in Seq(Object) : p = pipe[t - 1]
    BY <1>1, <1>2
  <1>4. p # <<>> /\ x'[t] = Head(p) /\ pipe'[t - 1] = Tail(p)
    BY <1>1, <1>2, <1>3 DEF Receive
  <1>5. Head(p) \in Object
    BY <1>4, HeadTailProperties
  <1>6. \A b \in Object : b.words \in Seq(Word)
    BY DEF Object, Words
  <1>7. Collected(p) = Head(p).words \o Collected(Tail(p))
    BY <1>4, <1>6, CollectedTail
  <1>8. Behind(t) = Collected(p)
    BY <1>2, <1>3 DEF Behind
  <1>9. Behind(t)' = Collected(Tail(p))
    <2>1. Behind(t)' = Collected(pipe'[t - 1])
      BY <1>2 DEF Behind, Collected
    <2> QED BY <1>4, <2>1
  <1>10. \A u \in Threads \ {t} : x'[u] = x[u] /\ (u # 0 => pipe'[u - 1] = pipe[u - 1])
    <2> SUFFICES ASSUME NEW u \in Threads \ {t}
                 PROVE  x'[u] = x[u] /\ (u # 0 => pipe'[u - 1] = pipe[u - 1])
      OBVIOUS
    <2>1. u # 0 => u - 1 \in Pipes /\ u - 1 # t - 1
      BY <1>1, <1>2
    <2> QED BY <1>1, <1>2, <2>1 DEF Receive
  <1> QED BY <1>4, <1>5, <1>6, <1>7, <1>8, <1>9, <1>10 DEF Cat, Words

LEMMA StepInOrder ==
  ASSUME Base, Base', InOrder, [Next]_vars
  PROVE  InOrder'
  <1>0. /\ N \in Nat /\ modules \in Chains /\ text \in Inputs /\ Main \in Threads /\ 0 \in Threads
        /\ 0 \in Pipes /\ N \in Pipes /\ Main # 0 /\ Main \notin Module /\ 0 \notin Module
        /\ Main \in 1..Main /\ 0 + 1 \in Threads /\ 0 + 1 # 0
        /\ \A t \in Module : /\ t \in Threads /\ t \in Pipes /\ t \in 1..Main /\ t # 0 /\ t # Main
                             /\ t + 1 \in Threads /\ t + 1 # 0 /\ t + 1 # t
    BY OfChain DEF Base, Control
  <1>1. UNCHANGED data
    BY DataKept
  <1>2. UNCHANGED <<N, Threads, Pipes, Module, Main>> /\ \A t : kind(t)' = kind(t)
    BY <1>1 DEF N, kind
  <1>3. /\ x \in [Threads -> Object] /\ y \in [Threads -> Object] /\ pc \in [Threads -> PCs]
        /\ pipe \in [Pipes -> Seq(Object)] /\ printed \in Words /\ buffer \in Words
        /\ lines \in Nat /\ lines <= Len(text) /\ <<>> \in Words
    BY EmptySeq DEF Base, Objects, Control, Words
  <1>4. \A t \in Threads :
          /\ YWords(t) \in Words /\ Kept(t) \in Words /\ XWords(t) \in Words /\ Behind(t) \in Words
          /\ Stage(t) = Tally(YWords(t), Kept(t), XWords(t), Behind(t)) /\ Stage(t) \in Words
    BY StagesTyped
  <1>5. \A t \in Threads :
          /\ YWords(t)' \in Words /\ Kept(t)' \in Words /\ XWords(t)' \in Words /\ Behind(t)' \in Words
          /\ Stage(t)' = Tally(YWords(t)', Kept(t)', XWords(t)', Behind(t)') /\ Stage(t)' \in Words
    BY <1>2, StagesTypedNext
  <1> DEFINE n == Main + 1
  <1>30. Threads = 0..(n - 1)
    BY <1>0
  <1>6. PICK f \in [0..(n - 1) -> Words] : f = [t \in Threads |-> Stage(t)]
    <2>1. [t \in Threads |-> Stage(t)] \in [Threads -> Words]
      BY <1>4
    <2> QED BY <1>30, <2>1
  <1>7. PICK g \in [0..(n - 1) -> Words] : g = [t \in Threads |-> Stage(t)']
    <2>1. [t \in Threads |-> Stage(t)'] \in [Threads -> Words]
      BY <1>5
    <2> QED BY <1>30, <2>1
  <1>8. /\ InTransit = Row(n, f) /\ InTransit' = Row(n, g)
        /\ \A t \in Threads : f[t] = Stage(t) /\ g[t] = Stage(t)'
    BY <1>0, <1>1, <1>6, <1>7, InTransitRow, InTransitRowNext
  <1>9. Row(n, f) \in Words /\ Row(n, g) \in Words /\ n \in Nat \ {0}
    BY <1>0, RowType
  <1>10. Cat(printed, Row(n, f)) = TextUpTo(lines)
    BY <1>8 DEF InOrder, Cat
  <1>11. ASSUME lines' = lines, Cat(printed', Row(n, g)) = Cat(printed, Row(n, f))
         PROVE  InOrder'
    <2>1. TextUpTo(lines)' = TextUpTo(lines)
      BY <1>1, <1>11 DEF TextUpTo, Line
    <2> QED BY <1>8, <1>10, <1>11, <2>1 DEF InOrder, Cat
  <1> HIDE DEF n
  \* The four ways the stages change.
  <1>12. ASSUME \A t \in Threads : Stage(t)' = Stage(t), printed' = printed, lines' = lines
         PROVE  InOrder'
    <2>1. f = g
      BY <1>6, <1>7, <1>12
    <2> QED BY <1>11, <1>12, <2>1
  <1>13. ASSUME NEW t \in Pipes, NEW w \in Words, Stage(t) = Cat(w, Stage(t)'),
                Stage(t + 1)' = Cat(Stage(t + 1), w),
                \A u \in Threads \ {t, t + 1} : Stage(u)' = Stage(u),
                printed' = printed, lines' = lines
         PROVE  InOrder'
    <2>1. t \in 0..(n - 2) /\ t \in Threads /\ t + 1 \in Threads /\ Threads = 0..(n - 1)
      BY <1>0 DEF n
    <2>2. f[t] = Cat(w, g[t]) /\ g[t + 1] = Cat(f[t + 1], w)
      BY <1>8, <1>13, <2>1
    <2>3. \A u \in (0..(n - 1)) \ {t, t + 1} : f[u] = g[u]
      BY <1>8, <1>13, <2>1
    <2>4. Row(n, g) = Row(n, f)
      BY <1>9, <2>1, <2>2, <2>3, RowGives, ZenonT(80)
    <2> QED BY <1>11, <1>13, <2>4
  <1>22. ASSUME NEW t \in Threads, NEW from, NEW to, At(t, from, to)
         PROVE  pc[t] = from /\ pc'[t] = to /\ \A u \in Threads \ {t} : pc'[u] = pc[u]
    BY <1>3, <1>22 DEF At
  \* The parts of an acting stage, by where its thread is.
  <1>23. ASSUME NEW t \in Threads
         PROVE  /\ YWords(t) = IF t \in Module /\ pc[t] \in {"send", "send_flushed"}
                               THEN y[t].words ELSE <<>>
                /\ YWords(t)' = IF t \in Module /\ pc'[t] \in {"send", "send_flushed"}
                                THEN y'[t].words ELSE <<>>
                /\ XWords(t) = IF pc[t] \in {"work", "print"} \/ (t = 0 /\ pc[0] = "send")
                               THEN x[t].words ELSE <<>>
                /\ XWords(t)' = IF pc'[t] \in {"work", "print"} \/ (t = 0 /\ pc'[0] = "send")
                                THEN x'[t].words ELSE <<>>
                /\ Kept(t) = IF t \in Module /\ modules[t] = "splitter" THEN buffer ELSE <<>>
                /\ Kept(t)' = IF t \in Module /\ modules[t] = "splitter" THEN buffer' ELSE <<>>
    BY <1>1, <1>2 DEF YWords, UsesY, XWords, Kept
  <1>24. ASSUME NEW t \in Threads, t # 0 => pipe'[t - 1] = pipe[t - 1]
         PROVE  Behind(t)' = Behind(t)
    BY <1>24 DEF Behind, Collected
  <1>25. Behind(0) = <<>> /\ Behind(0)' = <<>>
    BY DEF Behind
  <1>14. CASE GetLine
    <2>1. /\ pc[0] = "getline" /\ pc'[0] = "send" /\ \A u \in Threads \ {0} : pc'[u] = pc[u]
          /\ lines + 1 \in 1..Len(text) /\ lines' = lines + 1
          /\ UNCHANGED <<y, pipe, buffer, printed>>
      <3>1. pc[0] = "getline" /\ pc'[0] = "send" /\ \A u \in Threads \ {0} : pc'[u] = pc[u]
        BY <1>0, <1>14, <1>22 DEF GetLine
      <3>2. Len(text) \in Nat
        BY <1>0, OfChain
      <3>3. lines + 1 \in 1..Len(text)
        BY <1>3, <1>14, <3>2 DEF GetLine
      <3> QED BY <1>14, <3>1, <3>3 DEF GetLine
    <2>2. PICK w \in Words : w = Line(lines + 1)
      BY <1>0, <2>1, LineWords
    <2>3. x'[0].words = w /\ \A u \in Threads \ {0} : x'[u] = x[u]
      <3>1. x' = [x EXCEPT ![0] = [x[0] EXCEPT !.words = w]]
        BY <1>3, <1>14, <2>2 DEF GetLine
      <3>2. \A o \in Object : [o EXCEPT !.words = w].words = w
        BY DEF Object
      <3>3. x[0] \in Object /\ x'[0] = [x[0] EXCEPT !.words = w]
        BY <1>0, <1>3, <3>1
      <3> QED BY <1>3, <3>1, <3>2, <3>3
    <2>4. Stage(0) = Tally(<<>>, <<>>, <<>>, <<>>) /\ Stage(0)' = Tally(<<>>, <<>>, w, <<>>)
      BY <1>0, <1>4, <1>5, <1>23, <1>25, <2>1, <2>3
    <2>5. Stage(0)' = Cat(Stage(0), w)
      <3>1. Tally(<<>>, <<>>, <<>>, <<>>) = <<>> /\ Tally(<<>>, <<>>, w, <<>>) = w
        BY CatOfWords DEF Tally
      <3> QED BY <2>4, <3>1, CatOfWords
    <2>6. ASSUME NEW u \in Threads \ {0} PROVE Stage(u)' = Stage(u)
      BY <1>1, <2>1, <2>3, StageKept
    <2>7. Row(n, g) = Cat(Row(n, f), w)
      <3>1. g[0] = Cat(f[0], w)
        BY <1>0, <1>8, <2>5
      <3>2. \A u \in 1..(n - 1) : f[u] = g[u]
        <4> SUFFICES ASSUME NEW u \in 1..(n - 1) PROVE f[u] = g[u]
          OBVIOUS
        <4>1. u \in Threads /\ u # 0
          BY <1>0 DEF n
        <4> QED BY <1>8, <2>6, <4>1
      <3> QED BY <1>9, <3>1, <3>2, RowGrows, ZenonT(80)
    <2>8. TextUpTo(lines) \in Words /\ TextUpTo(lines + 1) = Cat(TextUpTo(lines), w)
      BY <1>0, <1>3, <2>1, <2>2, TextGrows
    <2>9. TextUpTo(lines)' = TextUpTo(lines + 1)
      BY <1>1, <2>1 DEF TextUpTo, Line
    <2>10. Cat(Cat(printed, Row(n, f)), w) = Cat(printed, Cat(Row(n, f), w))
      BY <1>3, <1>9, CatOfWords
    <2>11. Cat(printed', InTransit') = TextUpTo(lines)'
      BY <1>8, <1>10, <2>1, <2>7, <2>8, <2>9, <2>10
    <2> QED BY <2>11 DEF InOrder, Cat
  <1>15. CASE SendLine
    <2>1. /\ pc[0] = "send" /\ pc'[0] = "getline" /\ \A u \in Threads \ {0} : pc'[u] = pc[u]
          /\ UNCHANGED <<y, buffer, printed, lines>> /\ Send(0, x[0])
      BY <1>0, <1>15, <1>22 DEF SendLine
    <2>2. \A u \in Threads \ {0} : x'[u] = x[u]
      BY <1>3, <1>15 DEF SendLine
    <2>3. PICK w \in Words : w = x[0].words
      BY <1>0, <1>3 DEF Object
    <2>4. Stage(0) = Tally(<<>>, <<>>, w, <<>>) /\ Stage(0)' = Tally(<<>>, <<>>, <<>>, <<>>)
      BY <1>0, <1>4, <1>5, <1>23, <1>25, <2>1, <2>3
    <2>5. Stage(0) = Cat(w, Stage(0)')
      BY <1>3, <2>4, Tallies
    <2>6. /\ Behind(0 + 1)' = Cat(Behind(0 + 1), w) /\ \A k \in Pipes \ {0} : pipe'[k] = pipe[k]
      BY <1>0, <1>1, <1>3, <2>1, <2>3, SentBehind
    <2>7. Stage(0 + 1)' = Cat(Stage(0 + 1), w)
      <3>1. PICK v \in Threads : v = 0 + 1
        BY <1>0
      <3>2. YWords(v)' = YWords(v) /\ Kept(v)' = Kept(v) /\ XWords(v)' = XWords(v)
        BY <1>23, <2>1, <2>2, <3>1
      <3>3. Behind(v)' = Cat(Behind(v), w)
        BY <2>6, <3>1
      <3>4. Stage(v)' = Cat(Stage(v), w)
        BY <1>4, <1>5, <3>2, <3>3, TallyBehind
      <3> QED BY <3>1, <3>4
    <2>8. ASSUME NEW u \in Threads \ {0, 0 + 1} PROVE Stage(u)' = Stage(u)
      <3>1. u # 0 => u - 1 \in Pipes \ {0}
        BY <1>0
      <3> QED BY <1>1, <2>1, <2>2, <2>6, <3>1, StageKept
    <2> QED BY <1>0, <1>13, <2>1, <2>5, <2>7, <2>8
  <1>16. CASE EndOfText
    <2>1. /\ pc[0] = "getline" /\ pc'[0] = "done" /\ \A u \in Threads \ {0} : pc'[u] = pc[u]
          /\ UNCHANGED <<x, y, pipe, buffer, printed, lines>>
      BY <1>0, <1>16, <1>22 DEF EndOfText, CloseWrite
    <2>2. ASSUME NEW u \in Threads PROVE Stage(u)' = Stage(u)
      <3>1. CASE u = 0
        BY <1>0, <1>4, <1>5, <1>23, <1>25, <2>1, <3>1
      <3>2. CASE u # 0
        BY <1>1, <2>1, <3>2, StageKept
      <3> QED BY <3>1, <3>2
    <2> QED BY <1>12, <2>1, <2>2
  <1>26. ASSUME NEW t \in 1..Main, NEW to \in {"work", "print"}, At(t, "receive", to), Receive(t),
                UNCHANGED <<y, buffer, printed, lines>>
         PROVE  InOrder'
    <2>0. t \in Threads
      BY <1>0
    <2>1. /\ pc[t] = "receive" /\ pc'[t] = to
          /\ \A u \in Threads \ {t} : pc'[u] = pc[u]
      BY <1>22, <1>26, <2>0
    <2>2. /\ x'[t].words \in Words /\ Behind(t) = Cat(x'[t].words, Behind(t)')
          /\ \A u \in Threads \ {t} : x'[u] = x[u] /\ (u # 0 => pipe'[u - 1] = pipe[u - 1])
      BY <1>1, <1>26, ReceivedBehind
    <2>3. ASSUME NEW u \in Threads PROVE Stage(u)' = Stage(u)
      <3>1. CASE u = t
        <4>1. PICK w \in Words : w = x'[t].words
          BY <2>2
        <4>2. PICK p \in Words : p = Behind(t)'
          BY <1>5, <2>0
        <4>3. PICK k \in Words : k = Kept(t) /\ k = Kept(t)'
          BY <1>4, <1>23, <1>26, <2>0
        <4>4. Stage(t) = Tally(<<>>, k, <<>>, Cat(w, p))
          BY <1>0, <1>4, <1>23, <2>0, <2>1, <2>2, <4>1, <4>2, <4>3
        <4>5. Stage(t)' = Tally(<<>>, k, w, p)
          BY <1>0, <1>5, <1>23, <2>0, <2>1, <2>2, <4>1, <4>2, <4>3
        <4> QED BY <1>3, <3>1, <4>4, <4>5, Tallies
      <3>2. CASE u # t
        BY <1>1, <1>26, <2>1, <2>2, <3>2, StageKept
      <3> QED BY <3>1, <3>2
    <2> QED BY <1>12, <1>26, <2>3
  <1>18. CASE MainReceive
    BY <1>0, <1>18, <1>26 DEF MainReceive
  <1>27. ASSUME NEW t \in Threads, t = Main, PrintResults
         PROVE  InOrder'
    <2>1. /\ pc[t] = "print" /\ pc'[t] = "receive"
          /\ \A u \in Threads \ {t} : pc'[u] = pc[u]
          /\ UNCHANGED <<x, y, pipe, buffer, lines>> /\ printed' = printed \o x[t].words
      BY <1>0, <1>27, <1>22 DEF PrintResults
    <2>2. PICK w \in Words : w = x[t].words
      BY <1>0, <1>3 DEF Object
    <2>3. PICK p \in Words : p = Behind(t) /\ p = Behind(t)'
      BY <1>0, <1>4, <1>24, <2>1
    <2>4. Stage(t) = Tally(<<>>, <<>>, w, p) /\ Stage(t)' = Tally(<<>>, <<>>, <<>>, p)
      <3>1. t \notin Module /\ t # 0
        BY <1>0, <1>27
      <3>2. YWords(t) = <<>> /\ YWords(t)' = <<>> /\ Kept(t) = <<>> /\ Kept(t)' = <<>>
        BY <1>23, <3>1
      <3>3. XWords(t) = w /\ XWords(t)' = <<>>
        BY <1>23, <2>1, <2>2, <3>1
      <3> QED BY <1>4, <1>5, <2>3, <3>2, <3>3
    <2>5. Stage(t) = Cat(w, Stage(t)')
      BY <1>3, <2>4, Tallies
    <2>6. ASSUME NEW u \in Threads \ {t} PROVE Stage(u)' = Stage(u)
      BY <1>1, <2>1, StageKept
    <2>7. Row(n, f) = Cat(w, Row(n, g))
      <3>1. f[n - 1] = Cat(w, g[n - 1])
        <4>1. n - 1 = t
          BY <1>0, <1>27 DEF n
        <4> QED BY <1>0, <1>8, <2>5, <4>1
      <3>2. \A u \in 0..(n - 2) : f[u] = g[u]
        <4> SUFFICES ASSUME NEW u \in 0..(n - 2) PROVE f[u] = g[u]
          OBVIOUS
        <4>1. u \in Threads /\ u # t
          BY <1>0, <1>27 DEF n
        <4> QED BY <1>8, <2>6, <4>1
      <3> QED BY <1>9, <3>1, <3>2, RowShrinks, ZenonT(80)
    <2>8. Cat(Cat(printed, w), Row(n, g)) = Cat(printed, Cat(w, Row(n, g)))
      BY <1>3, <1>9, CatOfWords
    <2>9. printed' = Cat(printed, w)
      BY <2>1, <2>2 DEF Cat
    <2> QED BY <1>11, <2>1, <2>7, <2>8, <2>9
  <1>19. CASE PrintResults
    BY <1>0, <1>19, <1>27
  <1>20. CASE Cleanup
    <2>1. /\ pc[Main] = "receive" /\ pc'[Main] = "done"
          /\ \A u \in Threads \ {Main} : pc'[u] = pc[u]
          /\ \A u \in Threads \ {Main} : x'[u] = x[u]
          /\ UNCHANGED <<y, pipe, buffer, printed, lines>>
      BY <1>0, <1>3, <1>20, <1>22 DEF Cleanup, ReceiveNULL
    <2>2. ASSUME NEW u \in Threads PROVE Stage(u)' = Stage(u)
      <3>1. CASE u = Main
        BY <1>0, <1>4, <1>5, <1>23, <1>24, <2>1, <3>1
      <3>2. CASE u # Main
        BY <1>1, <2>1, <3>2, StageKept
      <3> QED BY <3>1, <3>2
    <2> QED BY <1>12, <2>1, <2>2
  <1>17. ASSUME NEW t \in Module, Processor(t) PROVE InOrder'
    <2>0. /\ t \in Threads /\ t \in Pipes /\ t \in 1..Main /\ t # 0 /\ t # Main
          /\ t + 1 \in Threads /\ t + 1 # 0 /\ t + 1 # t /\ t - 1 \in Pipes
      BY <1>0
    \* A step by which only the parts of stage t change, and the pipes not at all.
    <2>1. ASSUME Stage(t)' = Stage(t), UNCHANGED <<pipe, printed, lines>>,
                 \A u \in Threads \ {t} : pc'[u] = pc[u] /\ x'[u] = x[u] /\ y'[u] = y[u],
                 buffer' = buffer \/ kind(t) = "splitter"
          PROVE  InOrder'
      <3>1. ASSUME NEW u \in Threads PROVE Stage(u)' = Stage(u)
        <4>1. CASE u = t
          BY <2>1, <4>1
        <4>2. CASE u # t
          <5>1. buffer' = buffer \/ ~(u \in Module /\ modules[u] = "splitter")
            BY <2>1, <4>2, KindIs, OneSplitter
          <5> QED BY <1>1, <2>1, <4>2, <5>1, StageKept
        <4> QED BY <4>1, <4>2
      <3> QED BY <1>12, <2>1, <3>1
    <2>2. PICK p \in Words : p = Behind(t)
      BY <1>4, <2>0
    <2>3. PICK w \in Words : w = x[t].words
      BY <1>3, <2>0 DEF Object
    <2>4. PICK b \in Words : b = Kept(t)
      BY <1>4, <2>0
    <2>5. kind(t) = "splitter" <=> modules[t] = "splitter"
      BY KindIs
    <2>6. UNCHANGED pipe => Behind(t)' = p
      BY <1>24, <2>0, <2>2
    <2>7. buffer' = buffer => Kept(t)' = b
      BY <1>23, <2>0, <2>4
    <2>8. ASSUME NEW ws \in Words, Result(t, ws)
          PROVE  y'[t].words = ws /\ \A u \in Threads \ {t} : y'[u] = y[u]
      BY <1>3, <2>0, <2>8 DEF Result, New
    \* A result is sent on: words go from stage t to the next one.
    <2>9. ASSUME NEW from \in {"send", "send_flushed"}, NEW to \in {"receive", "delete", "close_out"},
                 At(t, from, to), Send(t, y[t]), UNCHANGED <<x, y, buffer, printed, lines>>
          PROVE  InOrder'
      <3>1. pc[t] = from /\ pc'[t] = to /\ \A u \in Threads \ {t} : pc'[u] = pc[u]
        BY <1>22, <2>0, <2>9
      <3>2. PICK v \in Words : v = y[t].words
        BY <1>3, <2>0 DEF Object
      <3>3. /\ Behind(t + 1)' = Cat(Behind(t + 1), v) /\ \A k \in Pipes \ {t} : pipe'[k] = pipe[k]
        BY <1>1, <1>3, <2>0, <2>9, <3>2, SentBehind
      <3>4. Behind(t)' = p
        BY <1>24, <2>0, <2>2, <3>3
      <3>5. Stage(t) = Tally(v, b, <<>>, p)
        BY <1>4, <1>23, <2>0, <2>2, <2>4, <3>1, <3>2
      <3>6. Stage(t)' = Tally(<<>>, b, <<>>, p)
        BY <1>5, <1>23, <2>0, <2>7, <2>9, <3>1, <3>4
      <3>7. Stage(t) = Cat(v, Stage(t)')
        BY <1>3, <3>5, <3>6, Tallies
      <3>8. Stage(t + 1)' = Cat(Stage(t + 1), v)
        <4>1. PICK r \in Threads \ {t} : r = t + 1
          BY <2>0
        <4>2. YWords(r)' = YWords(r) /\ Kept(r)' = Kept(r) /\ XWords(r)' = XWords(r)
          BY <1>23, <2>9, <3>1, <4>1
        <4>3. Behind(r)' = Cat(Behind(r), v)
          BY <3>3, <4>1
        <4>4. /\ YWords(r) \in Words /\ Kept(r) \in Words /\ XWords(r) \in Words
              /\ Behind(r) \in Words
              /\ Stage(r) = Tally(YWords(r), Kept(r), XWords(r), Behind(r))
          BY <1>4
        <4>5. Stage(r)' = Tally(YWords(r), Kept(r), XWords(r), Cat(Behind(r), v))
          BY <1>5, <4>2, <4>3
        <4>6. Stage(r)' = Cat(Stage(r), v)
          BY <4>4, <4>5, TallyBehind
        <4> QED BY <4>1, <4>6
      <3>9. ASSUME NEW u \in Threads \ {t, t + 1} PROVE Stage(u)' = Stage(u)
        <4>1. u # 0 => u - 1 \in Pipes \ {t}
          BY <1>0, <2>0
        <4> QED BY <1>1, <2>9, <3>1, <3>3, <4>1, StageKept
      <3> QED BY <1>13, <2>0, <2>9, <3>7, <3>8, <3>9
    <2>10. CASE ReceiveObject(t)
      BY <1>26, <2>0, <2>10 DEF ReceiveObject
    <2>11. CASE ReceiveEOF(t)
      <3>1. /\ pc[t] = "receive" /\ pc'[t] = "close_in" /\ \A u \in Threads \ {t} : pc'[u] = pc[u]
            /\ \A u \in Threads \ {t} : x'[u] = x[u]
            /\ UNCHANGED <<y, pipe, buffer, printed, lines>>
        BY <1>3, <1>22, <2>0, <2>11 DEF ReceiveEOF, ReceiveNULL
      <3>2. Stage(t)' = Stage(t)
        BY <1>4, <1>5, <1>23, <2>0, <2>2, <2>4, <2>6, <2>7, <3>1
      <3> QED BY <2>1, <3>1, <3>2
    <2>12. CASE Tokenize(t)
      <3>1. /\ pc[t] = "work" /\ pc'[t] = "send" /\ \A u \in Threads \ {t} : pc'[u] = pc[u]
            /\ UNCHANGED <<x, pipe, buffer, printed, lines>> /\ Result(t, w)
            /\ kind(t) = "tokenizer"
        BY <1>22, <2>0, <2>3, <2>12 DEF Tokenize
      <3>2. b = <<>>
        BY <1>23, <2>0, <2>4, <2>5, <3>1
      <3>3. Stage(t) = Tally(<<>>, <<>>, w, p)
        BY <1>4, <1>23, <2>0, <2>2, <2>3, <2>4, <3>1, <3>2
      <3>4. Stage(t)' = Tally(w, <<>>, <<>>, p)
        BY <1>5, <1>23, <2>0, <2>6, <2>7, <2>8, <3>1, <3>2
      <3>5. Stage(t)' = Stage(t)
        BY <1>3, <3>3, <3>4, Tallies
      <3> QED BY <2>1, <2>8, <3>1, <3>5
    <2>13. CASE SplitList(t)
      <3>1. /\ pc[t] = "work" /\ pc'[t] = "send" /\ \A u \in Threads \ {t} : pc'[u] = pc[u]
            /\ UNCHANGED <<x, pipe, printed, lines>> /\ kind(t) = "splitter"
        BY <1>22, <2>0, <2>13 DEF SplitList
      <3>2. PICK m \in 0..Len(w) :
              /\ Result(t, IF m = 0 THEN <<>> ELSE buffer \o SubSeq(w, 1, m))
              /\ buffer' = IF m = 0 THEN buffer \o SubSeq(w, m + 1, Len(w))
                                    ELSE SubSeq(w, m + 1, Len(w))
        BY <2>3, <2>13 DEF SplitList
      <3>3. b = buffer
        BY <1>23, <2>0, <2>4, <2>5, <3>1
      <3>4. PICK h \in Words, k \in Words :
              /\ h = SubSeq(w, 1, m) /\ k = SubSeq(w, m + 1, Len(w))
              /\ m = 0 => k = w
              /\ m # 0 => Cat(h, k) = w
        BY CutWords DEF Cat
      <3>5. PICK r \in Words, l \in Words :
              Result(t, r) /\ buffer' = l /\ Cat(r, l) = Cat(b, w)
        <4>1. CASE m = 0
          <5>1. Result(t, <<>>) /\ buffer' = Cat(b, w)
            BY <3>2, <3>3, <3>4, <4>1 DEF Cat
          <5>2. Cat(b, w) \in Words /\ Cat(<<>>, Cat(b, w)) = Cat(b, w)
            BY CatOfWords
          <5> QED BY <1>3, <5>1, <5>2
        <4>2. CASE m # 0
          <5>1. Result(t, Cat(b, h)) /\ buffer' = k
            BY <3>2, <3>3, <3>4, <4>2 DEF Cat
          <5>2. Cat(b, h) \in Words /\ Cat(Cat(b, h), k) = Cat(b, Cat(h, k))
            BY CatOfWords
          <5> QED BY <3>4, <4>2, <5>1, <5>2
        <4> QED BY <4>1, <4>2
      <3>6. Stage(t) = Tally(<<>>, b, w, p)
        BY <1>4, <1>23, <2>0, <2>2, <2>3, <2>4, <3>1
      <3>7. y'[t].words = r /\ \A u \in Threads \ {t} : y'[u] = y[u]
        BY <2>8, <3>5
      <3>8. Stage(t)' = Tally(r, l, <<>>, p)
        BY <1>5, <1>23, <2>0, <2>5, <2>6, <3>1, <3>5, <3>7
      <3>9. Stage(t)' = Stage(t)
        BY <3>5, <3>6, <3>8, TallySplit
      <3> QED BY <2>1, <3>1, <3>7, <3>9
    <2>14. CASE AnalyzeSentences(t)
      <3>1. /\ pc[t] = "work" /\ pc'[t] = "send" /\ \A u \in Threads \ {t} : pc'[u] = pc[u]
            /\ UNCHANGED <<x, pipe, buffer, printed, lines>>
            /\ y'[t].words = w /\ \A u \in Threads \ {t} : y'[u] = y[u]
            /\ kind(t) = "processor"
        BY <1>3, <1>22, <2>0, <2>3, <2>14 DEF AnalyzeSentences
      <3>2. b = <<>>
        BY <1>23, <2>0, <2>4, <2>5, <3>1
      <3>3. Stage(t) = Tally(<<>>, <<>>, w, p)
        BY <1>4, <1>23, <2>0, <2>2, <2>3, <2>4, <3>1, <3>2
      <3>4. Stage(t)' = Tally(w, <<>>, <<>>, p)
        BY <1>5, <1>23, <2>0, <2>6, <2>7, <3>1, <3>2
      <3>5. Stage(t)' = Stage(t)
        BY <1>3, <3>3, <3>4, Tallies
      <3> QED BY <2>1, <3>1, <3>5
    <2>15. CASE SendResult(t)
      <3>1. PICK to \in {"receive", "delete"} : At(t, "send", to)
        BY <2>15 DEF SendResult
      <3>2. Send(t, y[t]) /\ UNCHANGED <<x, y, buffer, printed, lines>>
        BY <2>15 DEF SendResult
      <3> QED BY <2>9, <3>1, <3>2
    <2>16. CASE DeleteInput(t) \/ CloseInput(t) \/ CloseOutput(t)
      <3>1. /\ pc[t] \in {"delete", "close_in", "close_out"}
            /\ pc'[t] \in {"receive", "flush", "close_out", "done"}
            /\ \A u \in Threads \ {t} : pc'[u] = pc[u]
            /\ UNCHANGED <<x, y, pipe, buffer, printed, lines>>
        <4>1. PICK from \in {"delete", "close_in", "close_out"},
                   to \in {"receive", "flush", "close_out", "done"} : At(t, from, to)
          BY <2>16 DEF DeleteInput, CloseInput, CloseOutput
        <4>2. UNCHANGED <<x, y, pipe, buffer, printed, lines>>
          BY <2>16 DEF DeleteInput, CloseInput, CloseOutput, CloseRead, CloseWrite
        <4> QED BY <1>22, <2>0, <4>1, <4>2
      <3>2. Stage(t)' = Stage(t)
        BY <1>4, <1>5, <1>23, <2>0, <2>2, <2>4, <2>6, <2>7, <3>1
      <3> QED BY <2>1, <3>1, <3>2
    <2>17. CASE FlushSplitter(t)
      <3>1. /\ pc[t] = "flush" /\ pc'[t] = "send_flushed" /\ \A u \in Threads \ {t} : pc'[u] = pc[u]
            /\ UNCHANGED <<x, pipe, printed, lines>> /\ Result(t, buffer) /\ buffer' = <<>>
        BY <1>22, <2>0, <2>17 DEF FlushSplitter
      <3>2. kind(t) = "splitter"
        BY <3>1 DEF Base, Control, Places
      <3>3. b = buffer /\ Kept(t)' = <<>>
        BY <1>23, <2>0, <2>4, <2>5, <3>1, <3>2
      <3>4. y'[t].words = b /\ \A u \in Threads \ {t} : y'[u] = y[u]
        BY <2>8, <3>1, <3>3
      <3>5. Stage(t) = Tally(<<>>, b, <<>>, p)
        BY <1>4, <1>23, <2>0, <2>2, <2>4, <3>1
      <3>6. Stage(t)' = Tally(b, <<>>, <<>>, p)
        BY <1>5, <1>23, <2>0, <2>6, <3>1, <3>3, <3>4
      <3>7. Stage(t)' = Stage(t)
        BY <1>3, <3>5, <3>6, Tallies
      <3> QED BY <2>1, <3>1, <3>2, <3>4, <3>7
    <2>18. CASE SendFlushed(t)
      <3>1. At(t, "send_flushed", "close_out") /\ Send(t, y[t])
            /\ UNCHANGED <<x, y, buffer, printed, lines>>
        BY <2>18 DEF SendFlushed
      <3> QED BY <2>9, <3>1
    <2> QED BY <1>17, <2>10, <2>11, <2>12, <2>13, <2>14, <2>15, <2>16, <2>17, <2>18 DEF Processor
  <1>21. CASE UNCHANGED vars
    <2>1. ASSUME NEW u \in Threads PROVE Stage(u)' = Stage(u)
      BY <1>1, <1>21, StageKept DEF vars
    <2> QED BY <1>12, <1>21, <2>1 DEF vars
  <1> QED BY <1>14, <1>15, <1>16, <1>17, <1>18, <1>19, <1>20, <1>21
          DEF Next, Reader, MainThread, Terminated

\* Each word read is in one place, and what is printed is a prefix of the text,
\* whatever the chain, the text and the capacity of the pipes.
THEOREM WordsInOrder == Spec => []InOrder
  <1>1. Init => Base /\ InOrder
    <2> SUFFICES ASSUME Init PROVE Base /\ InOrder
      OBVIOUS
    <2>1. Base
      BY InitBase
    <2>2. N \in Nat /\ <<>> \in Words
      BY <2>1, EmptySeq DEF Base, Control, Words
    <2>3. ASSUME NEW t \in Threads PROVE Stage(t) = <<>>
      <3>1. YWords(t) = <<>> /\ Kept(t) = <<>> /\ XWords(t) = <<>>
        BY DEF Init, YWords, UsesY, Kept, XWords
      <3>2. Behind(t) = <<>>
        <4>1. t # 0 => t - 1 \in Pipes
          BY <2>2
        <4> QED BY <4>1, CollectedEmpty DEF Init, Behind
      <3>3. Stage(t) = Tally(<<>>, <<>>, <<>>, <<>>)
        BY <2>1, <3>1, <3>2, StageParts
      <3> QED BY <2>2, <3>3, CatOfWords DEF Tally
    <2> DEFINE n == Main + 1
               f == [t \in Threads |-> Stage(t)]
    <2>4. InTransit = Row(n, f)
      BY <2>2, InTransitRow
    <2>5. InTransit = <<>>
      <3>1. \A k \in 1..n : n - k \in Threads /\ f[n - k] = <<>>
        BY <2>2, <2>3
      <3>2. [k \in 1..n |-> f[n - k]] = [k \in 1..n |-> <<>>] /\ n \in Nat
        BY <2>2, <3>1
      <3> HIDE DEF f, n
      <3>3. Row(n, f) = <<>>
        BY <3>2, FlattenNothing DEF Row
      <3> QED BY <2>4, <3>3
    <2>6. TextUpTo(lines) = <<>> /\ printed = <<>>
      <3>1. lines = 0 /\ printed = <<>>
        BY DEF Init
      <3>2. [k \in 1..0 |-> Line(k)] = <<>>
        OBVIOUS
      <3> QED BY <3>1, <3>2, FlattenEmpty DEF TextUpTo
    <2>7. Cat(printed, InTransit) = TextUpTo(lines)
      BY <2>2, <2>5, <2>6, CatOfWords
    <2> QED BY <2>1, <2>7 DEF InOrder, Cat
  <1>2. Base /\ InOrder /\ [Next]_vars => (Base /\ InOrder)'
    <2>1. Base /\ [Next]_vars => Base'
      BY StepControl, StepObjects DEF Base
    <2> QED BY <2>1, StepInOrder
  <1> QED BY <1>1, <1>2, PTL DEF Spec

-----------------------------------------------------------------------------
(* Ownership: threads X use their x, threads Y their y, and the pipes K hold *)
(* the rest of the live objects L.                                           *)

Each(X, a, L) == /\ \A t \in X : a[t].id \in L
                 /\ \A t, u \in X : a[t].id = a[u].id => t = u

EachSent(K, p, L) == /\ \A k \in K : \A i \in 1..Len(p[k]) : p[k][i].id \in L
                     /\ \A k, l \in K : \A i \in 1..Len(p[k]), j \in 1..Len(p[l]) :
                          p[k][i].id = p[l][j].id => k = l /\ i = j

Apart(X, Y, a, b) == \A t \in X, u \in Y : a[t].id # b[u].id

NotSent(X, K, a, p) == \A t \in X, k \in K : \A i \in 1..Len(p[k]) : a[t].id # p[k][i].id

Somewhere(X, Y, K, a, b, p, L) ==
  \A d \in L : \/ \E t \in X : a[t].id = d
               \/ \E t \in Y : b[t].id = d
               \/ \E k \in K : \E i \in 1..Len(p[k]) : p[k][i].id = d

Owns(X, Y, K, a, b, p, L) ==
  /\ Each(X, a, L) /\ Each(Y, b, L) /\ EachSent(K, p, L)
  /\ Apart(X, Y, a, b) /\ NotSent(X, K, a, p) /\ NotSent(Y, K, b, p)
  /\ Somewhere(X, Y, K, a, b, p, L)

\* Pipes q are pipes p without the first object, obj, of pipe k.
Take(K, p, q, k, obj) ==
  /\ Len(p[k]) \in Nat \ {0} /\ Len(q[k]) = Len(p[k]) - 1 /\ obj = p[k][1]
  /\ \A i \in 1..Len(q[k]) : q[k][i] = p[k][i + 1]
  /\ \A l \in K \ {k} : q[l] = p[l]

\* The first object of a pipe goes to thread t.
LEMMA Taken ==
  ASSUME NEW X, NEW Y, NEW K, NEW a, NEW b, NEW p, NEW L, Owns(X, Y, K, a, b, p, L),
         NEW c, NEW q, NEW t, t \notin X, NEW k \in K,
         Take(K, p, q, k, c[t]), \A u \in X : c[u] = a[u]
  PROVE  Owns(X \cup {t}, Y, K, c, b, q, L)
  <1> DEFINE Z == X \cup {t}
  <1>0. /\ Len(p[k]) \in Nat \ {0} /\ Len(q[k]) = Len(p[k]) - 1 /\ c[t] = p[k][1]
        /\ \A i \in 1..Len(q[k]) : q[k][i] = p[k][i + 1]
        /\ \A l \in K \ {k} : q[l] = p[l]
    BY DEF Take
  <1>1. \A i \in 1..Len(q[k]) : i + 1 \in 1..Len(p[k]) /\ i + 1 # 1
    BY <1>0
  <1>2. 1 \in 1..Len(p[k])
    BY <1>0
  <1>3. Each(Z, c, L)
    BY <1>0, <1>2 DEF Owns, Each, EachSent, NotSent
  <1>9. ASSUME NEW l \in K, NEW i \in 1..Len(q[l])
        PROVE  \E j \in 1..Len(p[l]) : /\ q[l][i] = p[l][j]
                                       /\ l = k => j = i + 1 /\ i \in Nat
                                       /\ l # k => j = i
    <2>1. CASE l = k
      <3>1. i \in 1..Len(q[k])
        BY <1>0, <2>1
      <3>2. i + 1 \in 1..Len(p[k]) /\ q[k][i] = p[k][i + 1] /\ i \in Nat
        BY <1>0, <1>1, <3>1
      <3> QED BY <1>0, <2>1, <3>2
    <2>2. CASE l # k
      <3>1. q[l] = p[l]
        BY <1>0, <2>2
      <3>2. i \in 1..Len(p[l]) /\ q[l][i] = p[l][i]
        BY <1>0, <3>1
      <3> QED BY <1>0, <2>2, <3>2
    <2> QED BY <1>0, <2>1, <2>2
  <1>4. EachSent(K, q, L)
    <2>1. ASSUME NEW l \in K, NEW i \in 1..Len(q[l]) PROVE q[l][i].id \in L
      <3>1. PICK j \in 1..Len(p[l]) : q[l][i] = p[l][j]
        BY <1>0, <1>9
      <3> QED BY <1>0, <3>1 DEF Owns, EachSent
    <2>2. ASSUME NEW l \in K, NEW m \in K, NEW i \in 1..Len(q[l]), NEW j \in 1..Len(q[m]),
                 q[l][i].id = q[m][j].id
          PROVE  l = m /\ i = j
      <3>1. PICK g \in 1..Len(p[l]) : q[l][i] = p[l][g] /\ (l = k => g = i + 1 /\ i \in Nat)
                                      /\ (l # k => g = i)
        BY <1>0, <1>9
      <3>2. PICK h \in 1..Len(p[m]) : q[m][j] = p[m][h] /\ (m = k => h = j + 1 /\ j \in Nat)
                                      /\ (m # k => h = j)
        BY <1>0, <1>9
      <3>3. p[l][g].id = p[m][h].id
        BY <1>0, <2>2, <3>1, <3>2
      <3>4. l = m /\ g = h
        BY <1>0, <3>3 DEF Owns, EachSent
      <3>5. CASE l = k
        <4>1. i + 1 = j + 1 /\ i \in Nat /\ j \in Nat
          BY <1>0, <3>1, <3>2, <3>4, <3>5
        <4> QED BY <1>0, <3>4, <4>1
      <3>6. CASE l # k
        BY <1>0, <3>1, <3>2, <3>4, <3>6
      <3> QED BY <1>0, <3>5, <3>6
    <2> QED BY <1>0, <2>1, <2>2 DEF EachSent
  <1>5. Apart(Z, Y, c, b)
    BY <1>0, <1>2 DEF Owns, Apart, NotSent
  <1>6. NotSent(Z, K, c, q)
    <2> SUFFICES ASSUME NEW u \in Z, NEW l \in K, NEW i \in 1..Len(q[l])
                 PROVE  c[u].id # q[l][i].id
      BY DEF NotSent
    <2>1. PICK j \in 1..Len(p[l]) : q[l][i] = p[l][j] /\ (l = k => j # 1)
      <3>1. PICK j \in 1..Len(p[l]) : q[l][i] = p[l][j] /\ (l = k => j = i + 1 /\ i \in Nat)
        BY <1>0, <1>9
      <3>2. l = k => j # 1
        <4> SUFFICES ASSUME l = k PROVE j # 1
          OBVIOUS
        <4>1. i \in 1..Len(q[k])
          OBVIOUS
        <4> QED BY <1>0, <1>1, <3>1, <4>1
      <3> QED BY <1>0, <3>1, <3>2
    <2>2. CASE u = t
      BY <1>0, <1>2, <2>1, <2>2 DEF Owns, EachSent
    <2>3. CASE u # t
      BY <1>0, <2>1, <2>3 DEF Owns, NotSent
    <2> QED BY <1>0, <2>2, <2>3
  <1>7. NotSent(Y, K, b, q)
    <2> SUFFICES ASSUME NEW u \in Y, NEW l \in K, NEW i \in 1..Len(q[l])
                 PROVE  b[u].id # q[l][i].id
      BY DEF NotSent
    <2>1. PICK j \in 1..Len(p[l]) : q[l][i] = p[l][j]
      BY <1>0, <1>9
    <2> QED BY <1>0, <2>1 DEF Owns, NotSent
  <1>8. Somewhere(Z, Y, K, c, b, q, L)
    <2> SUFFICES ASSUME NEW d \in L
                 PROVE  \/ \E u \in Z : c[u].id = d
                        \/ \E u \in Y : b[u].id = d
                        \/ \E l \in K : \E i \in 1..Len(q[l]) : q[l][i].id = d
      BY DEF Somewhere
    <2>1. CASE \E u \in X : a[u].id = d
      BY <1>0, <2>1
    <2>2. CASE \E u \in Y : b[u].id = d
      BY <1>0, <2>2
    <2>3. ASSUME NEW l \in K, NEW i \in 1..Len(p[l]), p[l][i].id = d
          PROVE  \/ \E u \in Z : c[u].id = d
                 \/ \E m \in K : \E j \in 1..Len(q[m]) : q[m][j].id = d
      <3>1. CASE l # k
        BY <1>0, <2>3, <3>1
      <3>2. CASE l = k /\ i = 1
        BY <1>0, <2>3, <3>2
      <3>3. CASE l = k /\ i # 1
        <4>1. i - 1 \in 1..Len(q[k]) /\ (i - 1) + 1 = i
          BY <1>0, <3>3
        <4>2. q[k][i - 1] = p[k][i]
          BY <1>0, <4>1
        <4> QED BY <1>0, <2>3, <3>3, <4>1, <4>2
      <3> QED BY <1>0, <3>1, <3>2, <3>3
    <2> QED BY <1>0, <2>1, <2>2, <2>3 DEF Owns, Somewhere
  <1> QED BY <1>0, <1>3, <1>4, <1>5, <1>6, <1>7, <1>8 DEF Owns

\* Pipes q are pipes p with object obj behind the others in pipe k.
Put(K, p, q, k, obj) ==
  /\ Len(p[k]) \in Nat /\ Len(q[k]) = Len(p[k]) + 1 /\ q[k][Len(p[k]) + 1] = obj
  /\ \A i \in 1..Len(p[k]) : q[k][i] = p[k][i]
  /\ \A l \in K \ {k} : q[l] = p[l]

\* What is in the pipes then.
PutIn(K, p, q, k, obj) ==
  /\ \A l \in K : \A i \in 1..Len(q[l]) :
       \/ q[l][i] = obj /\ l = k /\ i = Len(p[k]) + 1
       \/ i \in 1..Len(p[l]) /\ q[l][i] = p[l][i]
  /\ \A l \in K : \A i \in 1..Len(p[l]) : i \in 1..Len(q[l]) /\ q[l][i] = p[l][i]
  /\ Len(p[k]) + 1 \in 1..Len(q[k]) /\ q[k][Len(p[k]) + 1] = obj

LEMMA PutParts ==
  ASSUME NEW K, NEW p, NEW q, NEW k \in K, NEW obj, Put(K, p, q, k, obj)
  PROVE  PutIn(K, p, q, k, obj)
  BY DEF Put, PutIn

\* The sent part after an object is put behind the others in pipe k.
LEMMA PutBehind ==
  ASSUME NEW K, NEW p, NEW q, NEW L, EachSent(K, p, L), NEW k \in K, NEW obj, obj.id \in L,
         Put(K, p, q, k, obj),
         \A l \in K : \A i \in 1..Len(p[l]) : obj.id # p[l][i].id
  PROVE  EachSent(K, q, L)
  <1>1. PutIn(K, p, q, k, obj)
    BY PutParts
  <1>3. \A l \in K : \A i \in 1..Len(q[l]) : q[l][i].id \in L
    BY <1>1 DEF EachSent, PutIn
  <1>4. ASSUME NEW l \in K, NEW m \in K, NEW i \in 1..Len(q[l]), NEW j \in 1..Len(q[m]),
               q[l][i].id = q[m][j].id
        PROVE  l = m /\ i = j
    <2>1. CASE q[l][i] = obj /\ l = k /\ i = Len(p[k]) + 1
      <3>1. ~(j \in 1..Len(p[m]) /\ q[m][j] = p[m][j])
        BY <1>4, <2>1
      <3> QED BY <1>1, <2>1, <3>1 DEF PutIn
    <2>2. CASE i \in 1..Len(p[l]) /\ q[l][i] = p[l][i]
      <3>1. j \in 1..Len(p[m]) /\ q[m][j] = p[m][j]
        BY <1>1, <1>4, <2>2 DEF PutIn
      <3> QED BY <1>4, <2>2, <3>1 DEF EachSent
    <2> QED BY <1>1, <2>1, <2>2 DEF PutIn
  <1> QED BY <1>3, <1>4 DEF EachSent

\* Thread t gives its result to pipe k.
LEMMA Given ==
  ASSUME NEW X, NEW Y, NEW K, NEW a, NEW b, NEW p, NEW L, Owns(X, Y, K, a, b, p, L),
         NEW q, NEW t \in Y, NEW k \in K,
         Put(K, p, q, k, b[t])
  PROVE  Owns(X, Y \ {t}, K, a, b, q, L)
  <1>0. PICK obj : obj = b[t]
    OBVIOUS
  <1>1. /\ obj.id \in L /\ EachSent(K, p, L) /\ Put(K, p, q, k, obj)
        /\ \A l \in K : \A i \in 1..Len(p[l]) : obj.id # p[l][i].id
    BY <1>0 DEF Owns, Each, NotSent
  <1>10. EachSent(K, q, L)
    BY <1>1, PutBehind
  <1>11. PutIn(K, p, q, k, obj)
    BY <1>1, PutParts
  <1>2. /\ \A l \in K : \A i \in 1..Len(q[l]) :
             \/ q[l][i] = obj /\ l = k /\ i = Len(p[k]) + 1
             \/ i \in 1..Len(p[l]) /\ q[l][i] = p[l][i]
        /\ \A l \in K : \A i \in 1..Len(p[l]) : i \in 1..Len(q[l]) /\ q[l][i] = p[l][i]
        /\ Len(p[k]) + 1 \in 1..Len(q[k]) /\ q[k][Len(p[k]) + 1] = obj
    BY <1>11 DEF PutIn
  <1>3. Each(X, a, L) /\ Each(Y \ {t}, b, L) /\ Apart(X, Y \ {t}, a, b)
    BY DEF Owns, Each, Apart
  <1>4. NotSent(X, K, a, q)
    BY <1>0, <1>2 DEF Owns, NotSent, Apart
  <1>5. NotSent(Y \ {t}, K, b, q)
    BY <1>0, <1>2 DEF Owns, NotSent, Each
  <1>6. Somewhere(X, Y \ {t}, K, a, b, q, L)
    <2> SUFFICES ASSUME NEW d \in L
                 PROVE  \/ \E u \in X : a[u].id = d
                        \/ \E u \in Y \ {t} : b[u].id = d
                        \/ \E l \in K : \E i \in 1..Len(q[l]) : q[l][i].id = d
      BY DEF Somewhere
    <2>1. CASE b[t].id = d
      BY <1>0, <1>2, <2>1
    <2>2. CASE b[t].id # d
      BY <1>0, <1>2, <2>2 DEF Owns, Somewhere
    <2> QED BY <2>1, <2>2
  <1> QED BY <1>10, <1>3, <1>4, <1>5, <1>6 DEF Owns

\* Thread t gives its input to pipe k and gets a new one.
LEMMA GivenForNew ==
  ASSUME NEW X, NEW Y, NEW K, NEW a, NEW b, NEW p, NEW L, Owns(X, Y, K, a, b, p, L),
         NEW c, NEW q, NEW t \in X, NEW k \in K,
         Put(K, p, q, k, a[t]),
         c[t].id \notin L, \A u \in X \ {t} : c[u] = a[u]
  PROVE  Owns(X, Y, K, c, b, q, L \cup {c[t].id})
  <1> DEFINE M == L \cup {c[t].id}
  <1>0. PICK obj : obj = a[t]
    OBVIOUS
  <1>1. /\ obj.id \in L /\ EachSent(K, p, L) /\ Put(K, p, q, k, obj)
        /\ \A l \in K : \A i \in 1..Len(p[l]) : obj.id # p[l][i].id
    BY <1>0 DEF Owns, Each, NotSent
  <1>10. EachSent(K, q, L)
    BY <1>1, PutBehind
  <1>11. PutIn(K, p, q, k, obj)
    BY <1>1, PutParts
  <1>2. /\ \A l \in K : \A i \in 1..Len(q[l]) :
             \/ q[l][i] = obj /\ l = k /\ i = Len(p[k]) + 1
             \/ i \in 1..Len(p[l]) /\ q[l][i] = p[l][i]
        /\ \A l \in K : \A i \in 1..Len(p[l]) : i \in 1..Len(q[l]) /\ q[l][i] = p[l][i]
        /\ Len(p[k]) + 1 \in 1..Len(q[k]) /\ q[k][Len(p[k]) + 1] = obj
    BY <1>11 DEF PutIn
  <1>3. EachSent(K, q, M) /\ \A l \in K : \A i \in 1..Len(q[l]) : q[l][i].id \in L
    BY <1>10 DEF EachSent
  <1>4. Each(X, c, M) /\ Each(Y, b, M)
    BY DEF Owns, Each
  <1>5. Apart(X, Y, c, b)
    BY DEF Owns, Apart, Each
  <1>6. NotSent(X, K, c, q)
    <2> SUFFICES ASSUME NEW u \in X, NEW l \in K, NEW i \in 1..Len(q[l])
                 PROVE  c[u].id # q[l][i].id
      BY DEF NotSent
    <2>0. q[l][i].id \in L /\ (q[l][i] = obj \/ (i \in 1..Len(p[l]) /\ q[l][i] = p[l][i]))
      BY <1>2, <1>3
    <2>1. CASE u = t
      BY <2>0, <2>1
    <2>2. CASE u # t
      <3>1. c[u].id = a[u].id /\ a[u].id # a[t].id
        BY <2>2 DEF Owns, Each
      <3> QED BY <1>0, <2>0, <3>1 DEF Owns, NotSent
    <2> QED BY <2>1, <2>2
  <1>7. NotSent(Y, K, b, q)
    <2> SUFFICES ASSUME NEW u \in Y, NEW l \in K, NEW i \in 1..Len(q[l])
                 PROVE  b[u].id # q[l][i].id
      BY DEF NotSent
    <2>1. q[l][i] = a[t] \/ (i \in 1..Len(p[l]) /\ q[l][i] = p[l][i])
      BY <1>0, <1>2
    <2> QED BY <2>1 DEF Owns, NotSent, Apart
  <1>8. Somewhere(X, Y, K, c, b, q, M)
    <2> SUFFICES ASSUME NEW d \in M
                 PROVE  \/ \E u \in X : c[u].id = d
                        \/ \E u \in Y : b[u].id = d
                        \/ \E l \in K : \E i \in 1..Len(q[l]) : q[l][i].id = d
      BY DEF Somewhere
    <2>1. CASE d = c[t].id
      BY <2>1
    <2>2. CASE d = a[t].id
      BY <1>0, <1>2, <2>2
    <2>3. CASE d \in L /\ d # a[t].id
      BY <1>0, <1>2, <2>3 DEF Owns, Somewhere
    <2> QED BY <2>1, <2>2, <2>3
  <1> QED BY <1>3, <1>4, <1>5, <1>6, <1>7, <1>8 DEF Owns

\* Thread t passes its input on as its result.
LEMMA PassedOn ==
  ASSUME NEW X, NEW Y, NEW K, NEW a, NEW b, NEW p, NEW L, Owns(X, Y, K, a, b, p, L),
         NEW c, NEW t \in X, t \notin Y, c[t] = a[t], \A u \in Y : c[u] = b[u]
  PROVE  Owns(X \ {t}, Y \cup {t}, K, a, c, p, L)
  <1>1. Each(X \ {t}, a, L) /\ Each(Y \cup {t}, c, L)
    BY DEF Owns, Each, Apart
  <1>2. Apart(X \ {t}, Y \cup {t}, a, c)
    BY DEF Owns, Apart, Each
  <1>3. NotSent(X \ {t}, K, a, p) /\ NotSent(Y \cup {t}, K, c, p)
    BY DEF Owns, NotSent
  <1>4. Somewhere(X \ {t}, Y \cup {t}, K, a, c, p, L)
    BY DEF Owns, Somewhere
  <1> QED BY <1>1, <1>2, <1>3, <1>4 DEF Owns

\* Thread t makes a new result.
LEMMA Made ==
  ASSUME NEW X, NEW Y, NEW K, NEW a, NEW b, NEW p, NEW L, Owns(X, Y, K, a, b, p, L),
         NEW c, NEW t, t \notin Y, c[t].id \notin L, \A u \in Y : c[u] = b[u]
  PROVE  Owns(X, Y \cup {t}, K, a, c, p, L \cup {c[t].id})
  <1> DEFINE M == L \cup {c[t].id}
  <1>1. Each(X, a, M) /\ Each(Y \cup {t}, c, M) /\ EachSent(K, p, M)
    BY DEF Owns, Each, EachSent
  <1>2. Apart(X, Y \cup {t}, a, c)
    BY DEF Owns, Apart, Each
  <1>3. NotSent(X, K, a, p) /\ NotSent(Y \cup {t}, K, c, p)
    BY DEF Owns, NotSent, EachSent
  <1>4. Somewhere(X, Y \cup {t}, K, a, c, p, M)
    BY DEF Owns, Somewhere
  <1> QED BY <1>1, <1>2, <1>3, <1>4 DEF Owns

\* Thread t deletes its input.
LEMMA Deleted ==
  ASSUME NEW X, NEW Y, NEW K, NEW a, NEW b, NEW p, NEW L, Owns(X, Y, K, a, b, p, L),
         NEW t \in X
  PROVE  Owns(X \ {t}, Y, K, a, b, p, L \ {a[t].id})
  <1> DEFINE M == L \ {a[t].id}
  <1>1. Each(X \ {t}, a, M) /\ Each(Y, b, M) /\ EachSent(K, p, M)
    BY DEF Owns, Each, EachSent, Apart, NotSent
  <1>2. Apart(X \ {t}, Y, a, b) /\ NotSent(X \ {t}, K, a, p)
    BY DEF Owns, Apart, NotSent
  <1>3. Somewhere(X \ {t}, Y, K, a, b, p, M)
    BY DEF Owns, Somewhere
  <1> QED BY <1>1, <1>2, <1>3 DEF Owns

\* Nothing that is used changes.
LEMMA Unused ==
  ASSUME NEW X, NEW Y, NEW K, NEW a, NEW b, NEW p, NEW L, Owns(X, Y, K, a, b, p, L),
         NEW c, NEW e, \A u \in X : c[u].id = a[u].id, \A u \in Y : e[u].id = b[u].id
  PROVE  Owns(X, Y, K, c, e, p, L)
  <1>1. Each(X, c, L) /\ Each(Y, e, L)
    BY DEF Owns, Each
  <1>2. Apart(X, Y, c, e) /\ NotSent(X, K, c, p) /\ NotSent(Y, K, e, p)
    BY DEF Owns, Apart, NotSent
  <1>3. Somewhere(X, Y, K, c, e, p, L)
    BY DEF Owns, Somewhere
  <1> QED BY <1>1, <1>2, <1>3 DEF Owns

Bounded == \A k \in Pipes : Len(pipe[k]) <= Capacity

\* No object is live that its thread has not made yet.
AllMade == \A i \in live : \E t \in Threads, k \in Nat : i = <<t, k>> /\ k <= allocated[t]

UseX == {t \in Threads : UsesX(t)}
UseY == {t \in Threads : UsesY(t)}

Owned == Bounded /\ AllMade /\ Owns(UseX, UseY, Pipes, x, y, pipe, live)

LEMMA OwnedIsOwnedOnce ==
  ASSUME Base, Owned
  PROVE  OwnedOnce
  <1> DEFINE D == {<<"x", t>> : t \in UseX} \cup {<<"y", t>> : t \in UseY}
                    \cup {<<"pipe", c>> : c \in InPipes}
  <1>0. Owns(UseX, UseY, Pipes, x, y, pipe, live)
    BY DEF Owned
  <1>1. /\ DOMAIN References = D
        /\ \A r \in D : References[r] = CASE r[1] = "x" -> x[r[2]].id [] r[1] = "y" -> y[r[2]].id
                                          [] r[1] = "pipe" -> pipe[r[2][1]][r[2][2]].id
    BY DEF References, UseX, UseY
  <1>2. ASSUME NEW t \in UseX
        PROVE  <<"x", t>> \in D /\ References[<<"x", t>>] = x[t].id
    BY <1>1
  <1>3. ASSUME NEW t \in UseY
        PROVE  <<"y", t>> \in D /\ References[<<"y", t>>] = y[t].id
    BY <1>1
  <1>4. ASSUME NEW k \in Pipes, NEW i \in 1..Len(pipe[k])
        PROVE  <<"pipe", <<k, i>>>> \in D /\ References[<<"pipe", <<k, i>>>>] = pipe[k][i].id
    <2>1. pipe[k] \in Seq(Object) /\ Len(pipe[k]) <= Capacity /\ Capacity \in Nat
      BY PipelineAssumption DEF Owned, Bounded, Base, Objects
    <2>2. i \in 1..Capacity
      BY <2>1, LenProperties
    <2>3. <<k, i>> \in InPipes
      BY <2>2 DEF InPipes
    <2>4. <<"pipe", <<k, i>>>> \in D
      BY <2>3
    <2> QED BY <1>1, <2>4
  <1>5. ASSUME NEW r \in D
        PROVE  \/ \E t \in UseX : r = <<"x", t>>
               \/ \E t \in UseY : r = <<"y", t>>
               \/ \E k \in Pipes : \E i \in 1..Len(pipe[k]) : r = <<"pipe", <<k, i>>>>
    <2>1. CASE \E c \in InPipes : r = <<"pipe", c>>
      <3>1. PICK k \in Pipes, i \in 1..Capacity : r = <<"pipe", <<k, i>>>> /\ i <= Len(pipe[k])
        BY <2>1 DEF InPipes
      <3>2. i \in 1..Len(pipe[k])
        <4>1. pipe[k] \in Seq(Object) /\ Capacity \in Nat
          BY PipelineAssumption DEF Base, Objects
        <4> QED BY <3>1, <4>1, LenProperties
      <3> QED BY <3>1, <3>2
    <2> QED BY <2>1
  <1> HIDE DEF D
  <1>6. IsInjective(References)
    <2> SUFFICES ASSUME NEW r \in D, NEW s \in D, References[r] = References[s] PROVE r = s
      BY <1>1 DEF IsInjective
    <2>1. CASE \E t \in UseX : r = <<"x", t>>
      <3>1. PICK t \in UseX : r = <<"x", t>> /\ References[r] = x[t].id
        BY <1>2, <2>1
      <3> QED BY <1>0, <1>2, <1>3, <1>4, <1>5, <3>1 DEF Owns, Each, Apart, NotSent
    <2>2. CASE \E t \in UseY : r = <<"y", t>>
      <3>1. PICK t \in UseY : r = <<"y", t>> /\ References[r] = y[t].id
        BY <1>3, <2>2
      <3> QED BY <1>0, <1>2, <1>3, <1>4, <1>5, <3>1 DEF Owns, Each, Apart, NotSent
    <2>3. CASE \E k \in Pipes : \E i \in 1..Len(pipe[k]) : r = <<"pipe", <<k, i>>>>
      <3>0. PICK k \in Pipes : \E i \in 1..Len(pipe[k]) : r = <<"pipe", <<k, i>>>>
        BY <2>3
      <3>1. PICK i \in 1..Len(pipe[k]) :
              r = <<"pipe", <<k, i>>>> /\ References[r] = pipe[k][i].id
        BY <1>4, <3>0
      <3> QED BY <1>0, <1>2, <1>3, <1>4, <1>5, <3>1 DEF Owns, EachSent, NotSent
    <2> QED BY <1>5, <2>1, <2>2, <2>3
  <1>7. \A r \in D : References[r] \in live
    BY <1>0, <1>2, <1>3, <1>4, <1>5 DEF Owns, Each, EachSent
  <1>8. \A d \in live : \E r \in D : References[r] = d
    <2> SUFFICES ASSUME NEW d \in live PROVE \E r \in D : References[r] = d
      OBVIOUS
    <2>1. CASE \E t \in UseX : x[t].id = d
      BY <1>2, <2>1
    <2>2. CASE \E t \in UseY : y[t].id = d
      BY <1>3, <2>2
    <2>3. CASE \E k \in Pipes : \E i \in 1..Len(pipe[k]) : pipe[k][i].id = d
      <3>1. PICK k \in Pipes : \E i \in 1..Len(pipe[k]) : pipe[k][i].id = d
        BY <2>3
      <3>2. PICK i \in 1..Len(pipe[k]) : pipe[k][i].id = d
        BY <3>1
      <3> QED BY <1>4, <3>2
    <2> QED BY <1>0, <2>1, <2>2, <2>3 DEF Owns, Somewhere
  <1>9. Range(References) = live
    BY <1>1, <1>7, <1>8 DEF Range
  <1> QED BY <1>6, <1>9 DEF OwnedOnce

\* Which pointers are used after a step of thread t from one place to another.
LEMMA UsesMove ==
  ASSUME Base, UNCHANGED data, NEW t \in Threads, NEW from, NEW to, At(t, from, to)
  PROVE  /\ pc[t] = from /\ pc'[t] = to
         /\ UseX' = IF UsesX(t)' THEN UseX \cup {t} ELSE UseX \ {t}
         /\ UseY' = IF UsesY(t)' THEN UseY \cup {t} ELSE UseY \ {t}
  <1>1. pc \in [Threads -> PCs] /\ UNCHANGED <<N, Threads, Module>> /\ \A u : kind(u)' = kind(u)
    BY DEF Base, Control, N, kind
  <1>2. pc[t] = from /\ pc'[t] = to /\ \A u \in Threads \ {t} : pc'[u] = pc[u]
    BY <1>1 DEF At
  <1>3. \A u \in Threads \ {t} : (UsesX(u)' <=> UsesX(u)) /\ (UsesY(u)' <=> UsesY(u))
    BY <1>1, <1>2 DEF UsesX, UsesY
  <1>4. UseX' = {u \in Threads : UsesX(u)'} /\ UseY' = {u \in Threads : UsesY(u)'}
    BY <1>1 DEF UseX, UseY
  <1> HIDE DEF Threads
  <1>5. UseX' = IF UsesX(t)' THEN UseX \cup {t} ELSE UseX \ {t}
    BY <1>3, <1>4 DEF UseX
  <1>6. UseY' = IF UsesY(t)' THEN UseY \cup {t} ELSE UseY \ {t}
    BY <1>3, <1>4 DEF UseY
  <1> QED BY <1>2, <1>5, <1>6

\* A sent object is put behind the others, and the pipe is not over its capacity.
LEMMA SendPuts ==
  ASSUME Base, Bounded, NEW k \in Pipes, NEW o, Send(k, o)
  PROVE  Put(Pipes, pipe, pipe', k, o) /\ \A l \in Pipes : Len(pipe'[l]) <= Capacity
  <1>1. /\ pipe \in [Pipes -> Seq(Object)] /\ Capacity \in Nat
        /\ pipe' = [pipe EXCEPT ![k] = Append(pipe[k], o)] /\ Len(pipe[k]) < Capacity
    BY PipelineAssumption DEF Base, Objects, Send
  <1>2. PICK p \in Seq(Object) : p = pipe[k]
    BY <1>1
  <1>3. pipe'[k] = Append(p, o) /\ \A l \in Pipes \ {k} : pipe'[l] = pipe[l]
    BY <1>1, <1>2
  <1>4. /\ Len(Append(p, o)) = Len(p) + 1 /\ Append(p, o)[Len(p) + 1] = o
        /\ \A i \in 1..Len(p) : Append(p, o)[i] = p[i]
        /\ Len(p) \in Nat
    BY <1>2, AppendProperties, LenProperties
  <1>5. Put(Pipes, pipe, pipe', k, o)
    BY <1>2, <1>3, <1>4 DEF Put
  <1>6. \A l \in Pipes : Len(pipe'[l]) <= Capacity
    BY <1>1, <1>2, <1>3, <1>4 DEF Bounded
  <1> QED BY <1>5, <1>6

\* A received object was the first of its pipe.
LEMMA ReceiveTakes ==
  ASSUME Base, Bounded, NEW t \in 1..Main, Receive(t)
  PROVE  /\ Take(Pipes, pipe, pipe', t - 1, x'[t]) /\ \A u \in Threads \ {t} : x'[u] = x[u]
         /\ \A l \in Pipes : Len(pipe'[l]) <= Capacity
  <1>1. /\ pipe \in [Pipes -> Seq(Object)] /\ x \in [Threads -> Object] /\ N \in Nat
        /\ Capacity \in Nat
    BY PipelineAssumption DEF Base, Objects, Control
  <1>2. t \in Threads /\ t - 1 \in Pipes
    BY <1>1
  <1>3. PICK p \in Seq(Object) : p = pipe[t - 1]
    BY <1>1, <1>2
  <1>4. /\ p # <<>> /\ x'[t] = Head(p) /\ pipe'[t - 1] = Tail(p)
        /\ \A l \in Pipes \ {t - 1} : pipe'[l] = pipe[l]
        /\ \A u \in Threads \ {t} : x'[u] = x[u]
    BY <1>1, <1>2, <1>3 DEF Receive
  <1>5. /\ Head(p) = p[1] /\ Len(p) \in Nat \ {0} /\ Len(Tail(p)) = Len(p) - 1
        /\ \A i \in 1..Len(Tail(p)) : Tail(p)[i] = p[i + 1]
    BY <1>4, HeadTailProperties, EmptySeq, LenProperties
  <1>6. \A l \in Pipes : Len(pipe'[l]) <= Capacity
    <2>1. \A l \in Pipes : Len(pipe[l]) <= Capacity
      BY DEF Bounded
    <2>2. Len(pipe'[t - 1]) <= Capacity
      BY <1>1, <1>2, <1>3, <1>4, <1>5, <2>1
    <2> QED BY <1>4, <2>1, <2>2
  <1> QED BY <1>3, <1>4, <1>5, <1>6 DEF Take

\* What new returns is not live yet.
LEMMA NewIsFresh ==
  ASSUME Base, AllMade, NEW t \in Threads, NEW type, NEW ws, Allocate(t, New(t, type, ws))
  PROVE  /\ New(t, type, ws).id \notin live /\ live' = live \cup {New(t, type, ws).id}
         /\ \A i \in live' : \E u \in Threads, k \in Nat : i = <<u, k>> /\ k <= allocated'[u]
  <1>1. allocated \in [Threads -> Nat]
    BY DEF Base, Objects
  <1>2. /\ live' = live \cup {New(t, type, ws).id} /\ New(t, type, ws).id = <<t, allocated[t] + 1>>
        /\ allocated' = [allocated EXCEPT ![t] = allocated[t] + 1]
    BY <1>1 DEF Allocate, New
  <1>3. <<t, allocated[t] + 1>> \notin live
    BY <1>1 DEF AllMade
  <1>4. ASSUME NEW i \in live'
        PROVE  \E u \in Threads, k \in Nat : i = <<u, k>> /\ k <= allocated'[u]
    <2>1. CASE i \in live
      <3>1. PICK u \in Threads, k \in Nat : i = <<u, k>> /\ k <= allocated[u]
        BY <2>1 DEF AllMade
      <3>2. k <= allocated'[u]
        BY <1>1, <1>2, <3>1
      <3> QED BY <3>1, <3>2
    <2>2. CASE i = <<t, allocated[t] + 1>>
      <3>1. allocated[t] + 1 \in Nat /\ allocated'[t] = allocated[t] + 1
        BY <1>1, <1>2
      <3> QED BY <2>2, <3>1
    <2> QED BY <1>2, <2>1, <2>2
  <1> QED BY <1>2, <1>3, <1>4

LEMMA InitOwned == Init => Owned
  <1> SUFFICES ASSUME Init PROVE Owned
    OBVIOUS
  <1>1. Base /\ N \in Nat /\ Capacity \in Nat
    BY InitBase, PipelineAssumption DEF Base, Control
  <1>2. \A k \in Pipes : pipe[k] = <<>> /\ Len(pipe[k]) = 0 /\ 1..Len(pipe[k]) = {}
    BY DEF Init
  <1>3. UseX = {0} /\ UseY = {} /\ x[0].id = <<0, 1>> /\ live = {<<0, 1>>}
    <2>1. \A t \in Threads : UsesX(t) <=> t = 0
      BY DEF Init, UsesX
    <2>2. \A t \in Threads : ~UsesY(t)
      BY DEF Init, UsesY
    <2>3. 0 \in Threads
      BY <1>1
    <2> QED BY <2>1, <2>2, <2>3 DEF UseX, UseY, Init
  <1>4. Bounded
    BY <1>1, <1>2 DEF Bounded
  <1>5. AllMade
    <2>1. 0 \in Threads /\ allocated[0] = 1
      BY <1>1 DEF Init
    <2> QED BY <1>3, <2>1 DEF AllMade
  <1>6. Owns(UseX, UseY, Pipes, x, y, pipe, live)
    BY <1>2, <1>3 DEF Owns, Each, EachSent, Apart, NotSent, Somewhere
  <1> QED BY <1>4, <1>5, <1>6 DEF Owned

LEMMA StepOwned ==
  ASSUME Base, Owned, [Next]_vars
  PROVE  Owned'
  <1>0. /\ N \in Nat /\ Main \in Threads /\ 0 \in Threads /\ 0 \in Pipes /\ N \in Pipes
        /\ \A t \in Module : t \in Threads /\ t \in Pipes /\ t \in 1..Main /\ t # Main /\ t # 0
        /\ \A t \in 1..Main : t \in Threads /\ t - 1 \in Pipes /\ t # 0
        /\ Main \in 1..Main /\ Main # 0 /\ Main \notin Module /\ 0 \notin Module
    BY DEF Base, Control
  <1>1. UNCHANGED data
    BY DataKept
  <1>2. UNCHANGED <<N, Threads, Pipes, Module, Main>> /\ \A t : kind(t)' = kind(t)
    BY <1>1 DEF N, kind
  <1>3. /\ x \in [Threads -> Object] /\ y \in [Threads -> Object]
        /\ pipe \in [Pipes -> Seq(Object)] /\ allocated \in [Threads -> Nat]
    BY DEF Base, Objects
  <1>4. Bounded /\ AllMade /\ Owns(UseX, UseY, Pipes, x, y, pipe, live)
    BY DEF Owned
  <1> DEFINE BoundedThen == \A k \in Pipes : Len(pipe'[k]) <= Capacity
             MadeThen == \A i \in live' : \E t \in Threads, k \in Nat :
                            i = <<t, k>> /\ k <= allocated'[t]
             OwnsThen == Owns(UseX', UseY', Pipes, x', y', pipe', live')
             OwnedThen == BoundedThen /\ MadeThen /\ OwnsThen
  <1> SUFFICES OwnedThen
    BY <1>2 DEF Owned, Bounded, AllMade
  <1>5. pipe' = pipe => BoundedThen
    BY <1>4 DEF Bounded
  <1>6. live' \subseteq live /\ allocated' = allocated => MadeThen
    BY <1>4 DEF AllMade
  <1> HIDE DEF BoundedThen, MadeThen
  \* The classes of steps.
  <1>7. ASSUME UseX' = UseX, UseY' = UseY, UNCHANGED <<pipe, live, allocated>>,
               \A t \in UseX : x'[t].id = x[t].id, \A t \in UseY : y'[t].id = y[t].id
        PROVE  OwnedThen
    <2>1. Owns(UseX, UseY, Pipes, x', y', pipe, live)
      BY <1>4, <1>7, Unused, ZenonT(80)
    <2> QED BY <1>5, <1>6, <1>7, <2>1
  <1>8. ASSUME NEW t \in 1..Main, Receive(t), t \notin UseX, UseX' = UseX \cup {t}, UseY' = UseY,
               UNCHANGED <<y, live, allocated>>
        PROVE  OwnedThen
    <2>1. /\ Take(Pipes, pipe, pipe', t - 1, x'[t]) /\ BoundedThen
          /\ \A u \in Threads \ {t} : x'[u] = x[u]
      BY <1>4, <1>8, ReceiveTakes DEF BoundedThen
    <2>2. \A u \in UseX : x'[u] = x[u]
      BY <1>8, <2>1 DEF UseX
    <2>3. PICK k \in Pipes : k = t - 1
      BY <1>0
    <2>4. Take(Pipes, pipe, pipe', k, x'[t])
      BY <2>1, <2>3
    <2>5. Owns(UseX \cup {t}, UseY, Pipes, x', y, pipe', live)
      BY <1>4, <1>8, <2>2, <2>4, Taken, ZenonT(80)
    <2> QED BY <1>6, <1>8, <2>1, <2>5
  <1>9. ASSUME NEW t \in Module, Send(t, y[t]), t \in UseY, UseX' = UseX, UseY' = UseY \ {t},
               UNCHANGED <<x, y, live, allocated>>
        PROVE  OwnedThen
    <2>1. Put(Pipes, pipe, pipe', t, y[t]) /\ BoundedThen /\ t \in Pipes
      BY <1>0, <1>4, <1>9, SendPuts DEF BoundedThen
    <2>2. Owns(UseX, UseY \ {t}, Pipes, x, y, pipe', live)
      BY <1>4, <1>9, <2>1, Given, ZenonT(80)
    <2> QED BY <1>6, <1>9, <2>1, <2>2
  <1>10. ASSUME NEW t \in Module, NEW ws, Result(t, ws), t \notin UseY, UseX' = UseX,
                UseY' = UseY \cup {t}, UNCHANGED <<x, pipe>>
         PROVE  OwnedThen
    <2>1. t \in Threads /\ Allocate(t, New(t, Writes(kind(t)), ws))
          /\ y'[t] = New(t, Writes(kind(t)), ws) /\ \A u \in Threads \ {t} : y'[u] = y[u]
      BY <1>0, <1>3, <1>10 DEF Result
    <2>2. y'[t].id \notin live /\ live' = live \cup {y'[t].id} /\ MadeThen
      BY <1>4, <2>1, NewIsFresh DEF MadeThen
    <2>3. \A u \in UseY : y'[u] = y[u]
      BY <1>10, <2>1 DEF UseY
    <2>4. Owns(UseX, UseY \cup {t}, Pipes, x, y', pipe, live \cup {y'[t].id})
      BY <1>4, <1>10, <2>2, <2>3, Made, ZenonT(80)
    <2> QED BY <1>5, <1>10, <2>2, <2>4
  <1>11. ASSUME NEW t \in 1..Main, t \in UseX, UseX' = UseX \ {t}, UseY' = UseY,
                live' = live \ {x[t].id}, UNCHANGED <<x, y, pipe, allocated>>
         PROVE  OwnedThen
    <2>1. Owns(UseX \ {t}, UseY, Pipes, x, y, pipe, live \ {x[t].id})
      BY <1>4, <1>11, Deleted, ZenonT(80)
    <2> QED BY <1>5, <1>6, <1>11, <2>1
  <1> HIDE DEF OwnsThen
  \* A step of t neither before nor after which its pointers are used.
  <1>12. ASSUME NEW t \in Threads, NEW from, NEW to, At(t, from, to),
                UsesX(t)' <=> UsesX(t), UsesY(t)' <=> UsesY(t),
                UNCHANGED <<pipe, live, allocated>>,
                \A u \in UseX : x'[u].id = x[u].id, \A u \in UseY : y'[u].id = y[u].id
         PROVE  OwnedThen
    <2>1. UseX' = UseX /\ UseY' = UseY
      BY <1>1, <1>12, UsesMove DEF UseX, UseY
    <2> QED BY <1>7, <1>12, <2>1
  <1>20. CASE GetLine
    <2>1. At(0, "getline", "send") /\ UNCHANGED <<y, pipe, live, allocated>>
      BY <1>20 DEF GetLine
    <2>2. (UsesX(0)' <=> UsesX(0)) /\ (UsesY(0)' <=> UsesY(0))
      BY <1>0, <1>2 DEF UsesX, UsesY
    <2>3. \A u \in UseX : x'[u].id = x[u].id
      <3>1. x' = [x EXCEPT ![0] = [x[0] EXCEPT !.words = Line(lines + 1)]]
        BY <1>3, <1>20 DEF GetLine
      <3>2. \A w : \A o \in Object : [o EXCEPT !.words = w].id = o.id
        BY DEF Object
      <3> QED BY <1>0, <1>3, <3>1, <3>2 DEF UseX
    <2> QED BY <1>0, <1>12, <2>1, <2>2, <2>3
  <1>21. CASE SendLine
    <2>1. /\ At(0, "send", "getline") /\ Send(0, x[0]) /\ Allocate(0, New(0, "wstring", <<>>))
          /\ x'[0] = New(0, "wstring", <<>>) /\ \A u \in Threads \ {0} : x'[u] = x[u] /\ y' = y
      BY <1>0, <1>3, <1>21 DEF SendLine
    <2>2. 0 \in UseX /\ UseX' = UseX /\ UseY' = UseY
      <3>1. UsesX(0) /\ UsesX(0)' /\ ~UsesY(0) /\ ~UsesY(0)'
        BY <1>0, <1>2 DEF UsesX, UsesY
      <3>2. 0 \in UseX /\ 0 \notin UseY
        BY <1>0, <3>1 DEF UseX, UseY
      <3>3. UseX' = UseX \cup {0} /\ UseY' = UseY \ {0}
        BY <1>0, <1>1, <2>1, <3>1, UsesMove
      <3> QED BY <3>2, <3>3
    <2>3. x'[0].id \notin live /\ live' = live \cup {x'[0].id} /\ MadeThen
      BY <1>0, <1>4, <2>1, NewIsFresh DEF MadeThen
    <2>4. Put(Pipes, pipe, pipe', 0, x[0]) /\ BoundedThen
      BY <1>0, <1>4, <2>1, SendPuts DEF BoundedThen
    <2>5. \A u \in UseX \ {0} : x'[u] = x[u]
      BY <2>1 DEF UseX
    <2>6. Owns(UseX, UseY, Pipes, x', y, pipe', live \cup {x'[0].id})
      BY <1>0, <1>4, <2>2, <2>3, <2>4, <2>5, GivenForNew, ZenonT(80)
    <2>7. y' = y
      BY <1>21 DEF SendLine
    <2> QED BY <2>2, <2>3, <2>4, <2>6, <2>7 DEF OwnsThen
  <1>22. CASE EndOfText
    <2>1. At(0, "getline", "done") /\ UNCHANGED <<x, y, pipe, live, allocated>>
      BY <1>22 DEF EndOfText, CloseWrite
    <2>2. (UsesX(0)' <=> UsesX(0)) /\ (UsesY(0)' <=> UsesY(0))
      BY <1>0, <1>2 DEF UsesX, UsesY
    <2> QED BY <1>0, <1>12, <2>1, <2>2
  <1>23. ASSUME NEW t \in Module, Processor(t) PROVE OwnedThen
    <2>0. t \in Threads /\ t \in 1..Main /\ t # 0 /\ pc \in [Threads -> PCs]
      BY <1>0 DEF Base, Control
    \* What t uses, by where it is.
    <2>1. /\ UsesX(t) <=> pc[t] \in {"work", "delete", "print"}
                           \/ (pc[t] = "send" /\ kind(t) # "processor")
          /\ UsesY(t) <=> pc[t] \in {"send", "send_flushed"}
          /\ UsesX(t)' <=> pc'[t] \in {"work", "delete", "print"}
                            \/ (pc'[t] = "send" /\ kind(t) # "processor")
          /\ UsesY(t)' <=> pc'[t] \in {"send", "send_flushed"}
      BY <1>2, <2>0 DEF UsesX, UsesY
    <2>2. (t \in UseX <=> UsesX(t)) /\ (t \in UseY <=> UsesY(t))
      BY <2>0 DEF UseX, UseY
    <2>3. ASSUME NEW from, NEW to, At(t, from, to)
          PROVE  /\ pc[t] = from /\ pc'[t] = to
                 /\ UseX' = IF UsesX(t)' THEN UseX \cup {t} ELSE UseX \ {t}
                 /\ UseY' = IF UsesY(t)' THEN UseY \cup {t} ELSE UseY \ {t}
      BY <1>1, <2>0, <2>3, UsesMove
    <2>4. CASE ReceiveObject(t)
      <3>1. pc[t] = "receive" /\ pc'[t] = "work" /\ Receive(t) /\ UNCHANGED <<y, live, allocated>>
        BY <2>3, <2>4 DEF ReceiveObject
      <3>2. t \notin UseX /\ t \notin UseY
        BY <2>1, <2>2, <3>1
      <3>3. UseX' = UseX \cup {t} /\ UseY' = UseY \ {t}
        BY <2>1, <2>3, <2>4, <3>1 DEF ReceiveObject
      <3> QED BY <1>8, <2>0, <3>1, <3>2, <3>3
    <2>5. CASE ReceiveEOF(t)
      <3>1. /\ pc[t] = "receive" /\ pc'[t] = "close_in" /\ At(t, "receive", "close_in")
            /\ UNCHANGED <<y, pipe, live, allocated>> /\ \A u \in Threads \ {t} : x'[u] = x[u]
        BY <1>3, <2>0, <2>3, <2>5 DEF ReceiveEOF, ReceiveNULL
      <3>2. ~UsesX(t) /\ ~UsesY(t) /\ ~UsesX(t)' /\ ~UsesY(t)'
        BY <2>1, <3>1
      <3>3. \A u \in UseX : x'[u].id = x[u].id
        BY <2>2, <3>1, <3>2 DEF UseX
      <3> QED BY <1>12, <2>0, <3>1, <3>2, <3>3
    <2>6. CASE Tokenize(t) \/ SplitList(t)
      <3>1. /\ At(t, "work", "send") /\ kind(t) # "processor" /\ UNCHANGED <<x, pipe>>
            /\ \E ws : Result(t, ws)
        BY <2>6 DEF Tokenize, SplitList
      <3>2. UsesX(t) /\ ~UsesY(t) /\ UsesX(t)' /\ UsesY(t)'
        BY <2>1, <2>3, <3>1
      <3>3. UseX' = UseX /\ UseY' = UseY \cup {t} /\ t \notin UseY
        BY <2>2, <2>3, <3>1, <3>2
      <3> QED BY <1>10, <3>1, <3>3
    <2>7. CASE AnalyzeSentences(t)
      <3>1. /\ At(t, "work", "send") /\ kind(t) = "processor"
            /\ UNCHANGED <<x, pipe, live, allocated>>
            /\ y'[t] = x[t] /\ \A u \in Threads \ {t} : y'[u] = y[u]
        BY <1>3, <2>0, <2>7 DEF AnalyzeSentences
      <3>2. UsesX(t) /\ ~UsesY(t) /\ ~UsesX(t)' /\ UsesY(t)'
        BY <2>1, <2>3, <3>1
      <3>3. UseX' = UseX \ {t} /\ UseY' = UseY \cup {t} /\ t \in UseX /\ t \notin UseY
        BY <2>2, <2>3, <3>1, <3>2
      <3>4. \A u \in UseY : y'[u] = y[u]
        BY <3>1, <3>3 DEF UseY
      <3>5. Owns(UseX \ {t}, UseY \cup {t}, Pipes, x, y', pipe, live)
        BY <1>4, <3>1, <3>3, <3>4, PassedOn, ZenonT(80)
      <3>6. BoundedThen /\ MadeThen
        BY <1>5, <1>6, <3>1
      <3> QED BY <3>1, <3>3, <3>5, <3>6 DEF OwnsThen
    <2>8. CASE SendResult(t)
      <3>1. PICK to \in {"receive", "delete"} :
              At(t, "send", to) /\ (kind(t) = "processor" <=> to = "receive")
        BY <2>8 DEF SendResult
      <3>2. Send(t, y[t]) /\ UNCHANGED <<x, y, live, allocated>>
        BY <2>8 DEF SendResult
      <3>3. (UsesX(t) <=> UsesX(t)') /\ UsesY(t) /\ ~UsesY(t)'
        BY <2>1, <2>3, <3>1
      <3>4. UseX' = UseX /\ UseY' = UseY \ {t} /\ t \in UseY
        BY <2>2, <2>3, <3>1, <3>3
      <3> QED BY <1>9, <3>2, <3>4
    <2>9. CASE DeleteInput(t)
      <3>1. /\ At(t, "delete", "receive") /\ UNCHANGED <<x, y, pipe, allocated>>
            /\ live' = live \ {x[t].id}
        BY <2>9 DEF DeleteInput
      <3>2. UsesX(t) /\ ~UsesY(t) /\ ~UsesX(t)' /\ ~UsesY(t)'
        BY <2>1, <2>3, <3>1
      <3>3. UseX' = UseX \ {t} /\ UseY' = UseY /\ t \in UseX
        BY <2>2, <2>3, <3>1, <3>2
      <3> QED BY <1>11, <2>0, <3>1, <3>3
    <2>10. CASE CloseInput(t) \/ CloseOutput(t)
      <3>1. PICK from \in {"close_in", "close_out"}, to \in {"flush", "close_out", "done"} :
              At(t, from, to)
        BY <2>10 DEF CloseInput, CloseOutput
      <3>2. UNCHANGED <<x, y, pipe, live, allocated>>
        BY <2>10 DEF CloseInput, CloseOutput, CloseRead, CloseWrite
      <3>3. ~UsesX(t) /\ ~UsesY(t) /\ ~UsesX(t)' /\ ~UsesY(t)'
        BY <2>1, <2>3, <3>1
      <3> QED BY <1>12, <2>0, <3>1, <3>2, <3>3
    <2>11. CASE FlushSplitter(t)
      <3>1. At(t, "flush", "send_flushed") /\ Result(t, buffer) /\ UNCHANGED <<x, pipe>>
        BY <2>11 DEF FlushSplitter
      <3>2. ~UsesX(t) /\ ~UsesY(t) /\ ~UsesX(t)' /\ UsesY(t)'
        BY <2>1, <2>3, <3>1
      <3>3. UseX' = UseX /\ UseY' = UseY \cup {t} /\ t \notin UseY
        BY <2>2, <2>3, <3>1, <3>2
      <3> QED BY <1>10, <3>1, <3>3
    <2>12. CASE SendFlushed(t)
      <3>1. At(t, "send_flushed", "close_out") /\ Send(t, y[t])
            /\ UNCHANGED <<x, y, live, allocated>>
        BY <2>12 DEF SendFlushed
      <3>2. ~UsesX(t) /\ UsesY(t) /\ ~UsesX(t)' /\ ~UsesY(t)'
        BY <2>1, <2>3, <3>1
      <3>3. UseX' = UseX /\ UseY' = UseY \ {t} /\ t \in UseY
        BY <2>2, <2>3, <3>1, <3>2
      <3> QED BY <1>9, <3>1, <3>3
    <2> QED BY <1>23, <2>4, <2>5, <2>6, <2>7, <2>8, <2>9, <2>10, <2>11, <2>12 DEF Processor
  \* main.
  <1>13. ASSUME NEW t \in 1..Main, t = Main
         PROVE  /\ t \in Threads /\ ~UsesY(t) /\ ~UsesY(t)'
                /\ pc[t] \in {"work", "delete", "print"} => UsesX(t)
                /\ pc'[t] \in {"work", "delete", "print"} => UsesX(t)'
                /\ pc[t] \in {"receive", "done"} => ~UsesX(t)
                /\ pc'[t] \in {"receive", "done"} => ~UsesX(t)'
                /\ t \in UseX <=> UsesX(t)
                /\ t \notin UseY
    BY <1>0, <1>2, <1>13 DEF UsesX, UsesY, UseX, UseY
  <1>14. ASSUME NEW t \in 1..Main, t = Main, NEW from, NEW to, At(t, from, to)
         PROVE  /\ pc[t] = from /\ pc'[t] = to
                /\ UseX' = IF UsesX(t)' THEN UseX \cup {t} ELSE UseX \ {t}
                /\ UseY' = UseY
    <2>1. t \in Threads /\ ~UsesY(t)' /\ t \notin UseY
      BY <1>13, <1>14
    <2>2. UseY' = UseY \ {t}
      BY <1>1, <1>14, <2>1, UsesMove
    <2> QED BY <1>1, <1>14, <2>1, <2>2, UsesMove
  <1>15. ASSUME NEW t \in 1..Main, t = Main, MainReceive
         PROVE  OwnedThen
    <2>1. At(t, "receive", "print") /\ Receive(t) /\ UNCHANGED <<y, live, allocated>>
      BY <1>15 DEF MainReceive
    <2>2. t \notin UseX /\ UseX' = UseX \cup {t} /\ UseY' = UseY
      BY <1>13, <1>14, <1>15, <2>1
    <2> QED BY <1>8, <2>1, <2>2
  <1>16. ASSUME NEW t \in 1..Main, t = Main, PrintResults
         PROVE  OwnedThen
    <2>1. /\ At(t, "print", "receive") /\ live' = live \ {x[t].id}
          /\ UNCHANGED <<x, y, pipe, allocated>>
      BY <1>16 DEF PrintResults
    <2>2. t \in UseX /\ UseX' = UseX \ {t} /\ UseY' = UseY
      BY <1>13, <1>14, <1>16, <2>1
    <2> QED BY <1>11, <2>1, <2>2
  <1>17. ASSUME NEW t \in 1..Main, t = Main, Cleanup
         PROVE  OwnedThen
    <2>1. /\ At(t, "receive", "done") /\ UNCHANGED <<y, pipe, live, allocated>>
          /\ \A u \in Threads \ {t} : x'[u] = x[u]
      BY <1>3, <1>17 DEF Cleanup, ReceiveNULL
    <2>2. ~UsesX(t) /\ ~UsesX(t)' /\ t \notin UseX
      BY <1>13, <1>14, <1>17, <2>1
    <2>3. \A u \in UseX : x'[u].id = x[u].id
      BY <2>1, <2>2 DEF UseX
    <2>4. t \in Threads /\ ~UsesY(t) /\ ~UsesY(t)'
      BY <1>13, <1>17
    <2> QED BY <1>12, <2>1, <2>2, <2>3, <2>4
  <1>24. CASE UNCHANGED vars
    <2>1. UseX' = UseX /\ UseY' = UseY /\ UNCHANGED <<x, y, pipe, live, allocated>>
      BY <1>2, <1>24 DEF UseX, UseY, UsesX, UsesY, vars
    <2> QED BY <1>7, <2>1
  <1>25. CASE MainThread
    BY <1>0, <1>15, <1>16, <1>17, <1>25 DEF MainThread
  <1> QED BY <1>20, <1>21, <1>22, <1>23, <1>24, <1>25 DEF Next, Reader, Terminated

\* No object is freed while a thread or a pipe still refers to it, none is freed
\* twice or lost, and none is in the hands of two threads.
THEOREM MemoryOwnedOnce == Spec => []OwnedOnce
  <1>1. Base /\ Owned /\ [Next]_vars => Owned'
    BY StepOwned
  <1>2. Base /\ Owned => OwnedOnce
    BY OwnedIsOwnedOnce
  <1> QED BY AlwaysBase, InitOwned, <1>1, <1>2, PTL DEF Spec
=============================================================================
