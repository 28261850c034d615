------------------------------ MODULE Session ------------------------------
(***************************************************************************)
(* One session of analyzer_client with a worker of the server: the client  *)
(* sends the lines of a text one by one and waits for one message after    *)
(* each; the worker runs the main loop of main.cc.  A word is              *)
(* <<line, position>>, and the sentences that one call of the splitter     *)
(* returns are kept together, since only their words matter here.          *)
(***************************************************************************)
EXTENDS Formats, SequencesExt

CONSTANTS Cases,  \* the sessions: options of the server, and the text as numbers
                  \* of words per line (0 for an empty line)
          Batch   \* tokens after which a tokenized input is split: 10 in main.cc

OptionSet == [InputFormat : {PLAIN, TOKEN, SPLITTED}, OutputFormat : OutputFormats \ {IDENT},
              AlwaysFlush : BOOLEAN, Coref : BOOLEAN]

ASSUME SessionAssumption ==
  /\ Cases \subseteq [options : OptionSet, text : Seq(Nat)]
  /\ \A c \in Cases : /\ c.options.InputFormat < c.options.OutputFormat
                      /\ c.options.Coref => c.options.OutputFormat > TAGGED
  /\ Batch \in Nat

VARIABLES options, text,                 \* of this session
          client, lines, printed,        \* client: where it is, lines sent, words printed
          toServer, shut,                \* what the client wrote, and did it shut down?
          toClient, closed,              \* what the worker wrote, and did it close?
          worker,                        \* where the worker is
          av, sentence, ls, par, doc,    \* its local variables
          buffer,                        \* words retained by the splitter
          outbox                         \* messages of the current output, not yet written

case    == <<options, text>>
local   == <<av, sentence, par, doc, buffer, ls>>
vars    == <<case, client, lines, printed, toServer, shut, toClient, closed, worker, local, outbox>>

Init == /\ \E c \in Cases : options = c.options /\ text = c.text
        /\ client = "sync" /\ lines = 0 /\ printed = <<>>
        /\ toServer = <<>> /\ shut = FALSE /\ toClient = <<>> /\ closed = FALSE
        /\ worker = "read" /\ outbox = <<>>
        /\ av = <<>> /\ sentence = <<>> /\ ls = <<>> /\ par = <<>> /\ doc = <<>> /\ buffer = <<>>

Reset    == [kind |-> "reset", words |-> <<>>]         \* RESET_STATS
Ready    == [kind |-> "ready", words |-> <<>>]         \* FL-SERVER-READY
Text(ws) == [kind |-> "text",  words |-> ws]

\* The words a line of the text stands for, by input format: an empty line is a
\* token of its own in a tokenized text, and no word in the other formats.
Line(n) == [j \in 1..(CASE options.InputFormat = PLAIN -> text[n]
                        [] options.InputFormat = TOKEN -> 1
                        [] OTHER -> IF text[n] = 0 THEN 0 ELSE 1) |-> <<n, j>>]

-----------------------------------------------------------------------------
(* socket.h.  read_message takes all that has arrived and returns it up to  *)
(* its first NUL: of several messages, the first one; the others are lost.  *)
(* At the end of the stream it returns nothing.                             *)

ReadMessage(channel, m, left) ==
  /\ channel # <<>>
  /\ m = Head(channel)
  /\ \E n \in 1..Len(channel) : left = SubSeq(channel, n + 1, Len(channel))

-----------------------------------------------------------------------------
(* analyzer_client.cc                                                       *)

ServerSide == <<closed, worker, local, outbox>>

Sync ==
  /\ client = "sync" /\ client' = "synced"
  /\ toServer' = Append(toServer, Reset)
  /\ UNCHANGED <<case, lines, printed, shut, toClient, ServerSide>>

Synced ==
  /\ client = "synced"
  /\ ReadMessage(toClient, Head(toClient), toClient')
  /\ client' = IF Head(toClient) = Ready THEN "getline" ELSE "closed"
  /\ UNCHANGED <<case, lines, printed, toServer, shut, ServerSide>>

SendLine ==
  /\ client = "getline" /\ client' = "answer"
  /\ lines < Len(text) /\ lines' = lines + 1
  /\ toServer' = Append(toServer, Text(Line(lines + 1)))
  /\ UNCHANGED <<case, printed, shut, toClient, ServerSide>>

GetAnswer ==
  /\ client = "answer" /\ client' = "getline"
  /\ ReadMessage(toClient, Head(toClient), toClient')
  /\ printed' = printed \o Head(toClient).words
  /\ UNCHANGED <<case, lines, toServer, shut, ServerSide>>

Shutdown ==
  /\ client = "getline" /\ client' = "final"
  /\ lines = Len(text)
  /\ shut' = TRUE
  /\ UNCHANGED <<case, lines, printed, toServer, toClient, ServerSide>>

GetFinal ==
  /\ client = "final" /\ client' = "closed"
  /\ \/ /\ ReadMessage(toClient, Head(toClient), toClient')
        /\ printed' = printed \o Head(toClient).words
     \/ toClient = <<>> /\ closed /\ UNCHANGED <<toClient, printed>>
  /\ UNCHANGED <<case, lines, toServer, shut, ServerSide>>

Client == Sync \/ Synced \/ SendLine \/ GetAnswer \/ Shutdown \/ GetFinal

-----------------------------------------------------------------------------
(* The worker.  Each line is answered by what Output puts in the outbox.    *)

ClientSide == <<case, client, lines, printed, shut>>

\* What splitter::split may return and retain, given the words v.
Splits(v, flush) ==
  IF flush THEN {[returned |-> IF buffer \o v = <<>> THEN <<>> ELSE <<buffer \o v>>,
                  retained |-> <<>>]}
  ELSE {[returned |-> <<>>, retained |-> buffer \o v]} \cup
       {[returned |-> <<buffer \o SubSeq(v, 1, n)>>, retained |-> SubSeq(v, n + 1, Len(v))]
          : n \in 1..Len(v)}

OutputTokens(v)    == [n \in DOMAIN v |-> Text(<<v[n]>>)]
\* Faults: an acknowledgement after each answer; none when there is no answer.
AlwaysAck(s) == IF s = <<>> THEN <<Ready>> ELSE <<Text(FlattenSeq(s)), Ready>>
NeverAck(s)  == IF s = <<>> THEN <<>> ELSE <<Text(FlattenSeq(s))>>
OutputSentences(s) == IF s = <<>> THEN <<Ready>> ELSE <<Text(FlattenSeq(s))>>

\* Write the messages, then go on; writing before the connection is closed is a
\* place of its own.
Goto(messages, next) ==
  /\ outbox' = messages
  /\ worker' = IF messages = <<>> THEN next ELSE IF next = "close" THEN "write_last" ELSE "write"

ReadLine(m) ==
  /\ worker = "read" /\ ReadMessage(toServer, m, toServer')
  /\ UNCHANGED <<ClientSide, toClient, closed>>

Request == Head(toServer)
Reading(format) == Request.kind = "text" /\ ~options.Coref /\ options.InputFormat = format

ResetStats ==
  /\ ReadLine(Request) /\ Request = Reset
  /\ Goto(<<Ready>>, "read") /\ UNCHANGED local

\* An empty line ends a paragraph, and the paragraph goes to the document.
ProcessLineCoref ==
  /\ ReadLine(Request) /\ Request.kind = "text" /\ options.Coref
  /\ LET blank == Request.words = <<>> IN
     \E s \in Splits(IF blank THEN av ELSE Request.words, blank) :
       LET p == par \o s.returned IN
       /\ buffer' = s.retained
       /\ par' = IF blank THEN <<>> ELSE p
       /\ doc' = IF blank /\ p # <<>> THEN Append(doc, p) ELSE doc
  /\ av' = <<>> /\ ls' = <<>> /\ UNCHANGED sentence
  /\ Goto(<<Ready>>, "read")

\* Plain text in, tokens out.
TokenizeLine ==
  /\ ReadLine(Request) /\ Reading(PLAIN) /\ options.OutputFormat = TOKEN
  /\ av' = Request.words
  /\ UNCHANGED <<sentence, par, doc, buffer, ls>>
  /\ Goto(OutputTokens(av'), "read")

\* Plain text in, sentences out: AnalyzeText.
AnalyzeLine ==
  /\ ReadLine(Request) /\ Reading(PLAIN) /\ options.OutputFormat # TOKEN
  /\ \E s \in Splits(Request.words, options.AlwaysFlush) :
       ls' = s.returned /\ buffer' = s.retained
  /\ UNCHANGED <<av, sentence, par, doc>>
  /\ Goto(OutputSentences(ls'), "read")

\* Tokens accumulate in av until there are more than Batch; ls keeps its value.
AccumulateToken ==
  /\ ReadLine(Request) /\ Reading(TOKEN) /\ Len(av) + 1 <= Batch
  /\ av' = av \o Request.words
  /\ UNCHANGED <<sentence, par, doc, buffer, ls>>
  /\ Goto(OutputSentences(ls), "read")

\* Fault: the tokens are not cleared for the next batch.
AnalyzeBatchAgain ==
  /\ ReadLine(Request) /\ Reading(TOKEN) /\ Len(av) + 1 > Batch
  /\ \E s \in Splits(av \o Request.words, FALSE) : ls' = s.returned /\ buffer' = s.retained
  /\ av' = av \o Request.words
  /\ UNCHANGED <<sentence, par, doc>>
  /\ Goto(OutputSentences(ls'), "read")

AnalyzeBatch ==
  /\ ReadLine(Request) /\ Reading(TOKEN) /\ Len(av) + 1 > Batch
  /\ \E s \in Splits(av \o Request.words, FALSE) : ls' = s.returned /\ buffer' = s.retained
  /\ av' = <<>>
  /\ UNCHANGED <<sentence, par, doc>>
  /\ Goto(OutputSentences(ls'), "read")

AddWord ==
  /\ ReadLine(Request) /\ Reading(SPLITTED) /\ Request.words # <<>>
  /\ sentence' = sentence \o Request.words
  /\ ls' = <<>>
  /\ UNCHANGED <<av, par, doc, buffer>>
  /\ Goto(OutputSentences(ls'), "read")

\* A blank line: the sentence is added to what ls holds, and analyzed.
EndSentence ==
  /\ ReadLine(Request) /\ Reading(SPLITTED) /\ Request.words = <<>>
  /\ ls' = Append(ls, sentence)
  /\ sentence' = <<>>
  /\ UNCHANGED <<av, par, doc, buffer>>
  /\ Goto(OutputSentences(ls'), "read")

EndOfText == worker = "read" /\ toServer = <<>> /\ shut
             /\ UNCHANGED <<ClientSide, toServer, toClient, closed>>

\* The document ends: one output for each paragraph.
PostProcessCoreference ==
  /\ EndOfText /\ options.Coref
  /\ \E s \in Splits(av, TRUE) :
       /\ ls' = s.returned /\ buffer' = s.retained
       /\ par' = par \o s.returned /\ doc' = Append(doc, par')
  /\ UNCHANGED <<av, sentence>>
  /\ Goto(FlattenSeq([k \in DOMAIN doc' |-> OutputSentences(doc'[k])]), "close")

FlushTokens ==
  /\ EndOfText /\ ~options.Coref /\ options.InputFormat # SPLITTED /\ options.OutputFormat = TOKEN
  /\ UNCHANGED local
  /\ Goto(OutputTokens(av), "close")

FlushSplitter ==
  /\ EndOfText /\ ~options.Coref /\ options.InputFormat # SPLITTED /\ options.OutputFormat # TOKEN
  /\ \E s \in Splits(av, TRUE) : ls' = s.returned /\ buffer' = s.retained
  /\ UNCHANGED <<av, sentence, par, doc>>
  /\ Goto(OutputSentences(ls'), "close")

FlushSentence ==
  /\ EndOfText /\ ~options.Coref /\ options.InputFormat = SPLITTED
  /\ ls' = IF sentence = <<>> THEN ls ELSE Append(ls, sentence)
  /\ UNCHANGED <<av, sentence, par, doc, buffer>>
  /\ Goto(IF sentence = <<>> THEN <<>> ELSE OutputSentences(ls'), "close")

\* write_message; what is written after the client has closed is discarded.
WriteMessage ==
  /\ worker \in {"write", "write_last"}
  /\ toClient' = IF client = "closed" THEN toClient ELSE Append(toClient, Head(outbox))
  /\ outbox' = Tail(outbox)
  /\ worker' = IF Tail(outbox) # <<>> THEN worker ELSE IF worker = "write" THEN "read" ELSE "close"
  /\ UNCHANGED <<ClientSide, toServer, closed, local>>

CloseWorker ==
  /\ worker = "close" /\ worker' = "ended"
  /\ closed' = TRUE
  /\ UNCHANGED <<ClientSide, toServer, toClient, local, outbox>>

Flush  == PostProcessCoreference \/ FlushTokens \/ FlushSplitter \/ FlushSentence
Answer == \/ ResetStats \/ ProcessLineCoref \/ TokenizeLine \/ AnalyzeLine
          \/ AccumulateToken \/ AnalyzeBatch \/ AddWord \/ EndSentence
Worker == Answer \/ Flush \/ WriteMessage \/ CloseWorker

Terminated == client = "closed" /\ worker = "ended" /\ UNCHANGED vars

Next == Client \/ Worker \/ Terminated

\* Both processes run; one that waits for a message has no step until it arrives.
Spec     == Init /\ [][Next]_vars
FairSpec == Spec /\ WF_vars(Client) /\ WF_vars(Worker)

-----------------------------------------------------------------------------
WordsOf(messages) == FlattenSeq([n \in DOMAIN messages |-> messages[n].words])
TextUpTo(n) == FlattenSeq([k \in 1..n |-> Line(k)])

\* The words the worker keeps for later; once it has flushed, nothing.
Kept == IF worker \in {"write_last", "close", "ended"} THEN <<>>
        ELSE FlattenSeq(FlattenSeq(doc)) \o FlattenSeq(par) \o buffer \o sentence \o
             av

\* Sessions whose lines are each answered by one message: token output has one
\* token per line, coreference one paragraph.
Answered(c) ==
  /\ c.options.OutputFormat = TOKEN => \A n \in DOMAIN c.text : c.text[n] = 1
  /\ c.options.Coref => \A n \in DOMAIN c.text : c.text[n] # 0

\* ... and whose answers repeat no sentence: a tokenized text of one batch at most,
\* a splitted text with no two empty lines in a row.
Followed(c) ==
  /\ Answered(c)
  /\ c.options.InputFormat = TOKEN /\ ~c.options.Coref => Len(c.text) <= Batch + 1
  /\ c.options.InputFormat = SPLITTED /\ ~c.options.Coref =>
       \A n \in 1..(Len(c.text) - 1) : c.text[n] # 0 \/ c.text[n + 1] # 0

\* Every word the client sent is in one place, and what it has printed is a
\* prefix of the text: no word is lost or printed twice.  Token output is the
\* exception: FlushTokens writes the tokens of the last line a second time.
InOrder == options.OutputFormat # TOKEN =>
  printed \o WordsOf(toClient) \o WordsOf(outbox) \o Kept \o WordsOf(toServer) = TextUpTo(lines)

\* A request or its answer, never more, is under way: read_message, which would
\* lose all but the first, never finds two messages.
LockStep == Len(toServer) + Len(toClient) + Len(outbox) <= 1

\* Each session comes to its end, with the whole text printed (token output may
\* repeat the last line): client and worker never wait for each other.
Completed ==
  <>(/\ client = "closed" /\ worker = "ended"
     /\ IF options.OutputFormat = TOKEN THEN IsPrefix(TextUpTo(Len(text)), printed)
                                       ELSE printed = TextUpTo(Len(text)))

\* The comment on SendACK: the client gets the acknowledgement when more data
\* is needed to send back an analysis.  An answer with words has some the
\* client has not been sent before.
AnswersAreNew ==
  \A n \in DOMAIN outbox : outbox[n].words # <<>> =>
     \E k \in DOMAIN outbox[n].words : outbox[n].words[k] \notin Range(printed)
=============================================================================
