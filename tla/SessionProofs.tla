---------------------------- MODULE SessionProofs ----------------------------
(***************************************************************************)
(* Client and worker in step, and the text in order, for every text that   *)
(* the client can follow, whatever its length and wherever the splitter    *)
(* ends its sentences.                                                     *)
(***************************************************************************)
EXTENDS Session, Flattening

Word    == Nat \X Nat
Words   == Seq(Word)
Sentences == Seq(Words)
Message == [kind : {"reset", "ready", "text"}, words : Words]

\* Nothing, or one message.
None(ch)    == ch = <<>>
Single(ch)  == \E m \in Message : ch = <<m>>
AtMost1(ch) == None(ch) \/ Single(ch)

\* The session is one of Cases.
Chosen == \E c \in Cases : options = c.options /\ text = c.text

Places == /\ client \in {"sync", "synced", "getline", "answer", "final", "closed"}
          /\ worker \in {"read", "write", "write_last", "close", "ended"}
          /\ lines \in 0..Len(text)
          /\ shut <=> client \in {"final", "closed"}
          /\ closed <=> worker = "ended"

\* One message is on its way from a request to the answer to it, and none while the
\* client has the turn.
Turns ==
  /\ AtMost1(toServer) /\ AtMost1(toClient) /\ AtMost1(outbox)
  /\ None(toServer) \/ (None(toClient) /\ None(outbox))
  /\ None(toClient) \/ None(outbox)
  /\ None(outbox) = (worker \notin {"write", "write_last"})
  /\ client \in {"sync", "getline"} => None(toServer) /\ None(toClient) /\ worker = "read"
  /\ client \in {"synced", "answer"} => worker \in {"read", "write"}
  /\ client \in {"final", "closed"} => None(toServer) /\ worker # "write"
  /\ client = "final" /\ worker = "read" => None(toClient)
  /\ client = "closed" => None(toClient) /\ worker \in {"close", "ended"}

\* The first message asks for a reset, and each other one is the line just sent.
Requests ==
  /\ client = "synced" => /\ toServer \in {<<>>, <<Reset>>}
                          /\ toClient \in {<<>>, <<Ready>>} /\ outbox \in {<<>>, <<Ready>>}
  /\ client = "answer" => lines # 0 /\ toServer \in {<<>>, <<Text(Line(lines))>>}

\* What keeps answers single: token by token output has one token in av, and a
\* document has the paragraph that is still open only.
Buffers ==
  /\ worker \in {"read", "write"} => doc = <<>>
  /\ options.OutputFormat = TOKEN => Len(av) <= 1
  /\ av \in Words /\ par \in Seq(Words) /\ ls \in Seq(Words)
  /\ buffer \in Words /\ sentence \in Words

Lock == Chosen /\ Places /\ Turns /\ Requests /\ Buffers

-----------------------------------------------------------------------------
(* What the parts of a step give.                                            *)

LEMMA OfCase ==
  ASSUME Chosen
  PROVE  /\ options \in OptionSet /\ text \in Seq(Nat) /\ Len(text) \in Nat
         /\ \A n \in 1..Len(text) : text[n] \in Nat
         /\ options.InputFormat \in {PLAIN, TOKEN, SPLITTED}
         /\ options.Coref \in BOOLEAN /\ options.AlwaysFlush \in BOOLEAN
         /\ options.InputFormat < options.OutputFormat
         /\ options.Coref => options.OutputFormat > TAGGED
  <1>1. PICK c \in Cases : options = c.options /\ text = c.text
    BY DEF Chosen
  <1>2. /\ c \in [options : OptionSet, text : Seq(Nat)]
        /\ c.options.InputFormat < c.options.OutputFormat
        /\ c.options.Coref => c.options.OutputFormat > TAGGED
    BY SessionAssumption
  <1>3. options \in OptionSet /\ text \in Seq(Nat)
    BY <1>1, <1>2
  <1>4. Len(text) \in Nat /\ \A n \in 1..Len(text) : text[n] \in Nat
    BY <1>3, LenProperties, ElementOfSeq
  <1> QED BY <1>1, <1>2, <1>3, <1>4 DEF OptionSet

LEMMA OfAnswered ==
  ASSUME Chosen, \A c \in Cases : Answered(c)
  PROVE  /\ options.OutputFormat = TOKEN => \A n \in 1..Len(text) : text[n] = 1
         /\ options.Coref => \A n \in 1..Len(text) : text[n] # 0
  <1>1. PICK c \in Cases : options = c.options /\ text = c.text
    BY DEF Chosen
  <1>2. DOMAIN text = 1..Len(text)
    BY OfCase, LenProperties
  <1> QED BY <1>1, <1>2 DEF Answered

LEMMA LineWords ==
  ASSUME Chosen, NEW n \in 1..Len(text)
  PROVE  /\ Line(n) \in Words
         /\ options.InputFormat = PLAIN => Len(Line(n)) = text[n]
         /\ options.InputFormat = TOKEN => Len(Line(n)) = 1
         /\ options.InputFormat = SPLITTED => Len(Line(n)) = IF text[n] = 0 THEN 0 ELSE 1
         /\ Line(n) = <<>> <=> Len(Line(n)) = 0
         /\ text[n] # 0 => Line(n) # <<>>
  <1> DEFINE k == CASE options.InputFormat = PLAIN -> text[n]
                    [] options.InputFormat = TOKEN -> 1
                    [] OTHER -> IF text[n] = 0 THEN 0 ELSE 1
  <1>1. /\ k \in Nat
        /\ options.InputFormat = PLAIN => k = text[n]
        /\ options.InputFormat = TOKEN => k = 1
        /\ options.InputFormat = SPLITTED => k = IF text[n] = 0 THEN 0 ELSE 1
        /\ text[n] # 0 => k # 0
    BY OfCase DEF PLAIN, TOKEN, SPLITTED
  <1>2. Line(n) = [j \in 1..k |-> <<n, j>>]
    BY DEF Line
  <1> HIDE DEF k
  <1>3. n \in Nat
    BY OfCase
  <1>4. Line(n) \in Words /\ Len(Line(n)) = k
    BY <1>1, <1>2, <1>3 DEF Words, Word
  <1>5. Line(n) = <<>> <=> Len(Line(n)) = 0
    BY <1>4, EmptySeq DEF Words
  <1> QED BY <1>1, <1>4, <1>5

\* read_message takes the only message there is.
LEMMA ReadOnly ==
  ASSUME NEW ch, NEW left, NEW m, AtMost1(ch), ReadMessage(ch, m, left)
  PROVE  /\ m \in Message /\ m = Head(ch) /\ ch = <<m>> /\ left = <<>>
  <1>1. PICK x \in Message : ch = <<x>>
    BY DEF AtMost1, None, Single, ReadMessage
  <1>2. Len(ch) = 1 /\ Head(ch) = x
    BY <1>1
  <1>3. PICK n \in 1..Len(ch) : left = SubSeq(ch, n + 1, Len(ch))
    BY DEF ReadMessage
  <1>4. n = 1
    BY <1>2, <1>3
  <1>5. left = SubSeq(ch, 2, 1)
    BY <1>2, <1>3, <1>4
  <1>6. left = <<>>
    BY <1>5, SubSeqEmpty
  <1> QED BY <1>1, <1>2, <1>6 DEF ReadMessage

\* An output is one message, with the words of its sentences.
LEMMA OutputOne ==
  ASSUME NEW s \in Seq(Words)
  PROVE  \E m \in Message : OutputSentences(s) = <<m>> /\ m.words = FlattenSeq(s)
  <1>1. CASE s = <<>>
    <2>1. Ready \in Message /\ Ready.words = <<>>
      BY EmptySeq DEF Ready, Message, Words
    <2> QED BY <1>1, <2>1, FlattenEmpty DEF OutputSentences
  <1>2. CASE s # <<>>
    <2>1. FlattenSeq(s) \in Words
      BY FlattenType DEF Words
    <2>2. Text(FlattenSeq(s)) \in Message /\ Text(FlattenSeq(s)).words = FlattenSeq(s)
      BY <2>1 DEF Text, Message
    <2> QED BY <1>2, <2>2 DEF OutputSentences
  <1> QED BY <1>1, <1>2

LEMMA GotoOne ==
  ASSUME NEW m, NEW next, Goto(<<m>>, next)
  PROVE  outbox' = <<m>> /\ worker' = IF next = "close" THEN "write_last" ELSE "write"
  BY DEF Goto

LEMMA GotoNone ==
  ASSUME NEW next, Goto(<<>>, next)
  PROVE  outbox' = <<>> /\ worker' = next
  BY DEF Goto

LEMMA Neutral ==
  ASSUME NEW w \in Words
  PROVE  <<>> \o w = w /\ w \o <<>> = w
  BY ConcatEmptySeq DEF Words

LEMMA NoWords == <<>> \in Words
  BY EmptySeq DEF Words

LEMMA Groups ==
  ASSUME NEW a \in Words, NEW b \in Words, NEW c \in Words
  PROVE  a \o b \in Words /\ (a \o b) \o c = a \o (b \o c)
  BY Reassociate DEF Words

LEMMA CatWords ==
  ASSUME NEW a \in Words, NEW b \in Words
  PROVE  Cat(a, b) \in Words
  BY Groups DEF Cat

LEMMA CatCat ==
  ASSUME NEW a \in Words, NEW b \in Words, NEW c \in Words
  PROVE  Cat(Cat(a, b), c) = Cat(a, Cat(b, c))
  BY Groups, ZenonT(80) DEF Cat

LEMMA NoneBehind ==
  ASSUME NEW w \in Words
  PROVE  Cat(w, <<>>) = w /\ Cat(<<>>, w) = w
  BY Neutral DEF Cat

\* s returns and retains the words w, in order.
Conserves(s, w) ==
  /\ s.returned \in Seq(Words) /\ s.retained \in Words
  /\ FlattenSeq(s.returned) \in Words
  /\ FlattenSeq(s.returned) \o s.retained = w

LEMMA ConservesReturned ==
  ASSUME NEW w \in Words, NEW z \in Words
  PROVE  Conserves([returned |-> <<w>>, retained |-> z], w \o z)
  <1>1. FlattenSeq(<<w>>) = w /\ <<w>> \in Seq(Words)
    BY FlattenOne DEF Words
  <1> QED BY <1>1 DEF Conserves

LEMMA ConservesRetained ==
  ASSUME NEW w \in Words
  PROVE  Conserves([returned |-> <<>>, retained |-> w], w)
  <1>1. FlattenSeq(<<>>) = <<>> /\ <<>> \o w = w /\ <<>> \in Seq(Words) /\ <<>> \in Words
    BY FlattenEmpty, ConcatEmptySeq, EmptySeq DEF Words
  <1> QED BY <1>1 DEF Conserves

LEMMA CutWords ==
  ASSUME NEW b \in Words, NEW v \in Words, NEW n \in 1..Len(v)
  PROVE  /\ b \o SubSeq(v, 1, n) \in Words /\ SubSeq(v, n + 1, Len(v)) \in Words
         /\ (b \o SubSeq(v, 1, n)) \o SubSeq(v, n + 1, Len(v)) = b \o v
  <1> DEFINE x == SubSeq(v, 1, n)
             y == SubSeq(v, n + 1, Len(v))
  <1>1. x \in Words /\ y \in Words /\ Cat(x, y) = v
    BY CutAt DEF Words, Cat
  <1> HIDE DEF x, y
  <1>2. Cat(b, x) \in Words /\ Cat(Cat(b, x), y) = Cat(b, Cat(x, y))
    BY <1>1, CatWords, CatCat
  <1> QED BY <1>1, <1>2 DEF Cat, x, y

\* The splitter returns and retains what it has been given, in order.
LEMMA SplitsConserve ==
  ASSUME buffer \in Words, NEW v \in Words, NEW flush \in BOOLEAN, NEW s \in Splits(v, flush)
  PROVE  /\ Conserves(s, buffer \o v)
         /\ flush => s.retained = <<>>
  <1> DEFINE w == buffer \o v
  <1>0. w \in Words /\ <<>> \in Words /\ w \o <<>> = w
    BY ConcatProperties, ConcatEmptySeq, EmptySeq DEF Words
  <1>1. CASE flush
    <2>1. s = [returned |-> IF w = <<>> THEN <<>> ELSE <<w>>, retained |-> <<>>]
      BY <1>1 DEF Splits
    <2> HIDE DEF w
    <2>2. s.retained = <<>>
      BY <2>1
    <2>3. CASE w = <<>>
      <3>1. s = [returned |-> <<>>, retained |-> w]
        BY <2>1, <2>3
      <3> QED BY <1>0, <2>2, <3>1, ConservesRetained DEF w
    <2>4. CASE w # <<>>
      <3>1. s = [returned |-> <<w>>, retained |-> <<>>]
        BY <2>1, <2>4
      <3>2. Conserves(s, w \o <<>>)
        BY <1>0, <3>1, ConservesReturned
      <3> QED BY <1>0, <2>2, <3>2 DEF w
    <2> QED BY <2>3, <2>4
  <1>2. CASE ~flush /\ s = [returned |-> <<>>, retained |-> w]
    BY <1>0, <1>2, ConservesRetained
  <1>3. ASSUME NEW n \in 1..Len(v), ~flush,
               s = [returned |-> <<buffer \o SubSeq(v, 1, n)>>, retained |-> SubSeq(v, n + 1, Len(v))]
        PROVE  Conserves(s, w)
    <2> DEFINE z == SubSeq(v, n + 1, Len(v))
               b == buffer \o SubSeq(v, 1, n)
    <2>1. b \in Words /\ z \in Words /\ b \o z = w
      BY CutWords
    <2>2. s = [returned |-> <<b>>, retained |-> z]
      BY <1>3
    <2> HIDE DEF b, z, w
    <2> QED BY <2>1, <2>2, ConservesReturned
  <1>4. CASE ~flush
    <2>1. \/ s = [returned |-> <<>>, retained |-> w]
          \/ \E n \in 1..Len(v) :
               s = [returned |-> <<buffer \o SubSeq(v, 1, n)>>, retained |-> SubSeq(v, n + 1, Len(v))]
      BY <1>4 DEF Splits
    <2> QED BY <1>2, <1>3, <1>4, <2>1
  <1> QED BY <1>1, <1>4

-----------------------------------------------------------------------------
(* The turn changes: requests read, answers sent.                            *)

LEMMA InitLock ==
  ASSUME Init
  PROVE  Lock
  <1>1. Chosen
    BY DEF Init, Chosen
  <1>2. Places
    <2>1. 0 \in 0..Len(text)
      BY <1>1, OfCase
    <2>2. client = "sync" /\ worker = "read" /\ lines = 0 /\ shut = FALSE /\ closed = FALSE
      BY DEF Init
    <2> QED BY <2>1, <2>2 DEF Places
  <1>3. Turns
    BY DEF Init, Turns, AtMost1, None
  <1>4. Requests
    BY DEF Init, Requests
  <1>5. Buffers
    BY EmptySeq DEF Init, Buffers, Words
  <1> QED BY <1>1, <1>2, <1>3, <1>4, <1>5 DEF Lock

LEMMA SameLine ==
  ASSUME NEW n, UNCHANGED case
  PROVE  Line(n)' = Line(n)
  BY DEF Line, case

\* A line read is the one the client has just sent, and waits for the answer to.
LEMMA TextRequest ==
  ASSUME Lock, ReadLine(Request), Request.kind = "text"
  PROVE  /\ client = "answer" /\ lines \in 1..Len(text) /\ Request.words = Line(lines)
         /\ Line(lines) \in Words
  <1>1. toServer # <<>>
    BY DEF ReadLine, ReadMessage
  <1>2. client = "answer" \/ client = "synced"
    BY <1>1 DEF Lock, Places, Turns, None
  <1>3. client # "synced"
    <2> SUFFICES ASSUME client = "synced" PROVE FALSE
      OBVIOUS
    <2>1. toServer = <<Reset>>
      BY <1>1 DEF Lock, Requests
    <2>2. Request = Reset
      BY <2>1 DEF Request
    <2> QED BY <2>2 DEF Reset
  <1>4. lines # 0 /\ toServer = <<Text(Line(lines))>>
    BY <1>1, <1>2, <1>3 DEF Lock, Requests
  <1>5. Request = Text(Line(lines))
    BY <1>4 DEF Request
  <1>6. lines \in 1..Len(text)
    BY <1>4, OfCase DEF Lock, Places
  <1> QED BY <1>2, <1>3, <1>5, <1>6, LineWords DEF Lock, Text

\* The answer to what has been read is one message, and to a reset it is Ready.
LEMMA AnswerLock ==
  ASSUME Lock, ReadLine(Request), Buffers',
         NEW m \in Message, Goto(<<m>>, "read"), client = "synced" => m = Ready
  PROVE  Lock'
  <1>1. /\ worker = "read" /\ toServer # <<>> /\ toServer' = <<>>
        /\ options' = options /\ text' = text /\ client' = client /\ lines' = lines /\ shut' = shut
        /\ toClient' = toClient /\ closed' = closed
    BY ReadOnly DEF ReadLine, ReadMessage, ClientSide, case, Lock, Turns
  <1>2. outbox' = <<m>> /\ worker' = "write"
    BY GotoOne
  <1>3. client \in {"synced", "answer"} /\ toClient = <<>>
    BY <1>1 DEF Lock, Places, Turns, None
  <1>4. Chosen' /\ Places'
    BY <1>1, <1>2 DEF Lock, Chosen, Places
  <1>5. Turns'
    BY <1>1, <1>2, <1>3 DEF Turns, AtMost1, None, Single
  <1>6. Requests'
    BY <1>1, <1>2, <1>3 DEF Lock, Requests
  <1> QED BY <1>4, <1>5, <1>6 DEF Lock

\* After the end of the text there is one message at most, for the client in "final".
LEMMA FlushLock ==
  ASSUME Lock, EndOfText, Buffers',
         NEW messages, messages = <<>> \/ \E m \in Message : messages = <<m>>,
         Goto(messages, "close")
  PROVE  Lock'
  <1>1. /\ worker = "read" /\ toServer = <<>> /\ toServer' = <<>> /\ shut
        /\ options' = options /\ text' = text /\ client' = client /\ lines' = lines /\ shut' = shut
        /\ toClient' = toClient /\ closed' = closed
    BY DEF EndOfText, ClientSide, case
  <1>2. client = "final" /\ toClient = <<>>
    BY <1>1 DEF Lock, Places, Turns, None
  <1>3. \/ outbox' = <<>> /\ worker' = "close"
        \/ Single(outbox') /\ outbox' # <<>> /\ worker' = "write_last"
    BY GotoOne, GotoNone DEF Single
  <1>4. Chosen' /\ Places'
    BY <1>1, <1>2, <1>3 DEF Lock, Chosen, Places
  <1>5. Turns'
    BY <1>1, <1>2, <1>3 DEF Turns, AtMost1, None, Single
  <1>6. Requests'
    BY <1>1, <1>2 DEF Requests
  <1> QED BY <1>4, <1>5, <1>6 DEF Lock

\* The buffers do not change while messages move.
LEMMA SameBuffers ==
  ASSUME Buffers, UNCHANGED <<options, local>>,
         worker' \in {"read", "write"} => worker \in {"read", "write"}
  PROVE  Buffers'
  BY DEF Buffers, local

LEMMA ClientLock ==
  ASSUME Lock, Client
  PROVE  Lock'
  <1> USE DEF Lock
  <1>0. /\ options' = options /\ text' = text /\ closed' = closed /\ worker' = worker
        /\ UNCHANGED local /\ outbox' = outbox
    BY DEF Client, Sync, Synced, SendLine, GetAnswer, Shutdown, GetFinal, ServerSide, case
  <1>1. Chosen' /\ Buffers'
    BY <1>0, SameBuffers DEF Chosen
  <1>2. CASE Sync
    <2>1. /\ client = "sync" /\ client' = "synced" /\ toClient = <<>> /\ toClient' = <<>>
          /\ worker = "read" /\ outbox = <<>> /\ lines' = lines /\ shut' = shut
          /\ toServer' = <<Reset>>
      BY <1>2 DEF Sync, Turns, None
    <2>2. Reset \in Message
      BY EmptySeq DEF Reset, Message, Words
    <2>3. Places' /\ Requests'
      BY <1>0, <2>1 DEF Places, Requests
    <2>4. Turns'
      BY <1>0, <2>1, <2>2 DEF Turns, AtMost1, None, Single
    <2> QED BY <1>1, <2>3, <2>4
  <1>3. CASE Synced
    <2>1. /\ toClient = <<Head(toClient)>> /\ toClient' = <<>>
      BY <1>3, ReadOnly DEF Synced, Turns
    <2>2. toClient = <<Ready>> /\ Head(toClient) = Ready
      BY <1>3, <2>1 DEF Synced, Requests
    <2>3. /\ client = "synced" /\ client' = "getline" /\ toServer' = toServer
          /\ lines' = lines /\ shut' = shut
      BY <1>3, <2>2 DEF Synced
    <2>4. toServer = <<>> /\ outbox = <<>> /\ worker = "read"
      BY <2>2, <2>3 DEF Turns, None
    <2>5. Places' /\ Requests'
      BY <1>0, <2>3 DEF Places, Requests
    <2>6. Turns'
      BY <1>0, <2>1, <2>3, <2>4 DEF Turns, AtMost1, None
    <2> QED BY <1>1, <2>5, <2>6
  <1>4. CASE SendLine
    <2>1. /\ client = "getline" /\ client' = "answer" /\ lines' = lines + 1 /\ lines < Len(text)
          /\ toClient' = <<>> /\ toClient = <<>> /\ worker = "read" /\ outbox = <<>> /\ shut' = shut
          /\ toServer' = <<Text(Line(lines + 1))>>
      BY <1>4 DEF SendLine, Turns, None
    <2>2. PICK n \in 1..Len(text) : n = lines + 1
      BY <2>1, OfCase DEF Places
    <2>3. Line(n)' = Line(n) /\ Text(Line(n)) \in Message
      BY <1>0, SameLine, LineWords DEF Message, Text, case
    <2>4. Places'
      BY <1>0, <2>1, <2>2 DEF Places
    <2>5. Requests'
      BY <1>0, <2>1, <2>2, <2>3 DEF Requests, Text
    <2>6. Turns'
      BY <1>0, <2>1, <2>2, <2>3 DEF Turns, AtMost1, None, Single
    <2> QED BY <1>1, <2>4, <2>5, <2>6
  <1>5. CASE GetAnswer
    <2>1. /\ toClient = <<Head(toClient)>> /\ toClient' = <<>>
      BY <1>5, ReadOnly DEF GetAnswer, Turns
    <2>2. /\ client = "answer" /\ client' = "getline" /\ toServer' = toServer
          /\ lines' = lines /\ shut' = shut
      BY <1>5 DEF GetAnswer
    <2>3. toServer = <<>> /\ outbox = <<>> /\ worker = "read"
      BY <2>1, <2>2 DEF Turns, None
    <2>4. Places' /\ Requests'
      BY <1>0, <2>2 DEF Places, Requests
    <2>5. Turns'
      BY <1>0, <2>1, <2>2, <2>3 DEF Turns, AtMost1, None
    <2> QED BY <1>1, <2>4, <2>5
  <1>6. CASE Shutdown
    <2>1. /\ client = "getline" /\ client' = "final" /\ lines' = lines /\ shut' = TRUE
          /\ toServer' = <<>> /\ toClient' = <<>> /\ worker = "read" /\ outbox = <<>>
      BY <1>6 DEF Shutdown, Turns, None
    <2>2. Places' /\ Requests'
      BY <1>0, <2>1 DEF Places, Requests
    <2>3. Turns'
      BY <1>0, <2>1 DEF Turns, AtMost1, None
    <2> QED BY <1>1, <2>2, <2>3
  <1>7. CASE GetFinal
    <2>1. /\ client = "final" /\ client' = "closed" /\ lines' = lines /\ shut' = shut
          /\ toServer = <<>> /\ toServer' = <<>>
      BY <1>7 DEF GetFinal, Turns, None
    <2>2. toClient' = <<>> /\ worker \in {"close", "ended"} /\ outbox = <<>>
      <3>1. CASE toClient # <<>>
        <4>1. toClient' = <<>>
          BY <1>7, <3>1, ReadOnly DEF GetFinal, Turns
        <4>2. outbox = <<>> /\ worker \notin {"read", "write", "write_last"}
          BY <2>1, <3>1 DEF Turns, None
        <4> QED BY <4>1, <4>2 DEF Places
      <3>2. CASE toClient = <<>>
        <4>1. closed /\ toClient' = <<>>
          BY <1>7, <3>2 DEF GetFinal, ReadMessage
        <4> QED BY <4>1 DEF Places, Turns, None
      <3> QED BY <3>1, <3>2
    <2>3. Places' /\ Requests'
      BY <1>0, <2>1 DEF Places, Requests
    <2>4. Turns'
      BY <1>0, <2>1, <2>2 DEF Turns, AtMost1, None
    <2> QED BY <1>1, <2>3, <2>4
  <1> QED BY <1>2, <1>3, <1>4, <1>5, <1>6, <1>7 DEF Client

LEMMA WriteLock ==
  ASSUME Lock, WriteMessage
  PROVE  /\ Lock'
         /\ outbox = <<Head(outbox)>> /\ outbox' = <<>>
         /\ toClient = <<>> /\ toClient' = outbox /\ toServer = <<>>
         /\ worker' = IF worker = "write" THEN "read" ELSE "close"
  <1>1. /\ worker \in {"write", "write_last"} /\ toServer' = toServer /\ closed' = closed
        /\ options' = options /\ text' = text /\ client' = client /\ lines' = lines /\ shut' = shut
        /\ UNCHANGED local
    BY DEF WriteMessage, ClientSide, case
  <1>2. outbox # <<>> /\ toServer = <<>> /\ toClient = <<>>
    BY <1>1 DEF Lock, Turns, None
  <1>3. PICK m \in Message : outbox = <<m>>
    BY <1>2 DEF Lock, Turns, AtMost1, None, Single
  <1>4. Head(outbox) = m /\ Tail(outbox) = <<>>
    BY <1>3
  <1>5. client # "closed"
    BY <1>1 DEF Lock, Turns
  <1>6. /\ outbox' = <<>> /\ toClient' = <<m>>
        /\ worker' = IF worker = "write" THEN "read" ELSE "close"
    BY <1>2, <1>4, <1>5 DEF WriteMessage
  <1>7. Chosen' /\ Places'
    BY <1>1, <1>6 DEF Lock, Chosen, Places
  <1>8. Buffers'
    BY <1>1, <1>6, SameBuffers DEF Lock
  <1>9. Turns'
    BY <1>1, <1>2, <1>6 DEF Lock, Turns, AtMost1, None, Single, Places
  <1>10. Requests'
    BY <1>1, <1>2, <1>3, <1>6 DEF Lock, Requests, Turns
  <1> QED BY <1>2, <1>3, <1>4, <1>6, <1>7, <1>8, <1>9, <1>10 DEF Lock

LEMMA CloseLock ==
  ASSUME Lock, CloseWorker
  PROVE  Lock'
  <1>1. /\ worker = "close" /\ worker' = "ended" /\ closed' = TRUE
        /\ options' = options /\ text' = text /\ client' = client /\ lines' = lines /\ shut' = shut
        /\ UNCHANGED local /\ outbox' = outbox /\ toServer' = toServer /\ toClient' = toClient
    BY DEF CloseWorker, ClientSide, case
  <1>2. Chosen' /\ Places'
    BY <1>1 DEF Lock, Chosen, Places
  <1>3. Buffers'
    BY <1>1, SameBuffers DEF Lock
  <1>4. Turns' /\ Requests'
    BY <1>1 DEF Lock, Turns, Requests, AtMost1, None, Single, Places
  <1> QED BY <1>2, <1>3, <1>4 DEF Lock

-----------------------------------------------------------------------------
(* Each answer is one message, and each flush one at most.                   *)

LEMMA TokensOne ==
  ASSUME NEW v \in Words, Len(v) <= 1
  PROVE  \/ OutputTokens(v) = <<>> /\ v = <<>>
         \/ \E m \in Message : OutputTokens(v) = <<m>> /\ m.words = v
  <1>1. CASE v = <<>>
    BY <1>1 DEF OutputTokens
  <1>2. CASE v # <<>>
    <2>1. PICK x \in Word : v = <<x>>
      <3>1. Len(v) = 1
        <4>1. Len(v) \in Nat
          BY LenProperties DEF Words
        <4>2. Len(v) # 0
          BY <1>2, EmptySeq DEF Words
        <4>3. \A k \in Nat : k # 0 /\ k <= 1 => k = 1
          OBVIOUS
        <4> QED BY <4>1, <4>2, <4>3
      <3>2. v[1] \in Word /\ v = <<v[1]>>
        BY <3>1, ElementOfSeq DEF Words
      <3> QED BY <3>2
    <2>2. OutputTokens(v) = <<Text(<<x>>)>>
      BY <2>1 DEF OutputTokens
    <2>3. Text(<<x>>) \in Message /\ Text(<<x>>).words = <<x>>
      BY DEF Text, Message, Words
    <2> QED BY <2>1, <2>2, <2>3
  <1> QED BY <1>1, <1>2

LEMMA ReadyMessage == Ready \in Message /\ Ready.words = <<>>
  BY EmptySeq DEF Ready, Message, Words

LEMMA Joined ==
  ASSUME NEW a \in Seq(Words), NEW b \in Seq(Words), NEW v \in Words, NEW w \in Words
  PROVE  a \o b \in Seq(Words) /\ v \o w \in Words /\ Append(a, v) \in Seq(Words)
  BY ConcatProperties, AppendProperties DEF Words

\* What a line that is read leaves alone.
LEMMA LineRead ==
  ASSUME Lock, ReadLine(Request), Request.kind = "text"
  PROVE  /\ options' = options /\ doc = <<>> /\ worker = "read" /\ client # "synced"
         /\ Request.words \in Words
  BY TextRequest DEF Lock, Buffers, ReadLine, ClientSide, case

\* A line of one paragraph is not empty.
LEMMA CorefLine ==
  ASSUME Lock, ReadLine(Request), Request.kind = "text", options.Coref,
         \A c \in Cases : Answered(c)
  PROVE  Request.words # <<>>
  <1>1. lines \in 1..Len(text) /\ Request.words = Line(lines)
    BY TextRequest
  <1>2. text[lines] # 0
    BY <1>1, OfAnswered DEF Lock
  <1> QED BY <1>1, <1>2, LineWords DEF Lock

LEMMA AnswerStep ==
  ASSUME Lock, Answer, \A c \in Cases : Answered(c)
  PROVE  Lock'
  <1>0. ASSUME NEW s \in Seq(Words), Buffers', ReadLine(Request), Request.kind = "text",
               Goto(OutputSentences(s), "read")
        PROVE  Lock'
    BY <1>0, OutputOne, AnswerLock, LineRead
  <1>00. TOKEN < MORFO /\ TAGGED > TOKEN /\ PLAIN # TOKEN /\ SPLITTED # TOKEN /\ SPLITTED > TOKEN
    BY DEF TOKEN, MORFO, TAGGED, PLAIN, SPLITTED
  <1>1. CASE ResetStats
    <2>1. ReadLine(Request) /\ UNCHANGED local /\ UNCHANGED options /\ worker = "read"
      BY <1>1 DEF ResetStats, ReadLine, ClientSide, case
    <2>2. Buffers'
      BY <2>1, SameBuffers DEF Lock
    <2> QED BY <1>1, <2>1, <2>2, ReadyMessage, AnswerLock DEF ResetStats
  <1>2. CASE ProcessLineCoref
    <2> DEFINE blank == Request.words = <<>>
    <2>1. ReadLine(Request) /\ Request.kind = "text" /\ options.Coref
      BY <1>2 DEF ProcessLineCoref
    <2>2. ~blank
      BY <2>1, CorefLine
    <2>3. PICK s \in Splits(Request.words, FALSE) :
            /\ buffer' = s.retained /\ par' = par \o s.returned /\ doc' = doc
            /\ av' = <<>> /\ ls' = <<>> /\ sentence' = sentence
      BY <1>2, <2>2 DEF ProcessLineCoref
    <2>4. s.retained \in Words /\ s.returned \in Seq(Words)
      BY <2>1, LineRead, SplitsConserve DEF Conserves, Lock, Buffers
    <2>5. <<>> \in Words /\ <<>> \in Seq(Words) /\ par' \in Seq(Words)
      BY <2>3, <2>4, EmptySeq, ConcatProperties DEF Lock, Buffers, Words
    <2>6. Buffers'
      <3>1. Len(av') <= 1
        BY <2>3
      <3> QED BY <2>1, <2>3, <2>4, <2>5, <3>1, LineRead DEF Lock, Buffers
    <2> QED BY <1>2, <2>1, <2>6, ReadyMessage, LineRead, AnswerLock DEF ProcessLineCoref
  <1>3. CASE TokenizeLine
    <2>1. ReadLine(Request) /\ Request.kind = "text" /\ options.OutputFormat = TOKEN
          /\ options.InputFormat = PLAIN /\ av' = Request.words
          /\ UNCHANGED <<sentence, par, doc, buffer, ls>>
      BY <1>3 DEF TokenizeLine, Reading
    <2>2. Request.words \in Words /\ Len(Request.words) = 1
      BY <2>1, TextRequest, LineWords, OfAnswered DEF Lock
    <2>3. Buffers'
      BY <2>1, <2>2, LineRead DEF Lock, Buffers
    <2>4. PICK m \in Message : OutputTokens(Request.words) = <<m>>
      <3>1. Len(Request.words) <= 1 /\ Request.words # <<>>
        BY <2>2
      <3> QED BY <2>2, <3>1, TokensOne
    <2>5. Goto(<<m>>, "read")
      BY <1>3, <2>1, <2>4 DEF TokenizeLine
    <2> QED BY <2>1, <2>3, <2>5, LineRead, AnswerLock
  <1>4. CASE AnalyzeLine
    <2>1. ReadLine(Request) /\ Request.kind = "text" /\ options.OutputFormat # TOKEN
          /\ Goto(OutputSentences(ls'), "read")
          /\ UNCHANGED <<av, sentence, par, doc>>
      BY <1>4 DEF AnalyzeLine, Reading
    <2>2. PICK s \in Splits(Request.words, options.AlwaysFlush) :
            ls' = s.returned /\ buffer' = s.retained
      BY <1>4 DEF AnalyzeLine
    <2>3. s.returned \in Seq(Words) /\ s.retained \in Words
      BY <2>1, LineRead, OfCase, SplitsConserve DEF Conserves, Lock, Buffers
    <2>4. Buffers'
      BY <2>1, <2>2, <2>3, LineRead DEF Lock, Buffers
    <2> QED BY <1>0, <2>1, <2>2, <2>3, <2>4
  <1>5. CASE AccumulateToken
    <2>1. ReadLine(Request) /\ Request.kind = "text" /\ options.OutputFormat # TOKEN
          /\ Goto(OutputSentences(ls), "read") /\ av' = av \o Request.words
          /\ UNCHANGED <<sentence, par, doc, buffer, ls>>
      BY <1>5, OfCase, <1>00 DEF AccumulateToken, Reading, Lock, TOKEN
    <2>2. av' \in Words
      BY <2>1, LineRead, ConcatProperties DEF Lock, Buffers, Words
    <2>3. Buffers'
      BY <2>1, <2>2, LineRead DEF Lock, Buffers
    <2> QED BY <1>0, <2>1, <2>3 DEF Lock, Buffers
  <1>6. CASE AnalyzeBatch
    <2>1. ReadLine(Request) /\ Request.kind = "text" /\ options.OutputFormat # TOKEN
          /\ Goto(OutputSentences(ls'), "read") /\ av' = <<>>
          /\ UNCHANGED <<sentence, par, doc>>
      BY <1>6, OfCase, <1>00 DEF AnalyzeBatch, Reading, Lock, TOKEN
    <2>2. PICK s \in Splits(av \o Request.words, FALSE) : ls' = s.returned /\ buffer' = s.retained
      BY <1>6 DEF AnalyzeBatch
    <2>3. av \o Request.words \in Words /\ av' \in Words
      BY <2>1, LineRead, ConcatProperties, EmptySeq DEF Lock, Buffers, Words
    <2>4. s.returned \in Seq(Words) /\ s.retained \in Words
      BY <2>3, SplitsConserve DEF Conserves, Lock, Buffers
    <2>5. Buffers'
      BY <2>1, <2>2, <2>3, <2>4, LineRead DEF Lock, Buffers
    <2> QED BY <1>0, <2>1, <2>2, <2>4, <2>5
  <1>7. CASE AddWord
    <2>1. ReadLine(Request) /\ Request.kind = "text" /\ options.OutputFormat # TOKEN
          /\ Goto(OutputSentences(ls'), "read") /\ ls' = <<>> /\ sentence' = sentence \o Request.words
          /\ UNCHANGED <<av, par, doc, buffer>>
      BY <1>7, OfCase, <1>00 DEF AddWord, Reading, Lock, TOKEN, SPLITTED
    <2>2. sentence' \in Words /\ ls' \in Seq(Words)
      BY <2>1, LineRead, ConcatProperties, EmptySeq DEF Lock, Buffers, Words
    <2>3. Buffers'
      BY <2>1, <2>2, LineRead DEF Lock, Buffers
    <2> QED BY <1>0, <2>1, <2>2, <2>3
  <1>8. CASE EndSentence
    <2>1. ReadLine(Request) /\ Request.kind = "text" /\ options.OutputFormat # TOKEN
          /\ Goto(OutputSentences(ls'), "read") /\ ls' = Append(ls, sentence) /\ sentence' = <<>>
          /\ UNCHANGED <<av, par, doc, buffer>>
      BY <1>8, OfCase, <1>00 DEF EndSentence, Reading, Lock, TOKEN, SPLITTED
    <2>2. sentence' \in Words /\ ls' \in Seq(Words)
      BY <2>1, AppendProperties, EmptySeq DEF Lock, Buffers, Words
    <2>3. Buffers'
      BY <2>1, <2>2, LineRead DEF Lock, Buffers
    <2> QED BY <1>0, <2>1, <2>2, <2>3
  <1> QED BY <1>1, <1>2, <1>3, <1>4, <1>5, <1>6, <1>7, <1>8 DEF Answer

LEMMA EndRead ==
  ASSUME Lock, EndOfText
  PROVE  options' = options /\ doc = <<>> /\ worker = "read"
  BY DEF Lock, Buffers, EndOfText, ClientSide, case

\* A document of one paragraph is output as one message.
LEMMA DocumentOne ==
  ASSUME NEW p \in Seq(Words)
  PROVE  \E m \in Message :
           /\ FlattenSeq([k \in DOMAIN <<p>> |-> OutputSentences(<<p>>[k])]) = <<m>>
           /\ m.words = FlattenSeq(p)
  <1>1. PICK m \in Message : OutputSentences(p) = <<m>> /\ m.words = FlattenSeq(p)
    BY OutputOne
  <1>2. [k \in DOMAIN <<p>> |-> OutputSentences(<<p>>[k])] = <<OutputSentences(p)>>
    OBVIOUS
  <1>3. FlattenSeq(<<OutputSentences(p)>>) = OutputSentences(p)
    <2>1. OutputSentences(p) \in Seq(Message)
      BY <1>1
    <2> QED BY <2>1, FlattenOne
  <1> QED BY <1>1, <1>2, <1>3

\* What PostProcessCoreference appends to the document, and puts in the outbox.
LEMMA CoreferenceFlush ==
  ASSUME Lock, PostProcessCoreference
  PROVE  \E s \in Splits(av, TRUE), m \in Message :
           /\ s.returned \in Seq(Words) /\ s.retained = <<>>
           /\ ls' = s.returned /\ buffer' = <<>>
           /\ par' = par \o s.returned /\ par' \in Seq(Words) /\ doc' = <<par'>>
           /\ UNCHANGED <<av, sentence>>
           /\ Goto(<<m>>, "close") /\ m.words = FlattenSeq(par')
  <1>1. PICK s \in Splits(av, TRUE) :
          /\ ls' = s.returned /\ buffer' = s.retained /\ par' = par \o s.returned
          /\ doc' = Append(doc, par')
    BY DEF PostProcessCoreference
  <1>2. s.returned \in Seq(Words) /\ s.retained = <<>>
    BY SplitsConserve DEF Conserves, Lock, Buffers
  <1>3. par' \in Seq(Words)
    BY <1>1, <1>2, ConcatProperties DEF Lock, Buffers
  <1>4. doc' = <<par'>>
    BY <1>1, EndRead DEF PostProcessCoreference
  <1>5. PICK p \in Seq(Words) : p = par'
    BY <1>3
  <1>6. PICK m \in Message :
          /\ FlattenSeq([k \in DOMAIN <<p>> |-> OutputSentences(<<p>>[k])]) = <<m>>
          /\ m.words = FlattenSeq(p)
    BY DocumentOne
  <1>7. Goto(<<m>>, "close")
    BY <1>4, <1>5, <1>6 DEF PostProcessCoreference
  <1> QED BY <1>1, <1>2, <1>3, <1>4, <1>5, <1>6, <1>7 DEF PostProcessCoreference

LEMMA FlushStep ==
  ASSUME Lock, Flush
  PROVE  Lock'
  <1>1. CASE PostProcessCoreference
    <2>1. PICK s \in Splits(av, TRUE), m \in Message :
           /\ s.returned \in Seq(Words)
           /\ ls' = s.returned /\ buffer' = <<>> /\ par' \in Seq(Words)
           /\ UNCHANGED <<av, sentence>>
           /\ Goto(<<m>>, "close")
      BY <1>1, CoreferenceFlush
    <2>2. EndOfText
      BY <1>1 DEF PostProcessCoreference
    <2>3. worker' = "write_last" /\ <<>> \in Words
      BY <2>1, GotoOne, EmptySeq DEF Words
    <2>4. Buffers'
      BY <2>1, <2>2, <2>3, EndRead DEF Lock, Buffers
    <2> QED BY <2>1, <2>2, <2>4, FlushLock
  <1>2. CASE FlushTokens
    <2>1. EndOfText /\ UNCHANGED local /\ Goto(OutputTokens(av), "close")
          /\ options.OutputFormat = TOKEN
      BY <1>2 DEF FlushTokens
    <2>2. av \in Words /\ Len(av) <= 1
      BY <2>1 DEF Lock, Buffers
    <2>3. OutputTokens(av) = <<>> \/ \E m \in Message : OutputTokens(av) = <<m>>
      BY <2>2, TokensOne
    <2>4. Buffers'
      BY <2>1, EndRead, SameBuffers DEF Lock
    <2> QED BY <2>1, <2>3, <2>4, FlushLock
  <1>3. CASE FlushSplitter
    <2>1. EndOfText /\ Goto(OutputSentences(ls'), "close") /\ UNCHANGED <<av, sentence, par, doc>>
      BY <1>3 DEF FlushSplitter
    <2>2. PICK s \in Splits(av, TRUE) : ls' = s.returned /\ buffer' = s.retained
      BY <1>3 DEF FlushSplitter
    <2>3. s.returned \in Seq(Words) /\ s.retained \in Words
      BY SplitsConserve DEF Conserves, Lock, Buffers
    <2>4. Buffers'
      BY <2>1, <2>2, <2>3, EndRead DEF Lock, Buffers
    <2>5. PICK m \in Message : OutputSentences(ls') = <<m>>
      BY <2>2, <2>3, OutputOne
    <2> QED BY <2>1, <2>4, <2>5, FlushLock
  <1>4. CASE FlushSentence
    <2>1. /\ EndOfText /\ ls' = IF sentence = <<>> THEN ls ELSE Append(ls, sentence)
          /\ Goto(IF sentence = <<>> THEN <<>> ELSE OutputSentences(ls'), "close")
          /\ UNCHANGED <<av, sentence, par, doc, buffer>>
      BY <1>4 DEF FlushSentence
    <2>2. ls' \in Seq(Words)
      BY <2>1, AppendProperties DEF Lock, Buffers
    <2>3. Buffers'
      BY <2>1, <2>2, EndRead DEF Lock, Buffers
    <2>4. PICK m \in Message : OutputSentences(ls') = <<m>>
      BY <2>2, OutputOne
    <2>5. PICK messages : /\ messages = <<>> \/ \E x \in Message : messages = <<x>>
                          /\ Goto(messages, "close")
      BY <2>1, <2>4
    <2> QED BY <2>1, <2>3, <2>5, FlushLock
  <1> QED BY <1>1, <1>2, <1>3, <1>4 DEF Flush

\* A step that changes nothing.
LEMMA StutterLock ==
  ASSUME Lock, UNCHANGED vars
  PROVE  Lock'
  <1>1. /\ options' = options /\ text' = text /\ client' = client /\ lines' = lines /\ shut' = shut
        /\ UNCHANGED local /\ outbox' = outbox /\ toServer' = toServer /\ toClient' = toClient
        /\ worker' = worker /\ closed' = closed
    BY DEF vars, case
  <1>2. Buffers'
    BY <1>1, SameBuffers DEF Lock
  <1>3. Chosen' /\ Places'
    BY <1>1 DEF Lock, Chosen, Places
  <1>4. Turns'
    BY <1>1 DEF Lock, Turns, AtMost1, None, Single
  <1>5. Requests'
    <2>1. PICK n : n = lines
      OBVIOUS
    <2>2. Line(n)' = Line(n)
      BY <1>1, SameLine DEF case
    <2> QED BY <1>1, <2>1, <2>2 DEF Lock, Requests, Text, Reset, Ready
  <1> QED BY <1>2, <1>3, <1>4, <1>5 DEF Lock

LEMMA StepLock ==
  ASSUME Lock, [Next]_vars, \A c \in Cases : Answered(c)
  PROVE  Lock'
  BY ClientLock, AnswerStep, FlushStep, WriteLock, CloseLock, StutterLock
     DEF Next, Worker, Terminated

LEMMA LockAlways ==
  ASSUME \A c \in Cases : Answered(c)
  PROVE  Spec => []Lock
  <1>1. Init => Lock
    BY InitLock
  <1>2. Lock /\ [Next]_vars => Lock'
    BY StepLock
  <1> QED BY <1>1, <1>2, PTL DEF Spec

\* A request or its answer, never more, is under way in a session whose lines are
\* each answered by one message, whatever its text and the sentences found.
THEOREM OneMessageUnderWay ==
  ASSUME \A c \in Cases : Answered(c)
  PROVE  Spec => []LockStep
  <1>1. Lock => LockStep
    <2> SUFFICES ASSUME Lock PROVE LockStep
      OBVIOUS
    <2>1. ASSUME NEW ch, AtMost1(ch) PROVE Len(ch) \in {0, 1} /\ (None(ch) => Len(ch) = 0)
      BY <2>1, EmptySeq DEF AtMost1, None, Single
    <2>2. /\ Len(toServer) \in {0, 1} /\ Len(toClient) \in {0, 1} /\ Len(outbox) \in {0, 1}
          /\ Len(toServer) = 0 \/ (Len(toClient) = 0 /\ Len(outbox) = 0)
          /\ Len(toClient) = 0 \/ Len(outbox) = 0
      BY <2>1 DEF Lock, Turns
    <2>3. \A i, j, k \in {0, 1} : (i = 0 \/ (j = 0 /\ k = 0)) /\ (j = 0 \/ k = 0) => i + j + k <= 1
      OBVIOUS
    <2> QED BY <2>2, <2>3 DEF LockStep
  <1> QED BY <1>1, LockAlways, PTL

-----------------------------------------------------------------------------
(* The text in order.                                                        *)

\* Lines the worker has read.
Read == IF client = "answer" /\ toServer # <<>> THEN lines - 1 ELSE lines

\* While the worker reads, the buffers of the other formats are empty.  A tokenized
\* text is in av until it is all in the splitter; a splitted one has its sentence in
\* sentence, and in ls what the empty line just read has ended.
Modes ==
  /\ options.Coref => sentence = <<>> /\ av = <<>>
  /\ ~options.Coref => par = <<>>
  /\ ~options.Coref /\ options.InputFormat = PLAIN => av = <<>> /\ sentence = <<>>
  /\ ~options.Coref /\ options.InputFormat = TOKEN =>
       sentence = <<>> /\ ((ls = <<>> /\ Len(av) = Read) \/ Read = Len(text))
  /\ ~options.Coref /\ options.InputFormat = SPLITTED =>
       /\ av = <<>> /\ buffer = <<>>
       /\ ls # <<>> => sentence = <<>> /\ Read # 0 /\ text[Read] = 0

\* The places of the words, in the order of the text.
Total(p, c, o, k, s) == p \o (c \o (o \o (k \o s)))

Content == /\ printed \in Words
           /\ Total(printed, WordsOf(toClient), WordsOf(outbox), Kept, WordsOf(toServer))
                = TextUpTo(lines)

Ordered == /\ worker \in {"read", "write"} => Modes
           /\ Content

LEMMA WordsUnderWay ==
  /\ WordsOf(<<>>) = <<>>
  /\ \A m \in Message : WordsOf(<<m>>) = m.words /\ m.words \in Words
  <1>1. \A p : WordsOf(p) = Collected(p)
    BY DEF WordsOf, Collected
  <1>2. ASSUME NEW m \in Message PROVE Collected(<<m>>) = m.words /\ m.words \in Words
    <2>1. m.words \in Seq(Word)
      BY DEF Message, Words
    <2> QED BY <2>1, CollectedOne DEF Words
  <1> QED BY <1>1, <1>2, CollectedEmpty

LEMMA TotalRequest ==
  ASSUME NEW p \in Words, NEW k \in Words, NEW x \in Words
  PROVE  Total(p, <<>>, <<>>, k, x) = p \o (k \o x)
  <1>1. k \o x \in Words
    BY Groups
  <1> QED BY <1>1, Neutral DEF Total

LEMMA TotalAnswer ==
  ASSUME NEW p \in Words, NEW k \in Words, NEW x \in Words
  PROVE  /\ Total(p, <<>>, x, k, <<>>) = p \o (x \o k)
         /\ Total(p, x, <<>>, k, <<>>) = p \o (x \o k)
         /\ Total(p, <<>>, x, k, <<>>) = Total(p, x, <<>>, k, <<>>)
  <1>1. x \o k \in Words
    BY Groups
  <1> QED BY <1>1, Neutral DEF Total

LEMMA TotalNone ==
  ASSUME NEW p \in Words, NEW k \in Words
  PROVE  Total(p, <<>>, <<>>, k, <<>>) = p \o k
  BY Neutral DEF Total

LEMMA TotalSent ==
  ASSUME NEW p \in Words, NEW k \in Words, NEW x \in Words
  PROVE  Total(p, <<>>, <<>>, k, x) = (p \o k) \o x
  <1>1. Total(p, <<>>, <<>>, k, x) = p \o (k \o x)
    BY TotalRequest
  <1>2. (p \o k) \o x = p \o (k \o x)
    BY Groups, ZenonT(80)
  <1> QED BY <1>1, <1>2

LEMMA TextMessage ==
  ASSUME NEW x \in Words
  PROVE  Text(x) \in Message /\ Text(x).words = x
  BY DEF Text, Message

\* What the worker keeps, while there is no document.
Buffered(d, p, b, s, a) == FlattenSeq(FlattenSeq(d)) \o FlattenSeq(p) \o b \o s \o a

LEMMA BufferedIs ==
  ASSUME NEW p \in Sentences, NEW b \in Words, NEW s \in Words, NEW a \in Words
  PROVE  Buffered(<<>>, p, b, s, a) = FlattenSeq(p) \o b \o s \o a
  <1>1. FlattenSeq(p) \in Words
    BY FlattenType DEF Words, Sentences
  <1>2. Buffered(<<>>, p, b, s, a) = <<>> \o FlattenSeq(p) \o b \o s \o a
    BY FlattenEmpty DEF Buffered
  <1> QED BY <1>1, <1>2, Neutral

LEMMA BufferedForms ==
  ASSUME NEW p \in Sentences, NEW b \in Words, NEW s \in Words, NEW a \in Words
  PROVE  /\ Buffered(<<>>, p, b, s, a) \in Words
         /\ Buffered(<<>>, p, b, <<>>, <<>>) = FlattenSeq(p) \o b
         /\ Buffered(<<>>, <<>>, b, <<>>, a) = b \o a
         /\ Buffered(<<>>, <<>>, <<>>, s, <<>>) = s
  <1>0. <<>> \in Sentences /\ <<>> \in Words
    BY EmptySeq DEF Sentences, Words
  <1> DEFINE f == FlattenSeq(p)
  <1>1. f \in Words
    BY FlattenType DEF Words, Sentences
  <1>2. /\ Buffered(<<>>, p, b, s, a) = f \o b \o s \o a
        /\ Buffered(<<>>, p, b, <<>>, <<>>) = f \o b \o <<>> \o <<>>
    BY <1>0, BufferedIs, ZenonT(80)
  <1> HIDE DEF f
  <1>3. /\ Buffered(<<>>, <<>>, b, <<>>, a) = <<>> \o <<>> \o b \o <<>> \o a
        /\ Buffered(<<>>, <<>>, <<>>, s, <<>>) = <<>> \o <<>> \o <<>> \o s \o <<>>
    BY FlattenEmpty DEF Buffered
  <1>4. f \o b \in Words
    BY <1>1, Groups
  <1>5. f \o b \o s \in Words
    BY <1>4, Groups
  <1>6. f \o b \o s \o a \in Words
    BY <1>5, Groups
  <1>7. f \o b \o <<>> \o <<>> = f \o b
    BY <1>4, Neutral
  <1>8. <<>> \o <<>> \o b \o <<>> \o a = b \o a
    BY <1>0, Neutral
  <1>9. <<>> \o <<>> \o <<>> \o s \o <<>> = s
    BY <1>0, Neutral
  <1> QED BY <1>2, <1>3, <1>6, <1>7, <1>8, <1>9 DEF f

LEMMA KeptReading ==
  ASSUME Lock, worker \in {"read", "write"}
  PROVE  /\ Kept \in Words
         /\ sentence = <<>> /\ av = <<>> => Kept = FlattenSeq(par) \o buffer
         /\ par = <<>> /\ sentence = <<>> => Kept = buffer \o av
         /\ par = <<>> /\ buffer = <<>> /\ av = <<>> => Kept = sentence
  <1>1. Kept = Buffered(<<>>, par, buffer, sentence, av)
    BY DEF Lock, Buffers, Kept, Buffered
  <1>2. par \in Sentences /\ buffer \in Words /\ sentence \in Words /\ av \in Words
    BY DEF Lock, Buffers, Sentences
  <1>3. Buffered(<<>>, par, buffer, sentence, av) \in Words
    BY <1>2, BufferedForms
  <1>4. /\ Buffered(<<>>, par, buffer, <<>>, <<>>) = FlattenSeq(par) \o buffer
        /\ Buffered(<<>>, <<>>, buffer, <<>>, av) = buffer \o av
        /\ Buffered(<<>>, <<>>, <<>>, sentence, <<>>) = sentence
    BY <1>2, BufferedForms
  <1> QED BY <1>1, <1>3, <1>4

\* The text grows by a line.
LEMMA TextGrows ==
  ASSUME Chosen, NEW n \in Nat, n < Len(text)
  PROVE  /\ TextUpTo(n) \in Words /\ Line(n + 1) \in Words
         /\ TextUpTo(n + 1) = TextUpTo(n) \o Line(n + 1)
  <1> DEFINE s == [k \in 1..n |-> Line(k)]
             t == [k \in 1..(n + 1) |-> Line(k)]
             e == Line(n + 1)
  <1>0. Len(text) \in Nat
    BY OfCase
  <1>1. \A k \in 1..(n + 1) : Line(k) \in Words
    BY <1>0, LineWords
  <1>2. s \in Seq(Words) /\ e \in Words /\ Len(s) = n
    BY <1>1
  <1>3. t = Append(s, e)
    BY <1>1
  <1>4. TextUpTo(n) = FlattenSeq(s) /\ TextUpTo(n + 1) = FlattenSeq(t)
    BY DEF TextUpTo
  <1> HIDE DEF s, t, e
  <1>5. FlattenSeq(Append(s, e)) = FlattenSeq(s) \o e /\ FlattenSeq(s) \in Words
    BY <1>2, FlattenAppend, FlattenType DEF Words
  <1> QED BY <1>2, <1>3, <1>4, <1>5 DEF e

LEMMA SameTextUpTo ==
  ASSUME NEW n, UNCHANGED case
  PROVE  TextUpTo(n)' = TextUpTo(n)
  BY DEF TextUpTo, Line, case

LEMMA InitOrdered ==
  ASSUME Init
  PROVE  Ordered
  <1>1. Modes
    BY EmptySeq DEF Init, Modes, Read
  <1>2. Kept = <<>>
    <2>1. Kept = Buffered(<<>>, <<>>, <<>>, <<>>, <<>>)
      BY DEF Init, Kept, Buffered
    <2>2. <<>> \in Sentences
      BY EmptySeq DEF Sentences
    <2> QED BY <2>1, <2>2, NoWords, BufferedForms
  <1>3. TextUpTo(0) = <<>>
    <2>1. [k \in 1..0 |-> Line(k)] = <<>>
      OBVIOUS
    <2> QED BY <2>1, FlattenEmpty DEF TextUpTo
  <1>4. Total(<<>>, <<>>, <<>>, <<>>, <<>>) = <<>>
    BY NoWords, Neutral DEF Total
  <1> QED BY <1>1, <1>2, <1>3, <1>4, NoWords, WordsUnderWay DEF Init, Ordered, Content

LEMMA OfFollowed ==
  ASSUME Chosen, \A c \in Cases : Followed(c)
  PROVE  /\ options.InputFormat = TOKEN /\ ~options.Coref => Len(text) <= Batch + 1
         /\ options.InputFormat = SPLITTED /\ ~options.Coref =>
              \A n \in 1..(Len(text) - 1) : text[n] # 0 \/ text[n + 1] # 0
         /\ Batch \in Nat
  <1>1. PICK c \in Cases : options = c.options /\ text = c.text
    BY DEF Chosen
  <1> QED BY <1>1, SessionAssumption DEF Followed

\* Nothing is lost when the kept words and the line become an answer and what is kept.
LEMMA AnswerContent ==
  ASSUME Lock, Content, ReadLine(Request), Request.words \in Words, Kept \in Words,
         NEW m \in Message, Goto(<<m>>, "read"),
         NEW k \in Words, Kept' = k, Kept \o Request.words = m.words \o k,
         WordsOf(toServer) = Request.words
  PROVE  Content'
  <1>1. /\ toServer' = <<>> /\ UNCHANGED case /\ printed' = printed /\ lines' = lines
        /\ toClient' = toClient /\ worker = "read" /\ toServer # <<>>
    BY ReadOnly DEF ReadLine, ReadMessage, ClientSide, Lock, Turns
  <1>2. outbox' = <<m>>
    BY GotoOne
  <1>3. toClient = <<>> /\ outbox = <<>>
    BY <1>1 DEF Lock, Turns, None
  <1> DEFINE w == Request.words
  <1>4. Total(printed, <<>>, <<>>, Kept, w) = TextUpTo(lines)
    BY <1>3, WordsUnderWay DEF Content
  <1>5. WordsOf(toClient') = <<>> /\ WordsOf(outbox') = m.words /\ WordsOf(toServer') = <<>>
    BY <1>1, <1>2, <1>3, WordsUnderWay
  <1>6. printed \in Words /\ m.words \in Words
    BY WordsUnderWay DEF Content
  <1> HIDE DEF w
  <1>7. Total(printed, <<>>, <<>>, Kept, w) = printed \o (Kept \o w)
    BY <1>6, TotalRequest, ZenonT(80) DEF w
  <1>8. Total(printed, <<>>, m.words, k, <<>>) = printed \o (m.words \o k)
    BY <1>6, TotalAnswer, ZenonT(80)
  <1>9. PICK n : n = lines
    OBVIOUS
  <1>10. TextUpTo(n)' = TextUpTo(n)
    BY <1>1, SameTextUpTo
  <1>11. Total(printed, <<>>, m.words, k, <<>>) = TextUpTo(n)
    BY <1>4, <1>7, <1>8, <1>9 DEF w
  <1>12. Total(printed', WordsOf(toClient'), WordsOf(outbox'), Kept', WordsOf(toServer')) = TextUpTo(n)'
    BY <1>1, <1>5, <1>10, <1>11
  <1> QED BY <1>1, <1>6, <1>9, <1>12 DEF Content, WordsOf

LEMMA RequestWords ==
  ASSUME Lock, ReadLine(Request)
  PROVE  WordsOf(toServer) = Request.words /\ Request.words \in Words
  <1>1. Request \in Message /\ toServer = <<Request>>
    BY ReadOnly DEF ReadLine, Lock, Turns
  <1> QED BY <1>1, WordsUnderWay

\* What is kept does not change while messages move.
LEMMA SameKept ==
  ASSUME UNCHANGED local,
         worker' \in {"write_last", "close", "ended"} <=> worker \in {"write_last", "close", "ended"}
  PROVE  Kept' = Kept
  BY DEF Kept, local

LEMMA WriteOrdered ==
  ASSUME Lock, Ordered, WriteMessage
  PROVE  Ordered'
  <1>1. /\ outbox = <<Head(outbox)>> /\ outbox' = <<>> /\ toServer = <<>>
        /\ toClient = <<>> /\ toClient' = outbox
        /\ worker' = IF worker = "write" THEN "read" ELSE "close"
    BY WriteLock
  <1>2. /\ worker \in {"write", "write_last"} /\ toServer' = toServer /\ UNCHANGED case
        /\ client' = client /\ lines' = lines /\ printed' = printed /\ UNCHANGED local
    BY DEF WriteMessage, ClientSide
  <1>3. Head(outbox) \in Message
    BY <1>1 DEF Lock, Turns, AtMost1, None, Single
  <1>4. PICK m \in Message : outbox = <<m>>
    BY <1>1, <1>3
  <1>5. Kept' = Kept
    BY <1>1, <1>2, SameKept
  <1>6. Kept \in Words
    BY <1>2, KeptReading, NoWords DEF Kept
  <1>7. worker' \in {"read", "write"} => Modes'
    <2>1. worker' \in {"read", "write"} => worker \in {"read", "write"}
      BY <1>1, <1>2
    <2>2. Read' = Read
      BY <1>2 DEF Read
    <2> QED BY <1>2, <2>1, <2>2 DEF Ordered, Modes, local, case
  <1>8. Content'
    <2>1. printed \in Words /\ m.words \in Words
      BY WordsUnderWay DEF Ordered, Content
    <2>2. /\ WordsOf(toClient) = <<>> /\ WordsOf(outbox) = m.words /\ WordsOf(toServer) = <<>>
          /\ WordsOf(toClient') = m.words /\ WordsOf(outbox') = <<>> /\ WordsOf(toServer') = <<>>
      BY <1>1, <1>2, <1>4, WordsUnderWay
    <2>3. PICK x \in Words : x = m.words
      BY <2>1
    <2>7. Total(printed, <<>>, x, Kept, <<>>) = Total(printed, x, <<>>, Kept, <<>>)
      BY <1>6, <2>1, TotalAnswer
    <2>4. PICK n : n = lines
      OBVIOUS
    <2>5. TextUpTo(n)' = TextUpTo(n)
      BY <1>2, SameTextUpTo
    <2>6. Total(printed', WordsOf(toClient'), WordsOf(outbox'), Kept', WordsOf(toServer')) = TextUpTo(n)'
      BY <1>2, <1>5, <2>2, <2>3, <2>7, <2>4, <2>5 DEF Ordered, Content
    <2> QED BY <1>2, <2>1, <2>4, <2>6 DEF Content, WordsOf
  <1> QED BY <1>7, <1>8 DEF Ordered

LEMMA SameContent ==
  ASSUME Content, UNCHANGED <<case, printed, lines, toClient, outbox, toServer>>, Kept' = Kept
  PROVE  Content'
  <1>1. PICK n : n = lines
    OBVIOUS
  <1>2. TextUpTo(n)' = TextUpTo(n)
    BY SameTextUpTo
  <1> QED BY <1>1, <1>2 DEF Content, WordsOf

LEMMA CloseOrdered ==
  ASSUME Lock, Ordered, CloseWorker
  PROVE  Ordered'
  <1>1. /\ UNCHANGED <<case, printed, lines, toClient, outbox, toServer>>
        /\ UNCHANGED local /\ worker = "close" /\ worker' = "ended"
    BY DEF CloseWorker, ClientSide
  <1>2. Kept' = Kept
    BY <1>1, SameKept
  <1> QED BY <1>1, <1>2, SameContent DEF Ordered

LEMMA StutterOrdered ==
  ASSUME Ordered, UNCHANGED vars
  PROVE  Ordered'
  <1>1. /\ UNCHANGED <<case, printed, lines, toClient, outbox, toServer>>
        /\ UNCHANGED local /\ worker' = worker /\ client' = client
    BY DEF vars
  <1>2. Kept' = Kept
    BY <1>1, SameKept
  <1>3. Read' = Read
    BY <1>1 DEF Read
  <1>4. worker' \in {"read", "write"} => Modes'
    BY <1>1, <1>3 DEF Ordered, Modes, local, case
  <1> QED BY <1>1, <1>2, <1>4, SameContent DEF Ordered

LEMMA ReceiveContent ==
  ASSUME Lock, Content, ReadMessage(toClient, Head(toClient), toClient'), Kept \in Words,
         UNCHANGED <<case, lines, toServer, outbox>>, Kept' = Kept,
         printed' = printed \o Head(toClient).words
  PROVE  Content'
  <1>1. PICK m \in Message : toClient = <<m>>
    BY ReadOnly DEF Lock, Turns
  <1>2. toClient' = <<>> /\ Head(toClient) = m
    BY <1>1, ReadOnly DEF Lock, Turns
  <1>3. toServer = <<>> /\ outbox = <<>>
    BY <1>1 DEF Lock, Turns, None
  <1>4. /\ WordsOf(toClient) = m.words /\ WordsOf(outbox) = <<>> /\ WordsOf(toServer) = <<>>
        /\ WordsOf(toClient') = <<>> /\ WordsOf(outbox') = <<>> /\ WordsOf(toServer') = <<>>
    BY <1>1, <1>2, <1>3, WordsUnderWay
  <1>5. PICK x \in Words : x = m.words
    BY WordsUnderWay
  <1>6. PICK q \in Words : q = printed
    BY DEF Content
  <1>7. PICK k \in Words : k = Kept
    OBVIOUS
  <1>8. Total(q, x, <<>>, k, <<>>) = q \o (x \o k)
    BY TotalAnswer
  <1>9. q \o x \in Words /\ (q \o x) \o k = q \o (x \o k)
    BY Groups, ZenonT(80)
  <1>10. Total(q \o x, <<>>, <<>>, k, <<>>) = (q \o x) \o k
    <2>1. PICK y \in Words : y = q \o x
      BY <1>9
    <2>2. Total(y, <<>>, <<>>, k, <<>>) = y \o k
      BY TotalNone
    <2> QED BY <2>1, <2>2
  <1>11. PICK n : n = lines
    OBVIOUS
  <1>12. TextUpTo(n)' = TextUpTo(n)
    BY SameTextUpTo
  <1>13. printed' = q \o x
    BY <1>2, <1>5, <1>6
  <1>14. Total(q, x, <<>>, k, <<>>) = TextUpTo(n)
    BY <1>4, <1>5, <1>6, <1>7, <1>11 DEF Content
  <1>15. Total(printed', WordsOf(toClient'), WordsOf(outbox'), Kept', WordsOf(toServer')) = TextUpTo(n)'
    BY <1>4, <1>7, <1>8, <1>9, <1>10, <1>12, <1>13, <1>14
  <1> QED BY <1>9, <1>11, <1>13, <1>15 DEF Content, WordsOf

LEMMA SendContent ==
  ASSUME Lock, Content, SendLine, Kept \in Words, Kept' = Kept
  PROVE  Content'
  <1>1. /\ toClient = <<>> /\ toServer = <<>> /\ outbox = <<>> /\ lines < Len(text)
        /\ UNCHANGED case /\ printed' = printed /\ toClient' = toClient /\ outbox' = outbox
        /\ toServer' = <<Text(Line(lines + 1))>> /\ lines' = lines + 1
    BY DEF SendLine, ServerSide, Lock, Turns, None
  <1>2. PICK n \in Nat : n = lines /\ n < Len(text)
    BY <1>1, OfCase DEF Lock, Places
  <1>3. PICK x \in Words : x = Line(n + 1)
    BY <1>2, TextGrows DEF Lock
  <1>4. PICK m \in Message : m = Text(x) /\ m.words = x
    BY TextMessage
  <1>5. toServer' = <<m>>
    BY <1>1, <1>2, <1>3, <1>4
  <1>6. /\ WordsOf(toClient) = <<>> /\ WordsOf(outbox) = <<>> /\ WordsOf(toServer) = <<>>
        /\ WordsOf(toClient') = <<>> /\ WordsOf(outbox') = <<>> /\ WordsOf(toServer') = x
    BY <1>1, <1>4, <1>5, WordsUnderWay
  <1>7. PICK q \in Words : q = printed
    BY DEF Content
  <1>8. PICK k \in Words : k = Kept
    OBVIOUS
  <1>9. Total(q, <<>>, <<>>, k, <<>>) = q \o k
    BY TotalNone
  <1>10. Total(q, <<>>, <<>>, k, x) = (q \o k) \o x
    BY TotalSent
  <1>11. TextUpTo(n + 1) = TextUpTo(n) \o x
    BY <1>2, <1>3, TextGrows DEF Lock
  <1>12. PICK j : j = n + 1
    OBVIOUS
  <1>13. TextUpTo(j)' = TextUpTo(j)
    BY <1>1, SameTextUpTo
  <1>14. q \o k = TextUpTo(n)
    BY <1>2, <1>6, <1>7, <1>8, <1>9 DEF Content
  <1>15. Total(printed', WordsOf(toClient'), WordsOf(outbox'), Kept', WordsOf(toServer')) = TextUpTo(j)'
    BY <1>1, <1>6, <1>7, <1>8, <1>10, <1>11, <1>12, <1>13, <1>14
  <1> QED BY <1>1, <1>2, <1>7, <1>12, <1>15 DEF Content, WordsOf

LEMMA SyncContent ==
  ASSUME Lock, Content, UNCHANGED <<case, printed, lines, outbox>>, Kept' = Kept,
         WordsOf(toClient') = WordsOf(toClient), WordsOf(toServer') = WordsOf(toServer)
  PROVE  Content'
  <1>1. PICK n : n = lines
    OBVIOUS
  <1>2. TextUpTo(n)' = TextUpTo(n)
    BY SameTextUpTo
  <1>3. Total(printed', WordsOf(toClient'), WordsOf(outbox'), Kept', WordsOf(toServer')) = TextUpTo(n)'
    BY <1>1, <1>2 DEF Content
  <1> QED BY <1>1, <1>3 DEF Content, WordsOf

LEMMA ResetMessage == Reset \in Message /\ Reset.words = <<>>
  BY EmptySeq DEF Reset, Message, Words

LEMMA ClientOrdered ==
  ASSUME Lock, Ordered, Client
  PROVE  Ordered'
  <1>0. UNCHANGED case /\ worker' = worker /\ UNCHANGED local /\ outbox' = outbox
    BY DEF Client, Sync, Synced, SendLine, GetAnswer, Shutdown, GetFinal, ServerSide
  <1>1. Kept' = Kept
    BY <1>0, SameKept
  <1>2. Kept \in Words
    BY KeptReading, NoWords DEF Kept, Lock, Places
  <1>3. Read' = Read
    <2>1. lines \in Nat
      BY OfCase DEF Lock, Places
    <2>2. CASE client = "answer"
      <3>1. GetAnswer /\ toServer' = toServer /\ lines' = lines /\ client' # "answer"
        BY <2>2 DEF Client, Sync, Synced, SendLine, GetAnswer, Shutdown, GetFinal
      <3>2. toServer = <<>>
        BY <3>1 DEF GetAnswer, ReadMessage, Lock, Turns, None
      <3> QED BY <3>1, <3>2 DEF Read
    <2>3. CASE client = "getline" /\ SendLine
      <3>1. client' = "answer" /\ lines' = lines + 1 /\ toServer' # <<>>
        BY <2>3 DEF SendLine, Lock, Turns, None
      <3> QED BY <2>1, <2>3, <3>1 DEF Read
    <2>4. CASE client # "answer" /\ ~SendLine
      <3>1. client' # "answer" /\ lines' = lines
        BY <2>4 DEF Client, Sync, Synced, GetAnswer, Shutdown, GetFinal
      <3> QED BY <2>4, <3>1 DEF Read
    <2> QED BY <2>2, <2>3, <2>4 DEF SendLine
  <1>4. worker' \in {"read", "write"} => Modes'
    BY <1>0, <1>3 DEF Ordered, Modes, local, case
  <1>5. Content
    BY DEF Ordered
  <1>6. Content'
    <2>1. CASE Sync
      <3>1. /\ UNCHANGED <<printed, lines, toClient>>
            /\ toServer = <<>> /\ toServer' = <<Reset>>
        BY <2>1 DEF Sync, Lock, Turns, None
      <3>2. WordsOf(toServer) = <<>> /\ WordsOf(toServer') = <<>>
        BY <3>1, WordsUnderWay, ResetMessage
      <3> QED BY <1>0, <1>1, <1>5, <3>1, <3>2, SyncContent
    <2>2. CASE Synced
      <3>1. /\ UNCHANGED <<printed, lines, toServer>> /\ client = "synced"
            /\ toClient # <<>> /\ toClient' = <<>>
        BY <2>2, ReadOnly DEF Synced, Lock, Turns, ReadMessage
      <3>2. toClient = <<Ready>>
        BY <3>1 DEF Lock, Requests
      <3>3. WordsOf(toClient) = <<>> /\ WordsOf(toClient') = <<>>
        BY <3>1, <3>2, WordsUnderWay, ReadyMessage
      <3> QED BY <1>0, <1>1, <1>5, <3>1, <3>3, SyncContent
    <2>3. CASE SendLine
      BY <1>1, <1>2, <1>5, <2>3, SendContent
    <2>4. CASE GetAnswer
      BY <1>0, <1>1, <1>2, <1>5, <2>4, ReceiveContent DEF GetAnswer
    <2>5. CASE Shutdown
      BY <1>0, <1>1, <1>5, <2>5, SameContent DEF Shutdown
    <2>6. CASE GetFinal
      <3>1. CASE toClient = <<>>
        <4>1. UNCHANGED <<printed, lines, toServer, toClient>>
          BY <2>6, <3>1 DEF GetFinal, ReadMessage
        <4> QED BY <1>0, <1>1, <1>5, <4>1, SameContent
      <3>2. CASE toClient # <<>>
        BY <1>0, <1>1, <1>2, <1>5, <2>6, <3>2, ReceiveContent DEF GetFinal
      <3> QED BY <3>1, <3>2
    <2> QED BY <2>1, <2>2, <2>3, <2>4, <2>5, <2>6 DEF Client
  <1> QED BY <1>4, <1>6 DEF Ordered

\* The output of some sentences: their words, in one message.
LEMMA SentencesContent ==
  ASSUME Lock, Content, ReadLine(Request), Request.kind = "text",
         NEW s \in Seq(Words), Goto(OutputSentences(s), "read"),
         NEW k \in Words, Kept' = k, Kept \o Request.words = FlattenSeq(s) \o k
  PROVE  Content'
  <1>1. PICK m \in Message : OutputSentences(s) = <<m>> /\ m.words = FlattenSeq(s)
    BY OutputOne
  <1>2. Kept \in Words
    BY KeptReading DEF ReadLine
  <1>3. Goto(<<m>>, "read") /\ Kept \o Request.words = m.words \o k
    BY <1>1
  <1> QED BY <1>2, <1>3, RequestWords, AnswerContent

\* What is kept after an answer.
LEMMA KeptNext ==
  ASSUME worker' \in {"read", "write"}, doc' = <<>>,
         NEW p \in Sentences, par' = p, NEW b \in Words, buffer' = b,
         NEW s \in Words, sentence' = s, NEW a \in Words, av' = a
  PROVE  /\ Kept' \in Words
         /\ s = <<>> /\ a = <<>> => Kept' = FlattenSeq(p) \o b
         /\ p = <<>> /\ s = <<>> => Kept' = b \o a
         /\ p = <<>> /\ b = <<>> /\ a = <<>> => Kept' = s
  <1>1. Kept' = Buffered(<<>>, p, b, s, a)
    BY DEF Kept, Buffered
  <1>2. Buffered(<<>>, p, b, s, a) \in Words
    BY BufferedForms
  <1>3. Buffered(<<>>, p, b, <<>>, <<>>) = FlattenSeq(p) \o b
    BY BufferedForms
  <1>4. Buffered(<<>>, <<>>, b, <<>>, a) = b \o a
    BY BufferedForms
  <1>5. Buffered(<<>>, <<>>, <<>>, s, <<>>) = s
    BY BufferedForms
  <1> QED BY <1>1, <1>2, <1>3, <1>4, <1>5

\* Lines read, before and after one is.
LEMMA ReadNext ==
  ASSUME Lock, ReadLine(Request), Request.kind = "text"
  PROVE  /\ Read = lines - 1 /\ Read' = lines /\ lines \in 1..Len(text) /\ Len(text) \in Nat
         /\ text' = text /\ options' = options /\ worker = "read"
  <1>1. client = "answer" /\ lines \in 1..Len(text) /\ toServer # <<>>
    BY TextRequest DEF ReadLine, ReadMessage
  <1>2. toServer' = <<>> /\ client' = client /\ lines' = lines
    BY ReadOnly DEF ReadLine, ReadMessage, ClientSide, Lock, Turns
  <1>3. text' = text /\ options' = options /\ worker = "read"
    BY DEF ReadLine, ClientSide, case
  <1>4. Len(text) \in Nat
    BY OfCase DEF Lock
  <1> QED BY <1>1, <1>2, <1>3, <1>4 DEF Read

LEMMA ResetOrdered ==
  ASSUME Lock, Ordered, ResetStats
  PROVE  Ordered'
  <1>1. /\ ReadLine(Request) /\ Request = Reset /\ Goto(<<Ready>>, "read") /\ UNCHANGED local
        /\ worker = "read" /\ client' = client /\ lines' = lines /\ UNCHANGED case
        /\ toServer # <<>>
    BY DEF ResetStats, ReadLine, ReadMessage, ClientSide
  <1>2. worker' = "write"
    BY <1>1, GotoOne
  <1>3. Kept' = Kept /\ Kept \in Words
    BY <1>1, <1>2, SameKept, KeptReading
  <1>4. client # "answer"
    <2> SUFFICES ASSUME client = "answer" PROVE FALSE
      OBVIOUS
    <2>1. toServer = <<Text(Line(lines))>>
      BY <1>1 DEF Lock, Requests
    <2>2. Request = Text(Line(lines))
      BY <2>1 DEF Request
    <2> QED BY <1>1, <2>2 DEF Text, Reset
  <1>5. Read' = Read
    BY <1>1, <1>4 DEF Read
  <1>6. Modes'
    BY <1>1, <1>5 DEF Ordered, Modes, local, case
  <1>7. Content'
    <2>1. PICK k \in Words : k = Kept
      BY <1>3
    <2>2. Request.words = <<>> /\ Ready.words = <<>> /\ Ready \in Message
      BY <1>1, ResetMessage, ReadyMessage
    <2>3. k \o <<>> = <<>> \o k
      BY Neutral
    <2>4. Kept \o Request.words = Ready.words \o k /\ Kept' = k
      BY <1>3, <2>1, <2>2, <2>3
    <2> QED BY <1>1, <1>3, <2>2, <2>4, RequestWords, AnswerContent DEF Ordered
  <1> QED BY <1>6, <1>7 DEF Ordered

LEMMA CorefOrdered ==
  ASSUME Lock, Ordered, ProcessLineCoref, \A c \in Cases : Answered(c)
  PROVE  Ordered'
  <1>1. ReadLine(Request) /\ Request.kind = "text" /\ options.Coref /\ Goto(<<Ready>>, "read")
    BY DEF ProcessLineCoref
  <1>2. PICK w \in Words : w = Request.words
    BY <1>1, RequestWords
  <1>3. w # <<>>
    BY <1>1, <1>2, CorefLine
  <1>4. PICK s \in Splits(w, FALSE) :
          /\ buffer' = s.retained /\ par' = par \o s.returned /\ doc' = doc
          /\ av' = <<>> /\ sentence' = sentence
    BY <1>2, <1>3 DEF ProcessLineCoref
  <1>5. Conserves(s, buffer \o w)
    BY SplitsConserve DEF Lock, Buffers
  <1>6. PICK R \in Words : R = FlattenSeq(s.returned)
    BY <1>5 DEF Conserves
  <1>7. PICK b \in Words : b = s.retained
    BY <1>5 DEF Conserves
  <1>8. PICK F \in Words : F = FlattenSeq(par)
    BY FlattenType DEF Lock, Buffers, Words
  <1>9. FlattenSeq(par') = Cat(F, R) /\ par' \in Sentences
    <2>1. s.returned \in Seq(Words) /\ par \in Seq(Words)
      BY <1>5 DEF Conserves, Lock, Buffers
    <2>2. FlattenSeq(par \o s.returned) = FlattenSeq(par) \o FlattenSeq(s.returned)
      BY <2>1, FlattenConcat DEF Words
    <2>3. par \o s.returned \in Seq(Words)
      BY <2>1, ConcatProperties
    <2> QED BY <1>4, <1>6, <1>8, <2>2, <2>3 DEF Sentences, Cat
  <1>10. PICK p \in Sentences : p = par'
    BY <1>9
  <1>11. sentence = <<>> /\ av = <<>> /\ worker = "read" /\ doc = <<>>
    BY <1>1 DEF Ordered, Modes, Lock, Buffers, ReadLine
  <1>12. worker' = "write"
    BY <1>1, GotoOne
  <1>13. Kept' = Cat(FlattenSeq(p), b)
    BY <1>4, <1>7, <1>10, <1>11, <1>12, KeptNext, NoWords DEF Cat
  <1>14. PICK u \in Words : u = buffer
    BY DEF Lock, Buffers
  <1>15. Kept = Cat(F, u)
    BY <1>8, <1>11, <1>14, KeptReading DEF Cat
  <1>16. Cat(R, b) = Cat(u, w)
    BY <1>5, <1>6, <1>7, <1>14 DEF Conserves, Cat
  <1>17. Cat(Cat(F, R), b) = Cat(Cat(F, u), w)
    BY <1>16, CatCat
  <1>18. PICK k \in Words : k = Cat(Cat(F, R), b)
    BY CatWords
  <1>19. Kept' = k /\ Cat(Kept, w) = k
    BY <1>9, <1>10, <1>13, <1>15, <1>17, <1>18
  <1>20. Ready.words \o k = k
    BY ReadyMessage, Neutral
  <1>21. Kept \o Request.words = Ready.words \o k /\ Kept \in Words
    BY <1>2, <1>11, <1>19, <1>20, KeptReading DEF Cat
  <1>22. Content'
    BY <1>1, <1>19, <1>21, ReadyMessage, RequestWords, AnswerContent DEF Ordered
  <1>23. Modes'
    BY <1>1, <1>4, <1>11, ReadNext DEF Modes
  <1> QED BY <1>22, <1>23 DEF Ordered

\* Outside coreference an answer is the sentences in ls', and what is kept is in
\* the buffer and av, or in the sentence.
LEMMA LineOrdered ==
  ASSUME Lock, Ordered, ReadLine(Request), Request.kind = "text", ~options.Coref,
         ls' \in Seq(Words), Goto(OutputSentences(ls'), "read"), UNCHANGED <<par, doc>>,
         NEW b \in Words, buffer' = b, NEW s \in Words, sentence' = s, NEW a \in Words, av' = a,
         NEW w \in Words, w = Request.words, NEW r \in Words, r = FlattenSeq(ls'),
         \/ /\ sentence = <<>> /\ s = <<>>
            /\ Cat(Cat(buffer, av), w) = Cat(r, Cat(b, a))
         \/ /\ buffer = <<>> /\ av = <<>> /\ b = <<>> /\ a = <<>>
            /\ Cat(sentence, w) = Cat(r, s),
         Modes'
  PROVE  Ordered'
  <1>1. worker = "read" /\ worker' = "write" /\ doc' = <<>> /\ par = <<>> /\ par' = <<>>
    <2>1. worker = "read" /\ doc = <<>>
      BY DEF ReadLine, Lock, Buffers
    <2>2. PICK m \in Message : OutputSentences(ls') = <<m>>
      BY OutputOne
    <2> QED BY <2>1, <2>2, GotoOne DEF Ordered, Modes
  <1>2. PICK p \in Sentences : p = <<>> /\ par' = p
    BY <1>1, EmptySeq DEF Sentences
  <1>3. /\ Kept' \in Words
        /\ s = <<>> => Kept' = Cat(b, a)
        /\ b = <<>> /\ a = <<>> => Kept' = s
    BY <1>1, <1>2, KeptNext DEF Cat
  <1>4. /\ sentence = <<>> => Kept = Cat(buffer, av)
        /\ buffer = <<>> /\ av = <<>> => Kept = sentence
    BY <1>1, KeptReading DEF Cat
  <1>5. PICK k \in Words : k = Kept'
    BY <1>3
  <1>6. Cat(Kept, w) = Cat(r, k)
    BY <1>3, <1>4, <1>5
  <1>7. PICK q \in Seq(Words) : q = ls'
    OBVIOUS
  <1>8. Kept \o Request.words = FlattenSeq(q) \o k
    BY <1>6, <1>7 DEF Cat
  <1>9. Content'
    BY <1>5, <1>7, <1>8, SentencesContent DEF Ordered
  <1> QED BY <1>1, <1>9 DEF Ordered

\* The splitter's part, in the form of the lemma before.
LEMMA SplitInto ==
  ASSUME buffer \in Words, NEW v \in Words, NEW flush \in BOOLEAN, NEW s \in Splits(v, flush),
         ls' = s.returned, buffer' = s.retained
  PROVE  \E r, b \in Words : /\ ls' \in Seq(Words) /\ r = FlattenSeq(ls') /\ b = buffer'
                             /\ Cat(r, b) = Cat(buffer, v)
                             /\ flush => b = <<>>
  <1>1. Conserves(s, buffer \o v) /\ (flush => s.retained = <<>>)
    BY SplitsConserve
  <1>2. PICK r \in Words : r = FlattenSeq(s.returned)
    BY <1>1 DEF Conserves
  <1>3. PICK b \in Words : b = s.retained
    BY <1>1 DEF Conserves
  <1>4. r \o b = buffer \o v /\ s.returned \in Seq(Words)
    BY <1>1, <1>2, <1>3 DEF Conserves
  <1>5. Cat(r, b) = Cat(buffer, v)
    BY <1>4 DEF Cat
  <1> QED BY <1>1, <1>2, <1>3, <1>4, <1>5

LEMMA AnalyzeLineOrdered ==
  ASSUME Lock, Ordered, AnalyzeLine
  PROVE  Ordered'
  <1>1. /\ ReadLine(Request) /\ Request.kind = "text" /\ ~options.Coref
        /\ options.InputFormat = PLAIN
        /\ Goto(OutputSentences(ls'), "read") /\ UNCHANGED <<av, sentence, par, doc>>
    BY DEF AnalyzeLine, Reading
  <1>2. PICK w \in Words : w = Request.words
    BY <1>1, RequestWords
  <1>3. PICK s \in Splits(w, options.AlwaysFlush) : ls' = s.returned /\ buffer' = s.retained
    BY <1>2 DEF AnalyzeLine
  <1>4. PICK r, b \in Words : /\ ls' \in Seq(Words) /\ r = FlattenSeq(ls') /\ b = buffer'
                              /\ Cat(r, b) = Cat(buffer, w)
    BY <1>3, SplitInto, OfCase DEF Lock, Buffers
  <1>5. av = <<>> /\ sentence = <<>>
    BY <1>1 DEF Ordered, Modes, ReadLine
  <1>6. PICK u \in Words : u = buffer
    BY DEF Lock, Buffers
  <1>7. PICK e \in Words : e = <<>>
    BY NoWords
  <1>8. Cat(u, e) = u /\ Cat(b, e) = b
    BY <1>7, NoneBehind
  <1>9. Modes'
    <2>1. SPLITTED # PLAIN /\ TOKEN # PLAIN
      BY DEF SPLITTED, PLAIN, TOKEN
    <2> QED BY <1>1, <1>5, <2>1, ReadNext DEF Ordered, Modes, ReadLine
  <1>10. sentence' = e /\ av' = e
    BY <1>1, <1>5, <1>7
  <1>11. Cat(Cat(buffer, av), w) = Cat(r, Cat(b, e))
    BY <1>4, <1>5, <1>6, <1>7, <1>8
  <1> QED BY <1>1, <1>2, <1>4, <1>5, <1>7, <1>9, <1>10, <1>11, LineOrdered

LEMMA AccumulateOrdered ==
  ASSUME Lock, Ordered, AccumulateToken
  PROVE  Ordered'
  <1>1. /\ ReadLine(Request) /\ Request.kind = "text" /\ ~options.Coref
        /\ options.InputFormat = TOKEN /\ Len(av) + 1 <= Batch
        /\ Goto(OutputSentences(ls), "read") /\ av' = av \o Request.words
        /\ UNCHANGED <<sentence, par, doc, buffer, ls>>
    BY DEF AccumulateToken, Reading
  <1>2. PICK w \in Words : w = Request.words
    BY <1>1, RequestWords
  <1>3. SPLITTED # TOKEN /\ TOKEN # PLAIN
    BY DEF SPLITTED, PLAIN, TOKEN
  <1>4. Read = lines - 1 /\ Read' = lines /\ lines \in 1..Len(text) /\ Len(text) \in Nat
        /\ text' = text /\ options' = options /\ worker = "read"
    BY <1>1, ReadNext
  <1>5. sentence = <<>> /\ ls = <<>> /\ Len(av) = lines - 1
    BY <1>1, <1>4 DEF Ordered, Modes
  <1>6. PICK v \in Words : v = av
    BY DEF Lock, Buffers
  <1>7. Len(w) = 1
    BY <1>1, <1>2, TextRequest, LineWords DEF Lock
  <1>8. av' = Cat(v, w) /\ av' \in Words /\ Len(av') = Len(av) + 1
    <2>1. Len(v \o w) = Len(v) + Len(w) /\ Len(v) \in Nat
      BY ConcatProperties, LenProperties DEF Words
    <2> QED BY <1>1, <1>2, <1>6, <1>7, <2>1, Groups DEF Cat
  <1>9. PICK a \in Words : a = av'
    BY <1>8
  <1>10. PICK u \in Words : u = buffer
    BY DEF Lock, Buffers
  <1>11. PICK e \in Words : e = <<>>
    BY NoWords
  <1>12. ls' = <<>> /\ ls' \in Seq(Words) /\ FlattenSeq(ls') = e /\ sentence' = e /\ buffer' = u
    BY <1>1, <1>5, <1>10, <1>11, FlattenEmpty, EmptySeq
  <1>13. Cat(Cat(u, v), w) = Cat(e, Cat(u, a))
    <2>1. Cat(Cat(u, v), w) = Cat(u, Cat(v, w))
      BY CatCat
    <2>2. Cat(u, a) \in Words
      BY CatWords
    <2>3. Cat(e, Cat(u, a)) = Cat(u, a)
      BY <1>11, <2>2, NoneBehind
    <2> QED BY <1>8, <1>9, <2>1, <2>3
  <1>14. Modes'
    <2>1. Len(av') = Read'
      BY <1>4, <1>5, <1>8
    <2> QED BY <1>1, <1>3, <1>4, <1>5, <1>12, <2>1 DEF Ordered, Modes
  <1>15. Goto(OutputSentences(ls'), "read")
    BY <1>1
  <1>16. sentence = <<>> /\ e = <<>> /\ Cat(Cat(buffer, av), w) = Cat(e, Cat(u, a))
    BY <1>5, <1>6, <1>10, <1>11, <1>13
  <1>17. /\ ReadLine(Request) /\ Request.kind = "text" /\ ~options.Coref /\ UNCHANGED <<par, doc>>
         /\ w = Request.words /\ av' = a /\ e = FlattenSeq(ls')
    BY <1>1, <1>2, <1>9, <1>12
  <1> QED BY <1>12, <1>14, <1>15, <1>16, <1>17, LineOrdered

LEMMA BatchOrdered ==
  ASSUME Lock, Ordered, AnalyzeBatch, \A c \in Cases : Followed(c)
  PROVE  Ordered'
  <1>1. /\ ReadLine(Request) /\ Request.kind = "text" /\ ~options.Coref
        /\ options.InputFormat = TOKEN /\ Len(av) + 1 > Batch
        /\ Goto(OutputSentences(ls'), "read") /\ av' = <<>>
        /\ UNCHANGED <<sentence, par, doc>>
    BY DEF AnalyzeBatch, Reading
  <1>2. PICK w \in Words : w = Request.words
    BY <1>1, RequestWords
  <1>3. SPLITTED # TOKEN /\ TOKEN # PLAIN
    BY DEF SPLITTED, PLAIN, TOKEN
  <1>4. Read = lines - 1 /\ Read' = lines /\ lines \in 1..Len(text) /\ Len(text) \in Nat
        /\ text' = text /\ options' = options /\ worker = "read"
    BY <1>1, ReadNext
  <1>5. sentence = <<>> /\ Len(av) = lines - 1
    BY <1>1, <1>4 DEF Ordered, Modes
  <1>6. lines = Len(text)
    <2>1. Len(text) <= Batch + 1 /\ Batch \in Nat
      BY <1>1, OfFollowed DEF Lock
    <2> QED BY <1>1, <1>4, <1>5, <2>1
  <1>7. PICK v \in Words : v = av
    BY DEF Lock, Buffers
  <1>8. PICK x \in Words : x = Cat(v, w)
    BY CatWords
  <1>9. PICK s \in Splits(x, FALSE) : ls' = s.returned /\ buffer' = s.retained
    BY <1>2, <1>7, <1>8 DEF AnalyzeBatch, Cat
  <1>10. PICK r, b \in Words : /\ ls' \in Seq(Words) /\ r = FlattenSeq(ls') /\ b = buffer'
                               /\ Cat(r, b) = Cat(buffer, x)
    BY <1>9, SplitInto, ZenonT(80) DEF Lock, Buffers
  <1>11. PICK u \in Words : u = buffer
    BY DEF Lock, Buffers
  <1>12. PICK e \in Words : e = <<>>
    BY NoWords
  <1>13. Cat(Cat(u, v), w) = Cat(u, Cat(v, w)) /\ Cat(b, e) = b
    BY <1>12, CatCat, NoneBehind
  <1>14. sentence = <<>> /\ e = <<>> /\ Cat(Cat(buffer, av), w) = Cat(r, Cat(b, e))
    BY <1>5, <1>7, <1>8, <1>10, <1>11, <1>12, <1>13
  <1>15. Modes'
    BY <1>1, <1>3, <1>4, <1>5, <1>6 DEF Ordered, Modes
  <1>16. /\ UNCHANGED <<par, doc>> /\ w = Request.words /\ av' = e /\ sentence' = e
    BY <1>1, <1>2, <1>5, <1>12
  <1> QED BY <1>1, <1>10, <1>14, <1>15, <1>16, LineOrdered

LEMMA AddWordOrdered ==
  ASSUME Lock, Ordered, AddWord
  PROVE  Ordered'
  <1>1. /\ ReadLine(Request) /\ Request.kind = "text" /\ ~options.Coref
        /\ options.InputFormat = SPLITTED
        /\ Goto(OutputSentences(ls'), "read") /\ sentence' = sentence \o Request.words
        /\ ls' = <<>> /\ UNCHANGED <<av, par, doc, buffer>>
    BY DEF AddWord, Reading
  <1>2. PICK w \in Words : w = Request.words
    BY <1>1, RequestWords
  <1>3. SPLITTED # TOKEN /\ SPLITTED # PLAIN
    BY DEF SPLITTED, PLAIN, TOKEN
  <1>4. options' = options /\ worker = "read"
    BY <1>1, ReadNext
  <1>5. av = <<>> /\ buffer = <<>>
    BY <1>1, <1>4 DEF Ordered, Modes
  <1>6. PICK u \in Words : u = sentence
    BY DEF Lock, Buffers
  <1>7. PICK s \in Words : s = Cat(u, w)
    BY CatWords
  <1>8. PICK e \in Words : e = <<>>
    BY NoWords
  <1>9. ls' \in Seq(Words) /\ FlattenSeq(ls') = e
    BY <1>1, <1>8, FlattenEmpty, EmptySeq
  <1>10. Cat(e, s) = s
    BY <1>8, NoneBehind
  <1>11. buffer = <<>> /\ av = <<>> /\ e = <<>> /\ Cat(sentence, w) = Cat(e, s)
    BY <1>5, <1>6, <1>7, <1>8, <1>10
  <1>12. Modes'
    BY <1>1, <1>3, <1>4, <1>5 DEF Ordered, Modes
  <1>13. /\ UNCHANGED <<par, doc>> /\ w = Request.words /\ av' = e /\ buffer' = e /\ sentence' = s
         /\ e = FlattenSeq(ls')
    BY <1>1, <1>2, <1>5, <1>6, <1>7, <1>8, <1>9 DEF Cat
  <1> QED BY <1>1, <1>9, <1>11, <1>12, <1>13, LineOrdered

LEMMA EndSentenceOrdered ==
  ASSUME Lock, Ordered, EndSentence, \A c \in Cases : Followed(c)
  PROVE  Ordered'
  <1>1. /\ ReadLine(Request) /\ Request.kind = "text" /\ ~options.Coref /\ Request.words = <<>>
        /\ options.InputFormat = SPLITTED
        /\ Goto(OutputSentences(ls'), "read") /\ ls' = Append(ls, sentence) /\ sentence' = <<>>
        /\ UNCHANGED <<av, par, doc, buffer>>
    BY DEF EndSentence, Reading
  <1>2. PICK e \in Words : e = <<>>
    BY NoWords
  <1>3. SPLITTED # TOKEN /\ SPLITTED # PLAIN
    BY DEF SPLITTED, PLAIN, TOKEN
  <1>4. Read = lines - 1 /\ Read' = lines /\ lines \in 1..Len(text) /\ Len(text) \in Nat
        /\ text' = text /\ options' = options /\ worker = "read"
    BY <1>1, ReadNext
  <1>5. av = <<>> /\ buffer = <<>> /\ (ls # <<>> => Read # 0 /\ text[Read] = 0)
    BY <1>1, <1>4 DEF Ordered, Modes
  <1>6. text[lines] = 0
    <2>1. Line(lines) = <<>>
      BY <1>1, TextRequest
    <2> QED BY <1>4, <2>1, LineWords DEF Lock
  <1>7. ls = <<>>
    <2> SUFFICES ASSUME ls # <<>> PROVE FALSE
      OBVIOUS
    <2>1. PICK n \in 1..(Len(text) - 1) : n = lines - 1
      BY <1>4, <1>5
    <2>2. text[n] = 0 /\ text[n + 1] = 0
      BY <1>4, <1>5, <1>6, <2>1
    <2>3. text[n] # 0 \/ text[n + 1] # 0
      BY <1>1, OfFollowed DEF Lock
    <2> QED BY <2>2, <2>3
  <1>8. PICK u \in Words : u = sentence
    BY DEF Lock, Buffers
  <1>9. ls' = <<u>> /\ ls' \in Seq(Words) /\ FlattenSeq(ls') = u
    <2>1. ls' = <<u>> /\ <<u>> \in Seq(Words)
      BY <1>1, <1>7, <1>8
    <2>2. FlattenSeq(<<u>>) = u
      BY FlattenOne DEF Words
    <2> QED BY <2>1, <2>2
  <1>10. Cat(u, e) = u
    BY <1>2, NoneBehind
  <1>11. buffer = <<>> /\ av = <<>> /\ e = <<>> /\ Cat(sentence, e) = Cat(u, e)
    BY <1>2, <1>5, <1>8
  <1>12. Modes'
    BY <1>1, <1>3, <1>4, <1>5, <1>6 DEF Ordered, Modes
  <1>13. /\ UNCHANGED <<par, doc>> /\ e = Request.words /\ av' = e /\ buffer' = e /\ sentence' = e
         /\ u = FlattenSeq(ls')
    BY <1>1, <1>2, <1>5, <1>9
  <1> QED BY <1>1, <1>9, <1>11, <1>12, <1>13, LineOrdered

LEMMA AnswerOrdered ==
  ASSUME Lock, Ordered, Answer, options.OutputFormat # TOKEN, \A c \in Cases : Followed(c)
  PROVE  Ordered'
  <1>1. \A c \in Cases : Answered(c)
    BY DEF Followed
  <1>2. ~TokenizeLine
    BY DEF TokenizeLine
  <1> QED BY <1>1, <1>2, ResetOrdered, CorefOrdered, AnalyzeLineOrdered, AccumulateOrdered,
             BatchOrdered, AddWordOrdered, EndSentenceOrdered DEF Answer

\* When the text has ended, what is kept goes out.
LEMMA FlushOrdered ==
  ASSUME Lock, Ordered, Flush, options.OutputFormat # TOKEN
  PROVE  Ordered'
  <1>1. EndOfText
    BY DEF Flush, PostProcessCoreference, FlushTokens, FlushSplitter, FlushSentence
  <1>2. /\ worker = "read" /\ toServer = <<>> /\ toServer' = <<>> /\ UNCHANGED case
        /\ printed' = printed /\ lines' = lines /\ toClient' = toClient
    BY <1>1 DEF EndOfText, ClientSide
  <1>3. client = "final" /\ toClient = <<>> /\ outbox = <<>>
    BY <1>1, <1>2 DEF EndOfText, Lock, Places, Turns, None
  <1>4. Modes
    BY <1>2 DEF Ordered
  <1>5. Kept \in Words
    BY <1>2, KeptReading
  <1>6. ASSUME NEW messages, messages = <<>> \/ \E m \in Message : messages = <<m>>,
               Goto(messages, "close"), WordsOf(messages) = Kept
        PROVE  Ordered'
    <2>1. outbox' = messages /\ worker' \in {"write_last", "close"}
      BY <1>6 DEF Goto
    <2>2. Kept' = <<>>
      BY <2>1 DEF Kept
    <2>3. PICK q \in Words : q = printed
      BY DEF Ordered, Content
    <2>4. PICK k \in Words : k = Kept
      BY <1>5
    <2>5. PICK e \in Words : e = <<>>
      BY NoWords
    <2>6. Total(q, <<>>, <<>>, k, <<>>) = q \o k
      BY TotalNone
    <2>7. Total(q, <<>>, k, e, <<>>) = q \o (k \o e)
      BY TotalAnswer
    <2>8. k \o e = k
      BY <2>5, Neutral
    <2>9. Total(q, <<>>, k, <<>>, <<>>) = Total(q, <<>>, <<>>, k, <<>>)
      BY <2>5, <2>6, <2>7, <2>8
    <2>10. PICK n : n = lines
      OBVIOUS
    <2>11. TextUpTo(n)' = TextUpTo(n)
      BY <1>2, SameTextUpTo
    <2>12. /\ WordsOf(toClient) = <<>> /\ WordsOf(outbox) = <<>> /\ WordsOf(toServer) = <<>>
           /\ WordsOf(toClient') = <<>> /\ WordsOf(outbox') = k /\ WordsOf(toServer') = <<>>
      BY <1>2, <1>3, <1>6, <2>1, <2>4, WordsUnderWay
    <2>13. Total(q, <<>>, <<>>, k, <<>>) = TextUpTo(n)
      BY <2>3, <2>4, <2>10, <2>12 DEF Ordered, Content
    <2>14. Total(printed', WordsOf(toClient'), WordsOf(outbox'), Kept', WordsOf(toServer')) = TextUpTo(n)'
      BY <1>2, <2>2, <2>3, <2>9, <2>11, <2>12, <2>13
    <2>15. Content'
      BY <1>2, <2>3, <2>10, <2>14 DEF Content, WordsOf
    <2> QED BY <2>1, <2>15 DEF Ordered
  <1>7. CASE PostProcessCoreference
    <2>1. options.Coref /\ sentence = <<>> /\ av = <<>>
      BY <1>4, <1>7 DEF PostProcessCoreference, Modes
    <2>2. PICK s \in Splits(av, TRUE), m \in Message :
            /\ s.returned \in Seq(Words) /\ s.retained = <<>>
            /\ par' = par \o s.returned /\ Goto(<<m>>, "close") /\ m.words = FlattenSeq(par')
      BY <1>7, CoreferenceFlush
    <2>3. Conserves(s, buffer \o av)
      BY SplitsConserve DEF Lock, Buffers
    <2>4. PICK u \in Words : u = buffer
      BY DEF Lock, Buffers
    <2>5. PICK R \in Words : R = FlattenSeq(s.returned)
      BY <2>3 DEF Conserves
    <2>6. R = u
      <3>1. R \o <<>> = u \o <<>>
        BY <2>1, <2>2, <2>3, <2>4, <2>5 DEF Conserves
      <3>2. R \o <<>> = R /\ u \o <<>> = u
        BY Neutral
      <3> QED BY <3>1, <3>2
    <2>7. FlattenSeq(par \o s.returned) = FlattenSeq(par) \o R
      <3>1. FlattenSeq(par \o s.returned) = FlattenSeq(par) \o FlattenSeq(s.returned)
        BY <2>2, FlattenConcat DEF Lock, Buffers, Words
      <3> QED BY <2>5, <3>1
    <2>8. Kept = FlattenSeq(par) \o u
      BY <1>2, <2>1, <2>4, KeptReading
    <2>9. m.words = Kept
      BY <2>2, <2>6, <2>7, <2>8
    <2>10. WordsOf(<<m>>) = Kept
      BY <2>9, WordsUnderWay
    <2> QED BY <1>6, <2>2, <2>10
  <1>8. CASE FlushSplitter
    <2>1. /\ ~options.Coref /\ options.InputFormat # SPLITTED
          /\ Goto(OutputSentences(ls'), "close")
      BY <1>8 DEF FlushSplitter
    <2>2. PICK s \in Splits(av, TRUE) : ls' = s.returned /\ buffer' = s.retained
      BY <1>8 DEF FlushSplitter
    <2>3. PICK r, b \in Words : /\ ls' \in Seq(Words) /\ r = FlattenSeq(ls')
                                /\ Cat(r, b) = Cat(buffer, av) /\ b = <<>>
      <3>1. PICK v \in Words : v = av
        BY DEF Lock, Buffers
      <3>2. \E r, b \in Words : /\ ls' \in Seq(Words) /\ r = FlattenSeq(ls') /\ b = buffer'
                                /\ Cat(r, b) = Cat(buffer, v) /\ (TRUE => b = <<>>)
        BY <2>2, <3>1, SplitInto DEF Lock, Buffers
      <3> QED BY <3>1, <3>2
    <2>4. par = <<>> /\ sentence = <<>>
      <3>1. options.InputFormat \in {PLAIN, TOKEN, SPLITTED}
        BY OfCase DEF Lock
      <3> QED BY <1>4, <2>1, <3>1 DEF Modes
    <2>5. Kept = Cat(buffer, av)
      BY <1>2, <2>4, KeptReading DEF Cat
    <2>6. r = Kept
      <3>1. Cat(r, b) = r
        BY <2>3, NoneBehind
      <3> QED BY <2>3, <2>5, <3>1
    <2>7. PICK q \in Seq(Words) : q = ls'
      BY <2>3
    <2>8. PICK m \in Message : OutputSentences(q) = <<m>> /\ m.words = FlattenSeq(q)
      BY OutputOne
    <2>9. WordsOf(<<m>>) = Kept /\ Goto(<<m>>, "close")
      BY <2>1, <2>3, <2>6, <2>7, <2>8, WordsUnderWay
    <2> QED BY <1>6, <2>9
  <1>9. CASE FlushSentence
    <2>1. /\ ~options.Coref /\ options.InputFormat = SPLITTED
          /\ ls' = IF sentence = <<>> THEN ls ELSE Append(ls, sentence)
          /\ Goto(IF sentence = <<>> THEN <<>> ELSE OutputSentences(ls'), "close")
      BY <1>9 DEF FlushSentence
    <2>2. par = <<>> /\ av = <<>> /\ buffer = <<>> /\ (ls # <<>> => sentence = <<>>)
      BY <1>4, <2>1 DEF Modes
    <2>3. Kept = sentence
      BY <1>2, <2>2, KeptReading
    <2>4. CASE sentence = <<>>
      <3>1. Goto(<<>>, "close") /\ WordsOf(<<>>) = Kept
        BY <2>1, <2>3, <2>4, WordsUnderWay
      <3> QED BY <1>6, <3>1
    <2>5. CASE sentence # <<>>
      <3>1. PICK u \in Words : u = sentence
        BY DEF Lock, Buffers
      <3>2. ls' = <<u>> /\ <<u>> \in Seq(Words)
        <4>1. ls = <<>>
          BY <2>2, <2>5
        <4>2. ls' = Append(ls, sentence)
          BY <2>1, <2>5
        <4>3. Append(<<>>, u) = <<u>>
          OBVIOUS
        <4> QED BY <3>1, <4>1, <4>2, <4>3
      <3>3. PICK m \in Message : OutputSentences(<<u>>) = <<m>> /\ m.words = FlattenSeq(<<u>>)
        BY <3>2, OutputOne
      <3>4. FlattenSeq(<<u>>) = u
        BY FlattenOne DEF Words
      <3>5. WordsOf(<<m>>) = Kept /\ Goto(<<m>>, "close")
        BY <2>1, <2>3, <2>5, <3>1, <3>2, <3>3, <3>4, WordsUnderWay
      <3> QED BY <1>6, <3>5
    <2> QED BY <2>4, <2>5
  <1> QED BY <1>7, <1>8, <1>9 DEF Flush, FlushTokens

LEMMA StepOrdered ==
  ASSUME Lock, options.OutputFormat # TOKEN => Ordered, [Next]_vars, \A c \in Cases : Followed(c)
  PROVE  (options.OutputFormat # TOKEN => Ordered)'
  <1> SUFFICES ASSUME (options.OutputFormat # TOKEN)' PROVE Ordered'
    OBVIOUS
  <1>1. UNCHANGED case
    BY DEF Next, Client, Sync, Synced, SendLine, GetAnswer, Shutdown, GetFinal, Worker, Answer,
           ResetStats, ProcessLineCoref, TokenizeLine, AnalyzeLine, AccumulateToken, AnalyzeBatch,
           AddWord, EndSentence, ReadLine, Flush, PostProcessCoreference, FlushTokens, FlushSplitter,
           FlushSentence, EndOfText, WriteMessage, CloseWorker, ClientSide, Terminated, vars
  <1>2. options.OutputFormat # TOKEN
    BY <1>1 DEF case
  <1> QED BY <1>2, ClientOrdered, AnswerOrdered, FlushOrdered, WriteOrdered, CloseOrdered,
             StutterOrdered DEF Next, Worker, Terminated

\* No word is lost, repeated or out of order in a session whose answers the client can
\* follow: with what it has printed, those under way and those the worker keeps are the
\* text sent, whatever the text and wherever the splitter ends its sentences.
THEOREM TextInOrder ==
  ASSUME \A c \in Cases : Followed(c)
  PROVE  Spec => []InOrder
  <1> DEFINE Inv == options.OutputFormat # TOKEN => Ordered
  <1>1. \A c \in Cases : Answered(c)
    BY DEF Followed
  <1>2. Spec => []Lock
    BY <1>1, LockAlways
  <1>3. Init => Inv
    BY InitOrdered
  <1>4. Lock /\ Inv /\ [Next]_vars => Inv'
    BY StepOrdered
  <1>5. Lock /\ Inv => InOrder
    <2> SUFFICES ASSUME Lock, Ordered PROVE
          printed \o WordsOf(toClient) \o WordsOf(outbox) \o Kept \o WordsOf(toServer) = TextUpTo(lines)
      BY DEF InOrder
    <2>1. /\ WordsOf(toClient) \in Words /\ WordsOf(outbox) \in Words /\ WordsOf(toServer) \in Words
      BY WordsUnderWay, NoWords DEF Lock, Turns, AtMost1, None, Single
    <2>2. Kept \in Words
      BY KeptReading, NoWords DEF Kept, Lock, Places
    <2>3. printed \in Words
      BY DEF Ordered, Content
    <2> DEFINE p == printed
               c == WordsOf(toClient)
               o == WordsOf(outbox)
               k == Kept
               s == WordsOf(toServer)
    <2>4. Total(p, c, o, k, s) = TextUpTo(lines)
      BY DEF Ordered, Content
    <2>5. p \in Words /\ c \in Words /\ o \in Words /\ k \in Words /\ s \in Words
      BY <2>1, <2>2, <2>3
    <2> HIDE DEF p, c, o, k, s
    <2>6. Total(p, c, o, k, s) = Cat(p, Cat(c, Cat(o, Cat(k, s))))
      BY DEF Total, Cat
    <2>7. Cat(c, o) \in Words /\ Cat(p, c) \in Words
      BY <2>5, CatWords
    <2>8. Cat(Cat(p, c), o) \in Words
      BY <2>5, <2>7, CatWords
    <2>9. Cat(k, s) \in Words
      BY <2>5, CatWords
    <2>10. Cat(o, Cat(k, s)) \in Words
      BY <2>5, <2>9, CatWords
    <2>11. Cat(Cat(Cat(Cat(p, c), o), k), s) = Cat(Cat(Cat(p, c), o), Cat(k, s))
      BY <2>5, <2>8, CatCat
    <2>12. Cat(Cat(Cat(p, c), o), Cat(k, s)) = Cat(Cat(p, c), Cat(o, Cat(k, s)))
      BY <2>5, <2>7, <2>9, CatCat
    <2>13. Cat(Cat(p, c), Cat(o, Cat(k, s))) = Cat(p, Cat(c, Cat(o, Cat(k, s))))
      BY <2>5, <2>10, CatCat
    <2>14. p \o c \o o \o k \o s = Cat(Cat(Cat(Cat(p, c), o), k), s)
      BY DEF Cat
    <2> QED BY <2>4, <2>6, <2>11, <2>12, <2>13, <2>14 DEF p, c, o, k, s
  <1> HIDE DEF Inv
  <1> QED BY <1>2, <1>3, <1>4, <1>5, PTL DEF Spec
=============================================================================
