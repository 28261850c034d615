# A verification of FreeLing's text pipeline in TLA+

FreeLing is a C++ library of language analyzers (`src/src/libfreeling`) with three
programs around it (`src/src/main/sample_analyzer`): `analyzer` (standalone or
server), `analyzer_client` and `threaded_analyzer`. This directory holds TLA+ models
of the parts of it that keep state across calls or run concurrently, TLC
configurations that check them on small instances, and TLAPS proofs for every
instance. `PROJECT.json` maps each definition to the lines it models; paths below
are relative to `src/`.

## The system

| component | state | operations | interacts with | hard because |
|---|---|---|---|---|
| sentence splitter (`libfreeling/splitter.cc`) | `buffer` of the open sentence; flag, counter and stack of open markers | `split(v, flush)` | called for each line by the analyzer, by a thread of the threaded analyzer | state survives calls; five branches update four variables |
| threaded analyzer (`threaded_analyzer.cc`, `threaded_processor.h`) | pipes of pointers, heap objects, one thread per module | read, receive, analyze, send, delete, close | threads hand objects over through pipes | ownership, end of stream, shutdown, types behind `void*` |
| dispatcher of the server (`main.cc`, `socket.h`) | semaphore of worker slots, child processes | wait for a slot, accept, fork; SIGCHLD handler | clients queue in the socket; workers end and signal | signals coalesce, forks fail, the handler interrupts anything |
| worker and client session (`main.cc`, `analyzer_client.cc`, `socket.h`) | local buffers `av`, `sent`, `ls`, `par`, `doc`; the splitter's buffer; the connection | one handler per input format, flushes at the end | messages, one expected per line | answers must match requests; buffers survive lines |
| analyzer and configuration (`analyzer.cc`, `config.h`) | options | option checks, `AnalyzeText`, ... | calls every module | combinations of options |
| multiword automata (`automat.h`; numbers, dates, locutions, np, quantities) | a status per search | `matching`, `analyze` | called in turn by `maco`; rewrite the sentence they iterate over; dates read the values of numbers, names the tags of both | longest match, rejected matches, overlapping entries, values summed up while searching |
| tokenizer | offset (the caller's) | `tokenize` | feeds the splitter | spans |
| dictionary and database (`dictionary.cc`, `database.cc`, `prefTree.cc`) | a map or a prefix tree of forms; an inverse map of lemmas and tags | load, `add_analysis`, `remove_entry`, searches, `analyze` with contractions | `maco`; affixes; the tagger retokenizes what it leaves | two tables kept in step by hand; words that begin words; one word that becomes several |
| affixes (`suffixes.cc`) | rules by affix | `look_for_affixes`, in a word | the dictionary's searches | rules applied to the results of other rules |
| HMM tagger (`tagger.cc`, `hmm_tagger.cc`) | trellis of one sentence; the sequences that select each analysis | `annotate`, `retokenize`, `force_select` | words from the dictionary; the parsers read its selections | k-best bookkeeping over several passes |
| grammar (`grammar.cc`) | rules and directives; what has been read of a rule | an automaton over the tokens of the file | the chart parser asks it for rules | state kept between rules, errors that skip part of one |
| chart parser (`chart_parser.cc`, `chart.cc`) | chart cells, the trees of each sequence | fill a cell, cover, `get_tree`, `analyze` | grammar, tagged words | completion, hidden and flat nodes, words without a tree |
| dependency parser (`dependencies.cc`, `dep_rules.cc`) | chunks, active flags, trees | `complete`, `dependencies`, `label` | trees of the chart parser | rules move subtrees found by earlier rules |
| language objects, coreference | k-best selections, groups of mentions | selections, `add_positive`, ... | all modules | indices kept in step |
| senses, ukb, nec, lang_ident, phonetics, ... | tables, models | one word or sentence at a time | maco, analyzer | numeric |

`PROJECT.json` lists these with their sources under "components", those that are
not modelled with the reason, and under "hazards" what can go wrong at which line.

What makes each component correct:

* *splitter*: no word is lost, repeated or moved; a sentence ends only at a sentence
  end, and not between markers (unless allowed); a sure end outside markers is never
  missed; a flush leaves nothing behind.
* *threaded analyzer*: pointers are used as what they point to, by one owner at a
  time; nobody reads or writes a pipe after its end; modules outlive their threads;
  output keeps the order of the text; every text is finished.
* *dispatcher*: never more workers than slots; slots are accounted for; the handler
  does not block; queued clients are accepted.
* *session*: one message under way; no word lost, repeated or reordered; both sides
  end.
* *dictionary*: either index is a map; the inverse one has what the direct one has; the
  words of a contraction are in its place, in order.
* *tagger*: the k sequences are the k best; an analysis is selected in a sequence when
  its tag is on that path; spans stay in order when words are split.
* *grammar and chart*: a stored rule has its governor; a cell has the constituents that
  the rules derive and no other; leaves are the words of the sentence, in order, and
  each node that is not a leaf has one head.
* *dependencies*: every word is in the tree exactly once; a chunk is used once.
* *multiwords*: no word is lost; searches end; the longest entry of the list is found
  at each place; names have the form the manual describes, and readings the tagger
  needs survive; the value of a number or a date is what its words say.

## Modules

| module | models | used by |
|---|---|---|
| `Segmenter` | abstract: what a splitter promises | `Splitter` implements it (`INSTANCE`) |
| `Splitter` | `splitter::split`, one action per branch of its loop | `MCSplitter`, `SplitterProofs` |
| `Formats` | codes of the input and output formats | `AnalyzerChain`, `Session` |
| `AnalyzerChain` | option checks and module choice of `CreateAnalyzers` | `ThreadedPipeline` |
| `ThreadedPipeline` | threads, pipes, heap and main of `threaded_analyzer` | `MCThreadedPipeline`, `ThreadedPipelineProofs` |
| `Server` | dispatcher, SIGCHLD handler, workers | `ServerProofs` |
| `Session` | `analyzer_client` with one worker | `MCSession`, `SessionProofs` |
| `Automat` | `automat<T>`: search, longest match, rewriting of the sentence; the virtual functions are constant operators | `Multiwords` |
| `Locutions`, `ProperNouns` | what `locutions` and `np` supply to `automat<T>` | `Multiwords` |
| `NumbersEs`, `DatesEs` | what `numbers_es` and `dates_es` supply to it | `Multiwords` |
| `Multiwords` | the four of them on one sentence, in the order of `maco::analyze` | `MCMultiwords`, `MultiwordsProofs` |
| `Words`, `Trees` | what the modules below use of `language.h` and `tree.h` | |
| `Grammar` | the reader of grammar files, token by token | `ChartParser`, `AnalysisProofs` |
| `Chart` | cells of a chart, cover, the tree read off | `ChartParser` (`INSTANCE`) |
| `ChartParser` | `chart_parser::analyze`, cell by cell | `Dependencies` |
| `Tagger` | `POS_tagger::analyze` with the HMM tagger, word by word | `Analysis`, `AnalysisProofs` |
| `Dependencies` | `dep_txala::analyze`, one application of a rule at a time | `Analysis` |
| `Analysis` | a grammar is read, a sentence tagged, parsed, made dependencies | `Derivation`, `AnalysisProofs` |
| `Derivation` | what a grammar derives, the definition the chart is compared with; for TLC only | `MCAnalysis` |
| `Database` | abstract: a database is a map | `PrefixTree` implements it (`INSTANCE`) |
| `PrefixTree` | the database of type `DB_PREFTREE` | `Dictionary` |
| `Dictionary` | loading, updates and searches, over either index | `Affixes` |
| `Affixes` | roots and affixes of a form | `DictionarySearch` |
| `DictionarySearch` | `dictionary::analyze`, word by word | `MCDictionary`, `DictionaryProofs` |
| `*Proofs` | theorems about the module they extend | |
| `Flattening` | lemmas about a sequence of sequences as one sequence, and induction over a set of numbers | the other `*Proofs` but `ServerProofs` |
| `MC*` | values of the constants | |

Operators marked "Fault" in a module are variants of the definition that follows, a
bug that could be made there. Nothing in the models uses them: with the fault in the
place of the definition TLC finds the property violated that `PROJECT.json` names
under "mutants", which shows that the property depends on that code.

### Splitter

`w` is the iterator of the loop (0 between calls), so that one step is one word and
the checks see the state between two words. `betweenMrk`, `no_split_count`,
`mark_type`, `buffer` and `ls` are the code's variables; `consumed` and `done` are
history. The four branches of the loop are `CloseMarker`, `OpenMarker`,
`InsideMarker`, and `Accumulate` or `EndSentence`; a marker pair that has exceeded
`MaxWords` falls through from the third to the last, as in the code. `markers` is
built as the constructor does, where a repeated form keeps its first code. A form is
an element of `Word`; that it matches the regular expression for capitalized words
is the constant `Capitalized`. `mark_form` and the warnings for very long pairs are
left out: only messages read them.

`OpenAfter` and `InsideCount` define from the words alone which markers are open and
for how long; the properties compare the incremental state with them. `OpenAfter` is a
recursive function over the words, so that it can be proved about.

### Threaded analyzer

Thread 0 is `read_text`, thread k runs module k of the chain, thread N+1 is main. A
pointer is a record with the address, the type the object was allocated with and its
words. `live` is the heap. `Send` blocks on a full pipe, `Receive` on an empty one
whose write end is open. The `boost::thread` objects are destroyed at once, which
detaches the threads; the pipes are passed by value, so that main may delete them.
The splitter's choice of sentences is any choice that `Segmenter` allows. The chain
of modules is `Chain(o)` for options `o` that `CreateAnalyzers` accepts; `--train` sets
the output format to `tagged` after they were checked (`Trained`).

### Server

Workers are counted, since nothing tells them apart. `dispatcher` is the place in
`WaitClient`, `handler` the place in `child_ended`, which runs at any moment in the
dispatcher's stead and during which SIGCHLD is blocked; `sigchld` is the pending
bit. `signal` restarts interrupted calls (BSD semantics, glibc's default), so that a
handler leaves `sem_wait` and `accept` waiting. A failed fork takes the parent's
branch. Terminating signals and a failing `accept` are `Stop`. On Windows the server
has neither semaphore nor fork; that build is not modelled.

### Session

The client is `main` of `analyzer_client.cc`; the worker is the main loop of
`main.cc`, one action per handler, with its buffers. A handler puts its messages in
`outbox` and `WriteMessage` writes them one by one, so that the client runs between
them. `read_message` returns the first message of all that arrived and drops the
rest; how much has arrived is a choice. The choice of sentences is again any the
splitter may make. Left out: output format `ident`, `PRINT_STATS`, a text that
contains the commands, messages cut by the read buffer, errors of the sockets.

### Multiwords

`Automat` is the template class: its constant operators are the virtual functions and
the tables a derived class fills in, the first argument being the class (`Self`).
`se` is the sentence, a sequence of words with the span of input words each stands
for; `i` is the iterator of `analyze`, `j`, `state`, `eMatch` and `fstate` are the
locals of `matching`, `st` is the status object. One step is one turn of the loop of
`matching`; a rejected match leaves `i` at its first word, so that the loop of
`analyze` goes on with the second. `Multiwords` extends
it: its operators dispatch to `NumbersEs`, `DatesEs`, `Locutions` and `ProperNouns`
(instances in it), and are what the constant operators of `Automat` stand for in the
configurations. A form joined with "_" is the sequence of its
parts; tags matched by a regular expression or by their beginning are sets of tags; of
the capitals of a form its shape is kept. Left out: `shiftbegin`, which only the
English dates set; the lemma of a multiword and its ambiguity flag, which no module
here reads, unless it is a number or a date, whose `value` it is; the word index, which
`analyze` rebuilds. `ner_module` has a
`BuildMultiword` of its own with one more parameter than the virtual function, which
therefore never runs: `SplitMultiwords` has no effect, in the model as in the code.

The states of `numbers_es` come in three blocks of like transitions (before `billones`,
before `millones`, last), which a state names by its first component. Amounts are in
quarters, so that halves and quarters stay integers, and each of the three registers
counts in its own unit. A field of a date is a sequence, empty where the code has "??".
`Spanish` is the two tables and the regular expressions, as a function of the form;
what a number is for `dates_es` is read from the value that `numbers_es` left. A code,
as "a4", has tag `Z` too; its form, read as an integer, is 0 where it begins with a letter,
and so "a4" may be taken for an hour or for minutes.
Punctuation and the dictionary, which `maco::analyze` calls before and after dates,
change no word of the numbers and dates here: words carry their analyses and their lock
from the start.

### Analysis: grammar, tagger, chart, dependencies

`stage` is which of the modules has the sentence; within each, one action is one step
of the code's outermost loop. A symbol of a grammar is a record of category, wildcard
and condition in place of a string that is cut again and again. Probabilities are
logarithms scaled to integers, since only their sums and their order matter here, or
`ZERO`, minus infinity; the smoothing of transitions is a parameter. `SpecTagger` is the
tagger by itself, on whatever sentences it receives. `Grammar` keeps every transition of the reader and its `skipped` rules;
state `HUNG` is where the reader stays for ever: at an unknown character, past which the
lexer does not move. `ChartParser` fills one cell per step; `Chart` has the closure of a
cell under the rules. `Dependencies` fuses two chunks per step; where the code would
read the parent of a root, `dep` becomes "crash", and `at` does where `chart::cover` ends
the program. Forced selection of a word without an analysis, which only the affixes below
leave, selects the end of a list: `ForceOne` leaves the word as it is, and `ForceNothing`
ends the program (`phase` is "crash"). A rule that completes trees without a positive
weight yields to any of greater weight, as the default does.
What the code does by recursion over a tree is a recursive function over the
places of its nodes, so that it can be proved about. The closure of a cell under rules of
one symbol is as many generations of them as there are non-terminals, which is all
there are unless such rules form a cycle: there the code does not return.
Left out: reading the dependency rules, their semantic conditions (the semantic
database), `SequenceProb_log`.

The reference definitions against which the incremental ones are compared are
`TagSequences` with `Score` (every path, enumerated), `Derive` of `Derivation` (trees
over all splits, in `ChartExact`) and counts of words. `Derive` and what it calls
are `RECURSIVE`, in a module that nothing is proved about.

### Dictionary, database and affixes

`mode` is "load", then "update" for up to `MaxUpdates` calls, then "analyze". A form is
a sequence of letters, "+" among them, a tag the sequence of its parts. `tree` is the
records of the prefix tree, named by the letters that lead to them. `crash` is the
program's exit on a contraction whose parts are not in the dictionary; `undefined` is
what follows when a data block of the tree has been freed (`replace_database`).
Preferences are functions, as the code's maps: of two for one lemma or tag the first counts.
`Affixes` searches prefixes, suffixes and both, and applies each rule; how a language
restores accents is a parameter.

## Runs

| run | instance | shows |
|---|---|---|
| `splitter` | 6 forms (bracket pair, quote, sure end, doubtful end, capitalized word), 3 option sets, all inputs of up to 4 words in any number of calls | `MarkerStateOfBuffer`, `NoEndInsideMarkers`, `NoMissedEnd`, `FlushForgets`, `Conserved`, refinement of `Segmenter` |
| `pipeline` | plain input with output `splitted` and `tagged` (2 and 4 modules), texts of up to 3 lines with an empty one, pipes of 2 pointers | `TypesMatch`, `OwnedOnce`, `EndOfStream`, `AnalyzersOutlive`, `InOrder`, `AllPrinted` |
| `pipeline_tokens` | tokenized input | violates `TypesMatch` |
| `server` | 3 slots, queue of 2, 5 clients, 1 failing fork | `SlotsAccounted`, `HandlerFindsZombie`, `SlotRemains`, `ClientsServed` |
| `server_coalesced` | 2 slots, 3 clients | violates `SemaphoreCountsWorkers` |
| `session` | all input formats, texts of up to 5 lines, batches of 2 tokens | `InOrder`, `LockStep`, `Completed` |
| `session_long_tokens` | six tokens | violates `AnswersAreNew` |
| `multiwords` | 4 entries that overlap, extend each other and refer to forms, lemmas and tags; names of 10 kinds of words; units, tens, hundreds, `mil`, `millones`, `billones`, `docenas`, `y` and a half; a number, a month, a day of the week, noon; `menos`, `minutos` and a code; all sentences of up to 4 words over each of 8 vocabularies; `TitleLimit` 3 | `Cover`, `LongestListed`, `NameShape`, `NamesApart`, `BeginningNounKept`, `NumberValue`, `NamesInDate`, `Terminates` |
| `analysis` | 8 grammar files with every directive, with errors, and one without start symbol; sentences of up to 3 of 4 words, one of them a contraction, and two with an affix whose form no dictionary has; 4 sets of options of the tagger; 12 rules that complete trees | `KBest`, `SelectedOnPath`, `SpansKept`, `ChartExact`, `LeavesAreWords`, `OneHead`, `GovernorInRule`, `EveryWordHasEdges`, `WordsInDeps`, `ChunksApart` |
| `dictionary` | 5 dictionaries in both kinds of index, 2 updates, 4 texts with contractions and affixes, 4 sets of options | `InverseAgrees`, `PartsInPlace`, `MapImplemented` |
| `multiwords_title` | sentences of up to 4 words in capitals | violates `TitleLeftAlone` |
| `multiwords_menos` | sentences of up to 5 words: a number, `menos`, `minutos`, `p.m.` | violates `MinutesBefore` |

Why the bounds are enough. *Splitter*: two pairs of different kinds nest and
misnest within four words, `MaxWords = 2` is exceeded by the third word, and every
split of four words into calls, with and without flush, occurs. *Pipeline*: with four
modules a pipe between two modules, one after the splitter and one before main all
fill and drain; three lines exceed two pointers; more lines repeat the same states.
*Server*: three workers can end during one run of the handler, so that one signal
stands for two ends; a failing fork is one of the three slots; five clients meet all
slots busy, a full queue and a queue that empties. *Session*: a batch ends once in
three tokens (`Batch` is 10 in the code), each flush meets empty and filled buffers.
*Multiwords*: the longest entry has four words and the entry it extends two, so that a
search runs two words past a match and falls back; an entry is rejected at a word
where another begins at the next; a title of three and of four words is rejected, and
so are the two places inside it where a search begins again. In four words a number
reaches all three blocks, each with a thousand of its own or one that is not said, and
a half of each power; a date takes its number for an hour, a day or a month, and a search
for a date runs on past its match.

*Analysis*: three words make a cell of each height, a cell with two ways to split it, a
top that covers and one that must be covered by parts; the contraction gives four words
after retokenization. Three sequences exceed the two paths that some sentences have, and
two meet retokenization. The parser gives up in each of the three cases that
`EveryWordHasEdges` states: no start symbol, a second sequence after retokenization, and
a part without analyses.
The grammars have a rule of each shape the reader distinguishes, errors after which it
must find the next rule, and a file it never finishes. *Dictionary*: words begin words in
the tree (`de`, `del`, `dels`), a contraction has analyses of its own, its parts may be
removed by an update, and two updates meet the same entry.

`CHECK_DEADLOCK FALSE` is set where the system stops: a server without clients
waits for ever, and `maco::analyze` returns.

### Fairness

* *pipeline*: weak fairness of each thread: the operating system schedules runnable
  threads, and a thread blocked on a pipe has no step. The conjunction over
  `1..Len(Order)` covers every chain.
* *server*: weak fairness of dispatcher, handler and of workers ending (a client ends
  its session, by `Session` or by closing its connection). None for new clients or
  for terminating signals.
* *session*: weak fairness of both processes.
* *multiwords*: weak fairness of the only process: a function that is called runs on.
* *splitter*, *analysis*, *dictionary*: none; they have safety properties only. Both
  composed runs check deadlock: a sequential program that cannot go on is found as one,
  and its proper ends are `Finished` and `Stopped`.

## What the violations show

* `pipeline_tokens`: with `InputFormat=token` the reader's `wstring*` is cast to
  `list<word>*` (or `list<sentence>*` for later formats). The comment of each
  `do_analysis` names the type it reads.
* `server_coalesced`: `child_ended` does one `wait()` per delivered SIGCHLD. Workers
  that end together leave zombies whose slots are not given back, although the
  handler is there "to keep count of active workers". `SlotRemains` shows the other
  side: the last slot is never lost this way, so that clients are still served
  (`ClientsServed`) as long as no fork fails.
* `session_long_tokens`: sentences of a batch are output again for each token after
  it.
* `multiwords_title`: the manual's example of a title. The whole sentence is rejected,
  then, one by one, its ends, until the last `TitleLimit - 1` words are few enough to
  be a name.
* `multiwords_menos`: the action of state `BH1` is run again at the word `minutos`, and
  sets the hour that `menos` had put back: "tres menos diez minutos p.m." is 3:50.

## Proofs

Every theorem holds for all values of the constants that satisfy the named `ASSUME`
of the module; TLC evaluates each assumption on the instances.

* `SplitterProofs`: `TypeCorrect`, `FlushIsComplete`, `NothingLost`,
  `SplitterImplementsSegmenter`. `FlushForgets` is not inductive: the proof carries
  that an empty buffer implies a reset marker state, and that the flag is up exactly
  while the stack is not empty (the code's `front()` of an empty stack is never
  evaluated). The refinement maps each branch of the loop to `Hold`, `Close` or
  `Flush`, and a call or a return to a stutter.
  `MarkersReread`, `SureEndsEnd` and `MarkersProtect` compare the marker state with
  `OpenAfter`. Their invariant `Rereads` is `MarkerStateOfBuffer` with the sure ends held
  inside markers; each branch appends one word to `buffer`, and `OpenAfter` of a longer
  buffer is one push or pop of what it was. That `OpenAfter` of a beginning of
  the buffer does not change when words are appended is shown by induction.
* `ThreadedPipelineProofs`: `StreamEndsInOrder` from the invariant that relates the
  place of each thread to the ends of its two pipes: a thread past its loop has seen
  NULL, so that the thread before it has closed and its pipe is empty;
  `ModulesOutliveThreads` follows, since main deletes after NULL from the last pipe,
  by induction along the chain inside the invariant (a finished thread's
  predecessor has finished).
  `ObjectsFit`: the invariant gives the type of each pointer where it is: in a pipe, in
  `x`, in `y`. It assumes `WellTyped` of the chains, that each module reads what the one
  before it writes; `ChainAssumption` (`MCThreadedPipeline`) has TLC evaluate it for
  every accepted set of options with plain input and at least sentences as output, and
  `pipeline_tokens` shows what happens without it.
  `WordsInOrder`: what is printed and what is in transit, stage by stage from main back to
  the reader, is the text read. Each step moves words from the head of one stage to the
  tail of the next, or within a stage; the lemmas of `Flattening` say that this leaves
  the flattened sequence as it is.
  `MemoryOwnedOnce`: the invariant adds to `OwnedOnce` that the addresses of a thread are
  numbered by what it has allocated, so that a new object is nobody's, and bounds the
  pipes. Each step adds a reference, drops one together with its object, or moves one.
* `SessionProofs`: `OneMessageUnderWay` and `TextInOrder`, for any text and any
  choice of sentences. The invariant of the first gives for each place of the client and
  of the worker how many messages are under way, and what the worker has in its
  buffers; it assumes `Answered`, that each line has one message as its answer (with
  token output a line is one token, with coreference it is not empty). The
  second adds which of the buffers `av`, `sentence`, `par`, `doc` can hold words at
  each place, and assumes `Followed`, that no sentence is output twice, as
  `session_long_tokens` shows of longer tokenized texts. `FollowedAssumption` (`MCSession`) has
  TLC evaluate it for the cases of the run.
* `ServerProofs`: `SlotsAreAccounted`, `WorkersAreBounded`, `HandlerNeverBlocks`,
  `LastSlotRemains`, all from one sum over the slots and the count of zombies per
  signal.
* `MultiwordsProofs`: `SentenceCovered`, for any automata on any sentence, with no
  assumption. `Cover` is not inductive: that a merged word ends no earlier than it
  begins needs that spans are ordered (`Ordered`), stated for every pair of words so
  that no induction over the match is needed, and that the match lies between the
  start of the search and the word being read (`Inside`).
  The other theorems of the module are about the cascade of `maco::analyze`: their
  hypothesis `AsMaco` says that the constant operators of `Automat` are those of
  `Multiwords`, as in the configurations.
  `NamesShaped` and `NounsKept`: `NameScan` says, for each state of the automaton of names,
  what the words read since the start of the search are, and what those up to the
  last final state are; `NamesMade` that names stand only behind the search of `np`.
  `NamesSeparate`: that a name could not go on (`Blocked`) is told by its next word,
  which is read in state `ST_NP` before the name and in `ST_IN` after it. The two tokens
  are of one kind only if neither reading takes the word for the beginning of a
  sentence, so that the invariant has that no word of a name has a tag of punctuation
  (`Unpunctuated`). `FullScan` then says that a match ends before such a word or with a
  suffix, and that a search that begins at such a word finds nothing but with a prefix.
  `LongestMultiword`: `acc` holds what the words read spell, in any choice of their
  readings, of the keys and their beginnings. What is dropped is no beginning of
  a key (`NothingDropped`), so that a search that stops has passed the longest (`NoneLater`).
  `DateNamesRight`: the states of the automaton of dates are those before the day of the
  week, those before the month and the rest, and no row leads back (`DateEdge`, from the
  table, row by row). So no action stores a second name where one has been read
  (`DateActions`), not even those of words after the match, whose traces the status keeps;
  `DateScan` says which names have been stored, `DateRight` that each date has them.
  `NumbersSaid`: `Reading` says what the search has summed up. `Cut` places the last
  "billones" and "millones" among the words read, `Registers` says of which words each
  register is the amount, and `Standing` what the words at the end are in each state
  of the automaton (no power since the cut, a power and "y", nothing yet). A word
  read adds to the last register (`ReadCounted`, `ReadThousands`, `ReadCollective`), moves it to one
  before and starts it again (`ReadBill`, `ReadMill`), or adds to a power said before
  (`ReadPart`); `Amount` of the longer words is what the register then holds
  (`AmountPlain`, `AmountPower`). `FinalSays`: in a final state the registers are `NumberSaid`.
  A step to a state that is not final leaves the registers as they are, but for one from the
  initial state (`NotFinal`), so that words read after the match do not count. The hypothesis `Quarters`
  is that values are whole numbers of quarters, as the model counts them; the property is
  about numbers none of whose words is worth zero, for "0 mil" is 1000 (see below).
  `WordsAssumption` asks that forms and analyses are sequences and that no word
  received is a name, a date or a number, `LocutAssumption` that the list is a sequence of entries with sets of tags
  that are finite, `PunctAssumption` that the tags in section `<Punct>` are given neither to
  words that may be in names nor by the modules that merge words.
* `AnalysisProofs`: `GovernorOfRule`, for any grammar file: the governor that a stored
  rule names is one of its symbols. The invariant adds that a mark seen while a rule is
  read lies before the end of what has been read (`MarkInRule`).
  `BestSequences`, `SelectionOfPaths` and `RetokenizedInPlace`, for any sentences, tables
  and rules, from one inductive invariant (`TaggerInv`). It says that the trellis is, as
  far as it goes, the one that the sentence determines (`TrellisOf`), that `words` is
  the sentence up to the selections (`AllKept`), which are those of the paths followed so
  far (`SelectedBy`), and, after retokenization, where the words stand (`Placing`).
  That the k best sequences are found is then a fact about `TrellisOf`. `Insert` keeps the
  best of what was inserted (`BestOf`), so the list of a state is the best of what arrives
  (`ArriveBest`). A path that is dropped from the list of a state is no better than
  kbest others into the same state, which go on as it does: adding the same
  logarithm keeps the order (`PlusMonotone`), and two sequences that agree on their last
  two tags have the same next step. So the lists of the next column are the best of all
  sequences into its states (`NextGood`), by induction those of the end are the best of
  all (`EndGood`); `PathIs` says that following `state` and `kbest` back gives the
  sequence that each entry stands for.
  `TaggerAssumption` asks, in `SentencesAssumption`, for sentences of at least one word whose spans follow one
  another, each with an analysis, which the module of probabilities sees to
  (`probabilities.cc:490`), selected in sequence 0 only, as `add_analysis` leaves it
  (`language.cc:203`). The words of a contraction need no analysis: the dictionary
  ends the program on one without (`dictionary.cc:482`), but a rule that splits an affix off
  keeps the word it makes whether it is found or not (`suffixes.cc:478`). `LogsAssumption`
  asks for logarithms that are numbers or minus infinity, and for kbest of at least 1.
  `ParserGoesOn`, for any grammar file, sentence and options, by one invariant over
  reader, tagger and parser (`AnalysisInv`). `MarksInv`: some sequence selects an
  analysis of each word, from the selection of the best path on, through forcing and
  retokenization (`TaggedMarked`, `FlatMarked`); it is the number of sequences, which the
  code takes from the first word, that makes the parser ask for it. `GramInv`: the start
  symbol is a non-terminal with a name, so that the root label exists; it rests on
  `FilesAssumption`, that the lexer gives categories names. `ParserInv`: a cell of one word
  has, for the form of the word, an edge that no later step takes away (`CellOfWord`,
  `CellFilled`). Then every cell that `cover` descends to has a best edge: `Highest`
  finds one in each stretch of words, since its lowest row has one (`HighestOfWords`), and
  the stretches left and right of it are shorter (`CoversExist`, by induction over their
  length), so that no part of the cover is `NoCell` (`CoverFound`).
  `GrammarIsRead` and `SentenceIsTagged`: every step of the composed system is a step or a
  stutter of the reader, and of the tagger, so that what is proved of each alone holds of
  the whole.
* `DictionaryProofs`: `PrefixTreeImplementsMap`, for any letters, keys and data: the tree
  refines `Database`. The invariant is that the records are closed under prefixes, so
  that what is found below a record that is replaced stays there.
  `DatabasesAgree`, for any file, preferences, additions, removals and searches, in
  either index. Its invariant (`DInv`) is `InverseAgrees` with the types of the three
  stores: every list of analyses that is kept is made of the lemmas and tags of the file
  and of the additions. The proof says of each store what a step does to what is read
  from it (`HasMore`, `HasNow`, `ListsMore`, `ListsLess`), of the loops over the analyses
  of a form what they add or drop altogether, and of data what keys they stand for
  (`ExpandKeys`, `WithAnalysisIs`); a step that adds the same keys on both sides keeps
  the agreement (`AgreeWithMore`). `DictionaryAssumption` asks that forms are in lower
  case, which the code does not check: with "De" in the file, `remove_entry` of it would
  drop from the inverse database the analyses of "de", and leave its own.
  `PartsPlaced`, for any text whose words lie one after the other (`SentencesAssumption`).
  The words of a contraction fill the span of its form (`PlacedFills`): steps of equal
  length, rounded down, end before it does, and the last word ends with it. A row of words in
  which others fill the place of one stays a row, with all ends it had (`FilledRow`).
  It assumes, as its hypothesis `PartsFit`, that no contraction has more words than its span has
  places; the code does not check it (see below), and the dictionaries of the run keep to it.
* `Flattening`: what the proofs above need of `FlattenSeq`. The induction theorems of the
  library take an operator as parameter, which the provers cannot instantiate; the least
  element of a set of natural numbers (`WFMin`) gives the same for the set of the numbers
  where a formula fails (`Least`, `Induct`), and each recursive function is proved about
  by naming such a set. `FlattenOrder` says when rows in order are flattened in order,
  `MostOf` that a finite set of numbers has a greatest.

The type invariants of `Splitter` and `Server` are proved (`TypeCorrect`, and part of the
invariant of `ServerProofs`), as is `AtMostMaxWorkers`; they are not run, since other
properties say more. With these the safety properties that the runs of `Splitter`,
`ThreadedPipeline`, `Server`, `Session` and `Dictionary` check are all proved, and so are
those of `Tagger`, `Grammar`, `Analysis` and `Multiwords`.

Only model-checked: all liveness (`AllPrinted`, `ClientsServed`, `Completed`,
`Terminates`), which no prover here handles; `ChartExact` of `Derivation`, whose
reference is a recursive operator; `LeavesAreWords` and `OneHead` of `ChartParser`,
`WordsInDeps` and `ChunksApart` of `Dependencies`, which say of a whole tree what its
recursive definition computes, by induction over trees that rules have taken apart and put
together again.

## Found while modelling

Differences between the code and its documentation, or between two parts of the code,
that no run is about; each follows from the definitions named by `PROJECT.json`.

*Grammar and chart.* `@NOTOP` is not asked when the root's label is chosen, and a top all
of whose edges are hidden loses its words (`chart.cc:299`, against `:242`). A cycle of
unary rules makes `find_all_rules` recur for ever (`chart.cc:557`). A condition
`TAG<"file">` without a wildcard never matches. A wildcard read before `|` stays in force
after it (`grammar.cc:268`). An unknown character makes the reader loop for ever
(`grammar.cc:226`). With several sequences and retokenization the chart parser gives up
(`chart.cc:410`), as it does on a word split off by an affix rule whose form the dictionary
does not have.

*Tagger.* `is_forbidden` compares a long tag at the first of three words with the second,
when it has no lemma (`hmm_tagger.cc:416`). Unselection and forced selection treat
sequence 0 only. The number of sequences is that of the first word.

*Dependencies.* `*` in a context takes at least one chunk and does not backtrack. A
negated condition on siblings holds when there are none. `cover_last_left` on the left
root takes the parent of a root (`dependencies.cc:794`). `last_left` matching the label
of a leaf loses its word. Conditions look at the analyses of sequence 0 for every tree.

*Session.* With plain input and token output the worker writes one message for each
token and none for an empty line (`main.cc:475`), against a client that reads one message
per line: after an empty line both wait for ever. `MCSession` has the texts it can follow.

*Dates.* An action that is run at a word after the match leaves its mark: "mediodia de
mar" is the time "mediodia", with month 3 (`dates_es.cc:616`, whose state `Ib` is not
final; `automat.h:222` keeps the match but not its status). "tres p.m." has no hour, which
the step from `CH1` to `GH1` does not store. "año 44 a.c." becomes a century, since the
unknown one is negated too (`dates_es.cc:649`). A time "3h" has an empty minute and is
never `TK_hour`: a match always has three parts (`dates_es.cc:405`).

*Numbers.* "0 mil" is 1000 (`numbers_es.cc:413`).

*Dictionary.* `add_analysis` of a form that is new does not update the inverse database
(`dictionary.cc:307`). Replacing data in a prefix tree keeps a pointer into a temporary.
Updates take the form as given, where searches lowercase it. Preferences are sorted by
exchanging neighbours with a relation that is not transitive, which may ignore one.
The words of a contraction with more parts than letters get spans past its end.

*Affixes.* A suffix rule of the combined search is applied to the word's old analyses
(`suffixes.cc:261`). `found_in_dict` set by one pair of rules is reset by a later one.

## Not modelled

Statistics and floating point: probabilities (`probabilities.cc`), the relaxation tagger,
ukb, nec and its features, coreference, language identification. Numbers and dates of
other languages, and quantities: further tables over `Automat`, of which `SentenceCovered`
holds whatever they are. The semantic conditions of the dependency rules. Reading of data
files other than grammars, utilities, vendored libraries (foma, omlet, libsvm, utf8),
bindings and data. `PROJECT.json` has the reason for each component.

## Plan

Done: splitter, threaded analyzer, server, session; multiwords, proper nouns, numbers and
dates; grammar, tagger, chart, dependencies; dictionary, database and affixes. Left, in
order of importance:

1. Proofs about the trees of `ChartParser` and `Dependencies`, whose definitions are
   recursive functions by now: `LeavesAreWords` first, from the cover of the root.
2. `Tokenizer`: rule choice and spans, as an algorithm checked against a reference
   definition, composed with `Splitter`.
3. `Mentions`: the coreference groups of a document.
4. A violation run for locked words (`RE_map.cc:103`: "prevent any other module from
   reinterpreting this"), which a multiword that begins before them absorbs.
