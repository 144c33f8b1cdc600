# TLA+ models of the portable C shell

A formal model of the command shell in `src/shell`: what its components do, how
they interact with interrupts, callbacks and broken backends, what TLC has
checked on small instances and what TLAPS has proved for every size. File names below are relative to `src/shell` unless they start with `docs/`.

## 1. The system

The shell is a C library without threads or heap: the application owns every
buffer, feeds bytes in (`sh_input_byte`, `sh_input`) and gets output through one
transport. Concurrency enters through the ports: an interrupt and other tasks
(FreeRTOS), an interrupt and a polling main loop (bare metal), re-entrant
callbacks (TCP), and everywhere through command handlers that call the library
back. Nothing is persistent but the modes of the terminal the host program uses.

| Component | State | Operations | What makes it correct |
|---|---|---|---|
| Output path: `src/sh_transport.c`, `sh_write` to `sh_flush` | progress of one write: total, attempts, last status | write, printf, flush | no byte twice or skipped; a status the caller can act on; every write returns |
| FreeRTOS port: `ports/freertos` | `running`, `stop_requested`, counters, RX and TX streams | run loop, ISR receive, request/clear stop, reset, transport write | one owner, bytes in order and accounted for, a stop is seen and ends the loop |
| TCP port: `ports/tcp` | `state`, `close_notified`, last status | init, prompt, poll, close, transport write | one close notification, no I/O after it, results that match the state |
| History: `src/sh_history.c` | ring of slots, start, count | add, clear, get | the ring is the list of the most recent lines |
| Key decoder: `src/sh_ansi.c` | state, parameters, overflow flag | feed, reset | a key exactly at its sequence, no text lost, no sequence typed |
| Line editor and session: `src/sh_shell.c` | line, cursor, view, draft, `started`, `last_input_was_cr` | input byte, start, stop, execute line | cursor and lengths in bounds, edits as a user expects, one execution per line end |
| Completion: `src/sh_completion.c` | none of its own; changes the line | Tab | what is offered is what the dispatcher accepts; the rest of the line is kept |
| Tokenizer: `src/sh_tokenizer.c` | the buffer it splits, the argument vector | split a line in place | the words the header documents, without overrunning the text still to be read |
| Commands: `src/sh_command.c` | registered tables, echo switch | register, resolve, dispatch, built-ins | no registered command is unreachable; handlers get their arguments |
| Masking: in `src/sh_shell.c` | none | history line, displayed line | secrets neither shown nor remembered; a remembered line replays |
| Bare-metal port: `ports/baremetal` | error counter | poll, transport write, clear errors | no byte lost between polls; NO_DATA means drained; status mapping |
| Host port: `ports/host` | saved modes, queued bytes, repeat count, half a character | open, read, close | what is pressed is what is read; the terminal is left as found |
| Host example: `examples/host_terminal_shell.c` | exit flag | main loop | closes the terminal on every way out |

How they interact:

- every port feeds bytes to `sh_input`; the line editor passes each byte to the
  key decoder first, executes the line on Enter (tokenizer, history, command
  tree, handler) and prints through `sh_write`;
- `sh_write` calls the transport's write callback in a retry loop; the FreeRTOS,
  TCP and bare-metal ports implement that callback;
- three scanners read a line: the tokenizer, the echo's (`raw_token_span`,
  `unmatched_quote`) and completion's, which cuts at spaces; and two walks go
  down the command tables, the dispatcher's and completion's. Each pair must
  agree, or secrets show and completion offers what does not run;
- a command handler runs inside `sh_input` and may call the library back: write,
  stop the session, clear the history, request a FreeRTOS stop, close the TCP
  session, or execute another line, which fills the same `shell->argv`;
- in FreeRTOS the interrupt shares the RX stream and the counters with the shell
  task, other tasks share the two flags; critical sections order them.

The hard behaviours are listed one by one, with the line where each bites and
the property that covers it, under `hazards` in `PROJECT.json`: interleavings of
the FreeRTOS interrupt, loop and control calls; a TCP session that ends while
bytes are being processed; backends that take part of a write and report
anything; indices into a history that changes while it is browsed; lines executed
inside handlers; line ends and escape sequences cut anywhere by polls and read
errors; keys held down and half characters; buffers, rings, vectors and counters
at their limits.

## 2. Modules

| Module | Models | Composes |
|---|---|---|
| `Transport` | `sh_write`, `sh_vprintf`, `sh_flush` over `sh_transport_write_all` | |
| `FreeRtosPort` | `sh_port_freertos.c`, with the interrupt, the driver and control tasks | |
| `TcpSession` | `sh_port_tcp.c`, with handlers and the close callback | |
| `HistoryLog` | abstract: the bounded list a history promises | |
| `History` | the ring of slots | `HistoryLog` (refined) |
| `AnsiDecoder` | `sh_ansi.c`, as a decoder other modules drive | |
| `KeyDecoding` | a byte stream into the decoder, with a reference | `AnsiDecoder` |
| `HostTerminal` | the Windows and POSIX ports and the main loop of the host example, run after run | `KeyDecoding` |
| `LineSyntax` | what a line means: words, their places, lines written from words; the echo's scanner | |
| `Tokenizer` | `sh_tokenize`, one turn of a loop per step | `LineSyntax` |
| `CommandTree` | validation, registration, resolution, dispatch, as functions of the tables | `LineSyntax` |
| `Masking` | which arguments are secret, the history line and the displayed line | `CommandTree` |
| `CommandSession` | `sh_execute_line`, `sh_execute_argv`, handlers that call them again, registration, built-ins | `Tokenizer`, `Masking`, `HistoryLog` |
| `Completion` | the choice of candidates and the new line | `CommandTree` |
| `EditBuffer` | abstract: what a user edits, without bytes or indices | `HistoryLog` |
| `LineEditor` | `sh_input_byte` and everything under it, start, stop, lines the application runs | `AnsiDecoder`, `Completion`, `HistoryLog`, `EditBuffer` (refined) |
| `PolledLines` | the same session behind the bare-metal poll and a receive interrupt | `LineEditor` |
| `TransportProofs`, `FreeRtosPortProofs`, `HistoryProofs`, `TcpSessionProofs` | theorems | the module they name |
| `KeyDecodingProofs` | theorems about the host program | `HostTerminal`, `LineSyntaxProofs` |
| `LineEditorProofs` | theorems about the editor and the polled session | `PolledLines`, `LineSyntaxProofs` |
| `CommandSessionProofs` | theorems about the tokenizer, by itself and in a session, and about sessions | `CommandSession`, `LineSyntaxProofs` |
| `LineSyntaxProofs` | lemmas for the three above: induction, recursive functions, sequences, readers of a line, names and paths in command tables | `CommandTree` |

`MC*` modules give the constants of the runs their values. The definitions named
`Faulty...` are plausible bugs, one or more per property: put in the place of
the definition after them, each makes TLC refute the property `PROJECT.json`
pairs it with. No specification uses them.

### Transport

One state per callback invocation. `text` is what the call was asked to write and
`data` the buffer it hands on, which for `sh_vprintf` is what `vsnprintf` kept
(`Formatted`); `total`,
`attempts` and `lastStatus` are the locals of the loop, `sent` is what the
backend really took. `Attempt(status, taken, n)` is one round of the loop: the
backend takes `taken` bytes and reports `n`, the same number or a number beyond
the request; a backend that takes bytes and reports fewer is outside the
callback's contract and cannot be detected. A backend that claims too much or
returns an error may have taken bytes: the model lets it. `AfterAttempt` is the
chain of early returns in their order. Data is abstract: bytes are distinct
numbers, so that repetition, loss and reordering show. `backend` is fixed by the
configuration; `"legacy"` is the write callback without a status, `"baremetal"`
puts the bare-metal port between the loop and the application's callback:
`PortAnswer` is the status and count it passes on.

### FreeRtosPort

One step per critical section, stream-buffer call or interrupt. `pc[t]` follows a
task through `sh_freertos_run`; `Enter` is the atomic test and set, `Recheck` the
second look at the stop flag after the receive, which drops the chunk in hand.
`status` is what the last call to return returned, to whichever task. Received bytes
are numbered by arrival; `fed`, `lost`, `carried` and the other
history variables exist only for the properties. The TX stream is a fill level.
`InputDone` stands for all of `sh_input`: its writes are `TxSend` and `TxCount`
steps taken while the task is at `"input"`, and its result is free.

The single core of the target orders interrupts and critical sections, so a
counter update in the interrupt is atomic. Streams are modelled by what FreeRTOS
promises: one reader and one writer, each call takes what fits.

### TcpSession

`pc` is the place in `sh_tcp_session_poll`; `left` counts the bytes `sh_input`
still has to process, between which the shell writes (`ShellWrites`) and a
handler may close (`Close`). `NotifyClose` sets the flag and starts the close
callback (`callback`), which may call `Close` again and return at any time. The
read and write callbacks answer with every status and count, also those out of
range. They do not themselves call the session: see the plan.

### History, HistoryLog

`slots`, `start`, `count` are the struct's fields; `Entries` reads them through
`GetNewest`. Lines longer than a slot occur because `build_history_line` may
replace short arguments by `<hidden>`. A slot starts with whatever the caller's
storage holds (`Stale`).

### AnsiDecoder, KeyDecoding

Byte values are the real ones. `csi` stands for the array and its length.
`KeyDecoding` keeps the raw bytes since the last ESC and states what they mean
independently of the decoder.

### HostTerminal

`phase` is the place in `main()` once the options are read: `OpenTerminal` or
`OpenFails`, `StartShell` or `StartFails`, the loop, `Leave`. A terminal's mode
is one of two values, so that a mode that is not restored shows; the input mode
left by one run is what the next one finds (`RunAgain`). The system may refuse
either restore. On a Windows console a read takes key records until one of them
gives bytes: `ReadRecord` is one record, `TakeQueuedByte` one byte that goes to
the shell; `queue`, `position`, `repeat` and `high` are the struct's fields.
Records carry real UTF-16 units and `Utf8` is the real conversion. Files, pipes
and POSIX terminals deliver bytes (`ReadStream`).

### LineSyntax, Tokenizer

`Tokens` is the meaning of a line by the header's words; `Tokenizer` is the code:
`read` and `write` are the two pointers, as positions in one buffer, and a step
is one turn of one of its loops, in the order of the code's tests. `argv` is the
caller's vector, of which the model also remembers which call's buffer an entry
points into (`level`).

### CommandTree, Masking, Completion

Tables are sequences of records with the fields of `sh_cmd_t` that matter;
`agrees` says that a table's pointer and count fit together. These modules are
functions: `Dispatch` gives the status, or the command whose handler runs and
where its arguments begin. `TablesAt` bounds the depth the way the validation's
recursion does. `Completion` has its own walk and its own cut of the line, as
the code does; `PlainWords` is the reference for the cut, words without quotes.
The reference for the candidates is the dispatcher itself (`MayFollow` in
`LineEditor`, see 4). `MaskedArgs` asks the application's callback with the path,
the index and the word, as the code does: `Secret` is the set of these triples to
which it says yes.

### CommandSession

`frames` is the stack of calls in progress: a line's buffer lives in its frame,
the vector is one variable for all. A handler may execute a line, a vector of its
own, or its own arguments without its name (`ForwardArguments`), and return any
of `HandlerStatus`. A line executed inside a handler takes the vector from it:
the frames below are marked `disturbed`, and `Seen` says what their handlers
would read. `LineReturns` is the code's cleanup, which zeroes the vector.

What the echo must hide is said without its own functions: `TypedWords` and
`SecretPlaces` read the raw line with the reader that defines `Tokens`, without a
limit on the words and with the word begun, so a line the tokenizer refuses has
secrets too.

### LineEditor, EditBuffer, PolledLines

A byte is one step from `sh_input_byte` to its return, because a shell is used
from one context at a time. `line` stands for the array and `line_len`. The
history is `HistoryLog`, which the ring is proved to implement. `Execute` lets a
command be malformed, unrecorded, recorded as typed or rebuilt, clear the
history or stop the session; which of these a line does is `CommandSession`'s
subject. `CompleteLine` uses `Completion`. Output is left out.

`EditBuffer` says what each operation means for the text left and right of the
cursor, for the recalled flag and for the line put aside, without bytes, indices
or a draft that may be stale; `LineEditor` maps to it by `Left(cursor)`,
`RightOf(cursor)`, `view >= 0` and the draft while browsing.

`PolledLines` puts a queue that an interrupt fills before the session, and
`sh_port_baremetal_poll` between them, one step per read callback; the callback
may fail at any time. It keeps all bytes received and lines executed, and cuts
the bytes into lines by a rule of its own.

## 3. Runs

| Run | Bounds | States | Shows |
|---|---|---|---|
| `Transport` | payloads of 0, 1, 3, 4 bytes, 3 attempts, format buffer of 4 | 5915 | every mix of partial progress, WOULD_BLOCK, errors and over-reports, also at the last attempt, at the exact buffer size and through the bare-metal port |
| `FreeRtos` | 2 tasks, RX stream and chunk of 2, TX stream of 1, 3 bytes that arrive or are sent, in bursts of 2, counters up to 3 | 141 thousand | ownership, order, both balances and the stop protocol; overflow, partial and refused writes, saturation and resets all happen; a stop ends the loop, queued bytes are handled |
| `History` | ring of 4, slots of 3, lines that fit and lines that do not | 220 | the ring is the list, through several wraps; no short line repeated |
| `HistoryMasked` | one line longer than a slot | violated | finding 1 |
| `KeyDecoding` | 2 remembered parameters, sequences of up to 6 bytes, 11 byte classes; 3 of 15 key records | 411 thousand | decoding equals the reference, overflow included; keys, repeats, surrogates and what lies between them; the terminal after every exit |
| `LineEditing` | lines up to 5, vector of 3, all editing keys and Tab, two sets of commands with names of up to 3 letters and 1 to 3 entries in argv, hidden, sensitive and with providers | 93 thousand | every edit and completion at every cursor, full line included; what Tab offers against the dispatcher asked with every name |
| `LineHistory` | lines up to 2, history of 2, a recorded line longer than the buffer, lines run by the application | 88 thousand | recall, draft and edits in every order, while the application runs lines and clears the history |
| `TypedLines` | 4 bytes of 5 classes, queue of 2, polls of 1 and 2 bytes, lines of 1, an error between two clears | 172 thousand | one execution per line end, text kept, no byte left behind |
| `Tcp` | chunks of 2, writes of up to 2 | 25681 | every end of a session, from every place |
| `TcpLastBytes` | as `Tcp` | violated | finding 2 |
| `Commands` | all lines of up to 4 of five characters (the letter, blank, both quotes, backslash), lines of names, vector of 3, calls 3 deep, 10 registrations | 511 thousand | tokenizer, masking, recording, dispatch and nested calls together |
| `EchoTyping` | lines with an argument and up to 3 of the five characters after it | violated | finding 3 |

Why the bounds are enough: each buffer, ring, counter and retry limit is small
enough to be reached and passed within the run (a ring of four wraps, a counter
of three saturates, a stream of two overflows with the third byte, three
attempts run out before four bytes are sent one by one), and two tasks or two
entries are the least with which ownership and order can go wrong. A vector of
three has room for a path of two with an argument, and is full with one more. Four
characters reach every pair of states of the three scanners with a word before
and after; three calls are a handler, one inside it and what that one disturbs;
three records are a half character, what comes between and the other half. All
safety properties are also proved, for all sizes.
Constants named `Max...` with the comment "bound" cut the behaviours and have no
counterpart in the code. Quantities of the code are `CsiMax`, `LineMax`,
`Depth`, `SlotSize`, `ChunkSize`, `RxCapacity`, `TxCapacity`, `CounterMax`,
`MaxAttempts`, `FormatBuffer`, `Capacity` (the argument vector), `MaxDepth`,
`ScanMax`, `HistoryMax` and `QueueSize`; `MaxBurst`, `MaxLen` and `MaxNesting`
bound what callers do.

No run switches the deadlock check off: all the systems always have a step.

### Fairness

Three specifications state fairness; no safety property needs it.

- `Transport`: weak fairness of the callback's return and of the step that ends
  an exhausted loop. The code is a sequential loop; the only assumption is that a
  callback returns, whatever it answers.
- `FreeRtosPort`: weak fairness of `RunStep(t)`, the loop's own steps. The
  configuration forbids an infinite receive timeout (`sh_freertos_init` refuses
  `portMAX_DELAY`), so the receive returns; a write returns if its timeout is
  finite and a handler returns if the application is written that way. Nothing is
  assumed of the interrupt, the driver, or the tasks that call in.
- `PolledLines`: weak fairness of the main loop's call (`MainLoopPolls`; polling
  is what the port is for) and of the steps of a poll, which is a bounded loop;
  strong fairness of `ReadByte`: an application's read callback does not fail for
  ever while bytes wait. Nothing is assumed of the interrupt or of when errors
  are cleared.

## 4. Proofs

All proofs are checked by TLAPS to the last leaf. They assume the named ASSUMEs
of the modules and the library's theorems on sequences and finite sets. The
ASSUMEs are what the types of the C code give: sizes are positive where the
initialiser refuses zero (the history depth may be zero), lines and
names are strings without NUL, the argument vector has room for a word, a
recorded line's slot is longer than the line buffer in `LineEditor` alone, a table
of commands holds commands whose bounds are counts, the text that stands for a
secret (`<hidden>`) is printable without a blank, `*` is not one of the words that
ask for help, the shell's own words (`help`, `--help`, `list`, `history` and so on)
are names of which no two that are looked up together are the same, and the tables of
`LineEditor` are tables registration has accepted (`AcceptsSets`; registering is
`CommandSession`'s subject).

- **Transport** (`TransportProofs`). None of the properties is inductive by
  itself: `OkMeansDelivered` needs to know, one step before the return, that the
  backend holds exactly the confirmed bytes, and that a call whose text was cut is
  marked as truncated. `IInv` adds `InLoop` (inside the loop
  `Len(sent) = total < Len(data)`) and that a buffer that is not marked is the whole
  text; each action is shown to keep them. Success then means the whole text, also
  of a formatted write that is one byte too long for its buffer.
  `AnswerOfCallback` shows that the bare-metal port turns any answer of the
  application into one this covers.
- **FreeRTOS** (`FreeRtosPortProofs`). `Inv` is types plus `Control`: `running`
  is true exactly when one task is in the loop, a task at `"exit"` has a stop
  behind it, and a chunk fed after a stop is followed by the check that sees it.
  `clear_stop` is refused while `running`, so the latch follows from ownership.
  For the bytes, `BInv` adds `Account`: at each place of the loop only certain
  tasks hold a chunk or a write (`HoldsByPlace`); fed, held, queued and lost bytes
  are in the order they arrived and disjoint (`Ordered`), which the sets of bytes
  express better than the sequences do; and the two balances with what is in
  hand. A reset moves what is under way into the history variable `carried`, a
  saturated counter ends the equation it stands in. From `BInv` follow
  `RxInOrder`, `RxBalance` and `TxBalance`, for any number of tasks, any sizes and
  any counter width.
- **History** (`HistoryProofs`). The ring implements the list: each of add to a
  free slot, add over the oldest and clear maps to a step of `HistoryLog`, ignored
  lines to a stutter. The lemmas are about positions modulo the depth.
  `NoShortDuplicates` is then shown on the list: an entry with room to spare in
  its slot is the whole line, which is what the code compares.
- **TCP** (`TcpSessionProofs`). `CloseNotifiedOnce` counts callbacks while the
  code decides by a flag; `Inv` ties count, flag and state together and adds that
  the switch on the read's status runs only in an open session.
- **Host program** (`KeyDecodingProofs`). The theorems are about `HostSpec`, the
  whole program, not the decoder alone: `IInv` says that the decoder remembers
  exactly the parameters of the raw bytes, up to its limit, and that the last
  event was right; `QueueOK` that queued bytes are bytes. Opening, closing, a
  restart and a reset give a fresh decoder; each byte keeps the relation.
  `TerminalLeftAsFound` becomes inductive with `TerminalKept`: from opening to
  closing each mode is either untouched or saved as it was found.
  `KeysAsPressed` becomes inductive with `Delivered`: what the records ask for is
  what was got and what the queue still has to give, which is a key for each
  repeat left and the decoder as far in its bytes as the queue is (`AtKey`), or
  nothing, for an escape, or the rest of a character and its repeats. A record
  adds the same to both sides (`RecordMeaning`, `WantedGrows`), a byte moves from
  the queue to what was got (`KeyFed`, `TextFed`), for every set of records.
- **Line editor** (`LineEditorProofs`). `TypeOK` needs nothing but itself:
  `EditorOK`, its part on text, cursor, draft, history and view, is kept by every
  operation, completion on any table included, and a completion keeps what it
  does not replace. Under it each operation is an operation of `EditBuffer` on
  what is left and right of the cursor (`Obeys`), so `ImplementsEditBuffer` needs
  no further invariant. `BrowsingShowsEntry` follows action by action.
- **Completion** (`LineEditorProofs`). `CompletionAgreesWithDispatch` brings two
  cuts of a line and two walks down the tables together. What should be offered,
  `MayFollow`, is defined by `Dispatch` alone: a word may follow if the dispatcher
  accepts the words with it, as they are or with more arguments (`Takes`), so the
  argument limits, the handler and the built-ins' own tests all count. Where any
  word at all would do (`NoName`, which names nothing), those of the command's
  provider are expected; elsewhere every name there is (`AllNames`) is put to the
  dispatcher. The proof computes this in closed form (`Follow`, by `WhatFollows`):
  after the path of a leaf any word up to its limit (`ApplicationAccepts`), after a
  parent its children, after a built-in its keywords. A plain line is cut by the
  tokenizer as it is by spaces (`PlainTokens`), and the words before the cursor are
  the words of the text before the one being completed (`BeforeCursor`). A walk
  over complete words stands where the path of the resolver ends
  (`WalkFollowsPath`, by `PathAppend` one word at a time), or at a built-in
  (`WalkOfBuiltin`). So the candidates are what may follow (`CandidatesFollow`),
  and what the common part of the matches makes of the line is an extension that
  keeps the rest (`MatchedAgrees`).

  What the property leaves out, each by a named definition: questions for help
  (`AsksHelp`: the topics after `help` and the help words after a command, which
  the dispatcher accepts and completion never offers, see 5) and hidden commands
  (`IsHidden`); positions where no word may follow, because the vector is full or
  the leaf takes no more (`IsFull`), where the provider is asked all the same; and
  lines with quotes or escapes. Hypotheses on the application: `PlainOffers`, its
  providers enumerate words, each once (the code takes the enumeration as it comes:
  a name offered twice would count as two matches, a name with a space would be put
  into the line as two words), and `LeavesRun`, a command without subcommands has a
  handler. The runs' tables satisfy both (`MCOffers`).
- **Polled lines** (`LineEditorProofs`). `QueueInv` places the queue behind the
  bytes taken; with it a poll that says `NO_DATA` has seen the queue empty.
  `TypedInv` says of the editor where it is in the stream: the lines executed are
  those of the line ends taken, the line being edited is what was typed since the
  last, `lastCr` is whether a CR was the last byte, and the cursor is at the end.
  `LinesAsTyped` is proved under `PlainTyping`: the terminal sends no editing
  control and no `[`, so that a sequence never opens. With editing keys the
  property would have to say what an editor does; that is `ImplementsEditBuffer`.
- **Tokenizer** (`CommandSessionProofs`). `InPlaceIsSafe` becomes inductive with
  the types and the fact that the line has no NUL: the buffer ahead of the reader
  is the line's, so a reader at NUL is at the terminator, and the writer is
  behind it but after the last word. `TokensAsDocumented` compares a run of the
  loop with the meaning of a line, which is defined by a reader that goes through
  it byte by byte. `DInv` says where that reader is when the loop has read as far
  (`Now`): between words (`GapAgrees`) the words it has read are in the buffer,
  each behind its terminator; inside one (`WordAgrees`) what it has of the word
  is between the entry in the vector and the writer. Each turn of the loop is one
  step of the reader, and `HeldKept` keeps the words already compacted.
- **Calls in calls** (`CommandSessionProofs`). All calls share one vector. `SInv`
  adds to `DInv` that calls are stacked (a call works on its own buffer; a line
  executed inside marks every call around it `disturbed`), that the entries in
  use while a line is split point into that line's buffer, and that the part of
  the vector an undisturbed handler holds still has the words of its line
  (`HandedOver`): a vector handed on points further out, and is not written.
  `SessionTokensAsDocumented` and `SessionArgsAsTyped` follow, for every depth of
  nesting and every command tree.
- **Recording** (`CommandSessionProofs`). `RecordedReplays` needs `SInv`, the
  cut of a line to a slot, and `RewrittenRead`: a reader goes through a line
  written from words and ends with those words. A word is followed through its
  quotes and escapes (`TokenSteps`), words are put in a row (`FlattenSteps`).
- **Registration** (`CommandSessionProofs`). `Registered` says that the tables in
  force are accepted ones. Of such tables every way down the tree is at most
  `MaxDepth` long (`PathsAreWays`), at each level the child of that name is
  the one the path goes to (`ChildFound`: names are distinct), and the root is
  found in its set and in no other, built-ins included (`RootsDistinct`); so the
  walk of the dispatcher takes the way (`PathResolved`, `LeafDispatched`).
- **Echo** (`CommandSessionProofs`). As documented the echo hides masked arguments
  at every moment (`EchoHidesArguments`); the code does not (finding 3). Proved is
  `EchoFollowsLine`, for the lines `IsFollowed` describes: no backslash in single
  quotes, a vector with room, no lone backslash at the end; a quote may be open.
  There a masked argument is hidden from its first byte on and nothing else is.
  The scanner of the echo and the tokenizer's reader go through such a line
  together (`ReadTogether`: same quote, same escape, gaps where the reader is
  between words), so the number of words begun is the number of starts of words the
  scanner has passed (`SpansAreWords`); and the words `build_display_line` gets from
  the tokenizer, by closing an open quote, are the words typed.

Induction over the lengths of lines, depths of trees and numbers of words is not
built into the provers used. `LineSyntaxProofs` derives it for sets of naturals
(`InductionOnNat`, from the cardinality of finite sets) and from it what the
proofs need of recursive functions: that one step after the other is defined
(`StepsCompose`, `RepeatedStep`), and what a fold over a sequence keeps. Recursion
in these modules is a recursive function or a fold, never a RECURSIVE operator.

Only model-checked: liveness under fairness, which is out of reach
(`WriteReturns`, `StopEndsRun`, `QueuedByteHandled`, `EveryByteHandled`).

## 5. Findings

Each is a run that TLC must find violated.

1. `HistoryMasked`: `docs/porting.md` says consecutive duplicates are not added
   twice; a masked line longer than a slot is compared before it is cut
   (`src/sh_history.c`, `sh_history_add_internal`) and stored again.
2. `TcpLastBytes`: `docs/tcp.md` says a callback may return final bytes together
   with a disconnect; when these bytes make the shell report an error, the
   disconnect is not applied (`ports/tcp/sh_port_tcp.c`, `sh_tcp_session_poll`).
   The next poll reads again, from a connection its owner may have finished with.
3. `EchoTyping`: `include/sh_command.h` and `docs/porting.md` promise that a
   sensitive command's arguments are masked while the line is redrawn.
   `build_display_line` masks nothing when the tokenizer refuses the line so far:
   after a backslash, until the next key, the whole secret shows; likewise with
   more words than the vector holds. Apart from that, `raw_token_span` takes a
   backslash in single quotes for an escape, the tokenizer does not: in `a '\'' b'`,
   a line Enter would execute, the echo takes the argument to end at the blank, and
   `b` shows.

Observations that no run checks, because no document settles them or the model
states the property around them:

- A handler that calls `sh_execute_line` loses its own arguments: the nested line
  fills the one `shell->argv` its `argv` points into, and cleanup may zero it. When
  the handler goes on, its `argv[1]` is a word of the other line, or NULL.
  `include/sh_shell.h` says that the function uses the shell's argv storage;
  `include/sh_command.h` has a handler's argument strings valid for the call, which
  they are, but it can no longer find them. `ArgsAsTyped` is stated and proved for
  handlers that execute no line; `sh_execute_argv` is safe.
- `include/sh_shell.h` says of `arg_index`, which `should_mask_arg` is given, that it
  is a payload index and that `argv[0]` is not counted; `docs/porting.md` says that
  it is the index in the parsed line. The code passes the latter, and asks about the
  words of the path too.
- Completion offers neither the topics of `help` nor the words that ask for help
  after a command, all of which the dispatcher accepts. At an argument it asks the
  command's provider without looking at `max_args` or at the room in the vector
  (`src/sh_completion.c`, lines 291 to 299), and proposes words that cannot be
  entered. Registration accepts a leaf without a handler: completion offers it and
  the dispatcher calls it incomplete.
- Completion cuts the word at spaces, so after `a\ b` it completes `b`, and as a
  root command when it is the first word; `docs/line_editor_history_completion.md`
  plans for the parser to decide. `CompletionAgreesWithDispatch` is stated for
  lines without quotes and escapes.
- `append_token` quotes words with blanks and tabs only: a word with another
  white-space character, which a quoted line can contain when it comes from the
  application, splits when the rebuilt line is recalled. A rebuilt line longer
  than its buffer loses its end.
- `sh_stop` keeps the line being edited, the view and the CR flag:
  `include/sh_shell.h` says it resets the input state, `docs/porting.md` that it
  resets lifecycle and decoder state.
- Escape and then `[` typed at a Windows console are the start of a sequence to
  the decoder: the bracket and what completes the sequence do not reach the line.
  `KeysAsPressed` is stated for runs in which nobody typed that (`EscapeBracket`).
- A key without a character between the halves of a surrogate pair (pressing
  Shift) drops the pair: the model has the drop in `Meaning`'s "character before".
- `sh_host_terminal_close` counts a terminal as closed even when the system
  refused to restore it, so a second call does nothing; a terminal opened twice
  without a close would save the raw mode as the original one.

## 6. Not modelled, and the plan

Modelled in the order of importance: output path, FreeRTOS port, history with its
refinement, decoder, line editor with its abstract buffer, TCP session; then
tokenizer, command tree, masking and nested execution; completion; the bare-metal
and host ports. To do:

1. Compositions: `Transport` over the TCP session's and the FreeRTOS port's
   writes; TCP read and write callbacks that call the session back.
2. The script mode of the host example (`run_script`).

Left out on purpose: formatting and wording of output, help text, redrawing and
cursor escape sequences, zeroing of memory other than the argument vector (the
model keeps no stale copies), null-argument checks and rejected configurations,
the cut of a command path at 128 bytes, build files, the other examples, tests
and tools.
