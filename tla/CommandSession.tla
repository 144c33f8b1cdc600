--------------------------- MODULE CommandSession ---------------------------
(***************************************************************************)
(* sh_execute_line and sh_execute_argv with everything under them, and     *)
(* the handlers they call, which may execute lines in turn: each call      *)
(* splits a copy of its line, but all of them fill the same shell->argv.   *)
(***************************************************************************)
EXTENDS Tokenizer, Masking

CONSTANTS
  Nested,     \* lines handlers execute
  Vector,     \* word lists executed by sh_execute_argv
  HandlerStatus, \* what handlers return
  Tables,     \* what applications register: sequences of tables
  Command,    \* the commands in these tables and below them
  MaxNesting, \* bound on calls within calls
  MaxCalls,   \* bound on the calls from outside a handler
  LineMax,    \* cfg.line_max
  Depth, SlotSize \* the history's

ASSUME LogAssumption == Depth \in Nat /\ SlotSize \in Nat
ASSUME NestedAssumption == Nested \subseteq Seq(1..255)
ASSUME VectorAssumption == Vector \subseteq Seq(Seq(1..255))
ASSUME TablesAssumption ==
  /\ Tables \subseteq Seq(Seq(Command))
  /\ \A cmd \in Command : cmd.sub \in Seq(Command) /\ cmd.min \in Nat /\ cmd.max \in Nat
ASSUME WordAssumption == <<Star>> \notin HelpWords

VARIABLES
  cfg,     \* builtins_enabled and secure_clear_enabled
  roots,   \* the registered tables
  echo,    \* echo_enabled
  log,     \* the history, oldest line first
  frames,  \* the calls in progress, outermost first
  status,  \* what the last call returned
  calls    \* calls from outside a handler, for the bound

commandVars == <<cfg, roots, echo, log>>
sessionVars == <<tokenizerVars, commandVars, frames, status, calls>>

History == INSTANCE HistoryLog WITH Line <- {}

-----------------------------------------------------------------------------
\* A call: its line and buffer, the part of shell->argv its handler was given
\* (from `first`, `count` entries into buffer `home`; 0 is a caller's own
\* vector), and whether another line was executed since.
Frame(home) == [text |-> <<>>, buf |-> <<>>, home |-> home,
                first |-> 0, count |-> 0, disturbed |-> FALSE]

Top == frames[Len(frames)]
InHandler == phase = "handler"

\* The library may be entered: nothing runs, or a handler does.
MayCall ==
  \/ phase = "idle" /\ calls < MaxCalls /\ calls' = calls + 1
  \/ InHandler /\ Len(frames) < MaxNesting /\ UNCHANGED calls

\* The locals of the splitting are gone.
NotScanning ==
  /\ text' = <<>> /\ buf' = <<NUL>>
  /\ read' = 1 /\ write' = 1 /\ quote' = NUL
  /\ argc' = 0 /\ level' = Len(frames')

AfterReturn == phase' = IF frames' = <<>> THEN "idle" ELSE "handler"

SessionInit ==
  /\ cfg \in [builtins : BOOLEAN, secure : BOOLEAN]
  /\ roots = <<>> /\ echo = TRUE /\ log = <<>>
  /\ frames = <<>> /\ status = "SH_OK" /\ calls = 0
  /\ text = <<>> /\ buf = <<NUL>> /\ read = 1 /\ write = 1 /\ quote = NUL
  /\ argc = 0 /\ argv = [i \in 1..Capacity |-> Null]
  /\ level = 0 /\ phase = "idle"

\* sh_register_commands, sh_register_command_sets, while no command runs: a table
\* that is refused leaves the old one.
Register(tables) ==
  /\ phase = "idle"
  /\ roots' = IF AcceptsSets(tables, cfg.builtins) THEN tables ELSE roots
  /\ status' = IF AcceptsSets(tables, cfg.builtins)
               THEN "SH_OK" ELSE "SH_ERR_INVALID_CONFIG"
  /\ UNCHANGED <<tokenizerVars, cfg, echo, log, frames, calls>>

\* sh_execute_line copies the line and begins to split it.
ExecuteLine ==
  /\ MayCall
  /\ \E line \in (IF InHandler THEN Nested ELSE Line) :
       IF Len(line) > LineMax
       THEN /\ status' = "SH_ERR_LINE_TOO_LONG"
            /\ UNCHANGED <<tokenizerVars, frames>>
       ELSE /\ LET disturbed == [i \in DOMAIN frames |->
                                   [frames[i] EXCEPT !.disturbed = TRUE]]
               IN frames' = Append(disturbed, Frame(Len(frames) + 1))
            /\ Begin(line, Len(frames) + 1)
            /\ UNCHANGED <<argv, status>>
  /\ UNCHANGED commandVars

Scan == Step /\ UNCHANGED <<commandVars, frames, status, calls>>

\* The end of sh_execute_line, with its cleanup.
LineReturns(st) ==
  /\ status' = st
  /\ frames' = Front(frames)
  /\ argv' = IF cfg.secure THEN [i \in DOMAIN argv |-> Null] ELSE argv
  /\ NotScanning /\ AfterReturn

\* A line that cannot be split, and one without words.
NothingToDo ==
  /\ phase \in Statuses
  /\ phase = "SH_OK" => argc = 0
  /\ LineReturns(phase)
  /\ UNCHANGED <<commandVars, calls>>

Recorded ==
  IF IsRemembered(roots, Words) /\ History!Accepts(HistoryLine(roots, text, Words))
  THEN History!Recorded(HistoryLine(roots, text, Words)) ELSE log

\* What the built-ins change, besides output.
BuiltinEffect(words, recorded) ==
  LET clears == cfg.builtins /\ words = <<Word.history, Word.clear>>
      switches == /\ cfg.builtins
                  /\ words \in {<<Word.echo, Word.on>>, <<Word.echo, Word.off>>}
  IN /\ log' = IF clears THEN <<>> ELSE recorded
     /\ echo' = IF switches THEN words[2] = Word.on ELSE echo

\* The split line is recorded, then dispatched: to a built-in or an error, and
\* the call returns, or to a handler.
DispatchLine ==
  /\ phase = "SH_OK" /\ argc > 0
  /\ BuiltinEffect(Words, Recorded)
  /\ LET outcome == Dispatch(roots, cfg.builtins, Words)
     IN IF outcome.runs = <<>> THEN LineReturns(outcome.status)
        ELSE /\ frames' = [frames EXCEPT ![Len(frames)] =
                             [@ EXCEPT !.text = text, !.buf = buf,
                                       !.first = outcome.first,
                                       !.count = argc - outcome.first + 1]]
             /\ phase' = "handler" /\ NotScanning
             /\ UNCHANGED <<argv, status>>
  /\ UNCHANGED <<cfg, roots, calls>>

\* sh_execute_argv on `words`, for which `frame` is the call: no history, no
\* cleanup.
DispatchVector(words, frame) ==
  /\ IF Len(words) > Capacity
     THEN status' = "SH_ERR_INVALID_ARG" /\ UNCHANGED <<tokenizerVars, frames, log, echo>>
     ELSE /\ BuiltinEffect(words, log)
          /\ LET outcome == Dispatch(roots, cfg.builtins, words)
             IN IF outcome.runs = <<>>
                THEN status' = outcome.status /\ UNCHANGED <<tokenizerVars, frames>>
                ELSE /\ frames' = Append(frames,
                          [frame EXCEPT !.first = @ + outcome.first - 1,
                                        !.count = Len(words) - outcome.first + 1])
                     /\ phase' = "handler" /\ NotScanning
                     /\ UNCHANGED <<argv, status>>
  /\ UNCHANGED <<cfg, roots>>

\* sh_execute_argv on a vector of the caller's.
ExecuteArgv(words) == MayCall /\ DispatchVector(words, [Frame(0) EXCEPT !.first = 1])

\* The arguments a handler reads; an entry that is not its line's any more reads
\* as something else.
Seen(frame) ==
  [k \in 1..frame.count |->
     LET entry == argv[frame.first + k - 1]
     IN IF entry.level = frame.home THEN StringAt(frame.buf, entry.at) ELSE <<NUL>>]

\* A handler hands its own arguments, without its name, to sh_execute_argv.
ForwardArguments ==
  /\ InHandler /\ Len(frames) < MaxNesting
  /\ Top.home # 0 /\ ~Top.disturbed /\ Top.count > 1
  /\ UNCHANGED calls
  /\ DispatchVector(Tail(Seen(Top)), [Top EXCEPT !.first = @ + 1])

\* Fault: the vector is cleaned up although it is the caller's.
FaultyVectorReturns(st) ==
  /\ status' = st /\ frames' = Front(frames)
  /\ argv' = [i \in DOMAIN argv |-> Null]
  /\ NotScanning /\ AfterReturn

\* sh_execute_argv returns what the handler returned.
VectorReturns(st) ==
  /\ status' = st /\ frames' = Front(frames)
  /\ UNCHANGED argv
  /\ NotScanning /\ AfterReturn

\* The handler on top returns, from a line or from a vector.
HandlerReturns(st) ==
  /\ InHandler
  /\ IF Top.home = Len(frames) THEN LineReturns(st) ELSE VectorReturns(st)
  /\ UNCHANGED <<commandVars, calls>>

SessionNext ==
  \/ \E tables \in Tables : Register(tables)
  \/ ExecuteLine
  \/ \E words \in Vector : ExecuteArgv(words)
  \/ ForwardArguments
  \/ Scan \/ NothingToDo \/ DispatchLine
  \/ \E st \in HandlerStatus : HandlerReturns(st)

SessionSpec == SessionInit /\ [][SessionNext]_sessionVars

-----------------------------------------------------------------------------
\* What a handler reads are the words of its line, from its own name on.
SeesItsWords(frame) ==
  Seen(frame) = SubSeq(Tokens(frame.text, Capacity).words,
                       frame.first, frame.first + frame.count - 1)

\* A handler of a line, or one that got a part of its arguments.
OnLine(frame) == frame.home # 0 /\ frame.count > 0

\* The arguments are those words for as long as no line was executed inside the
\* handler: through the compacted buffer, the vector all calls share, calls of its
\* own by sh_execute_argv, and every cleanup.
ArgsAsTyped ==
  \A i \in DOMAIN frames :
    OnLine(frames[i]) /\ ~frames[i].disturbed => SeesItsWords(frames[i])

\* The commands of a tree, as the paths to them.
Paths(tables) ==
  LET to[d \in 1..MaxDepth] ==
        IF d = 1
        THEN {<<cmd>> : cmd \in UNION {ToSet(tables[i]) : i \in DOMAIN tables}}
        ELSE UNION {{Append(path, cmd) : cmd \in ToSet(Last(path).sub)} :
                      path \in to[d - 1]}
  IN UNION {to[d] : d \in 1..MaxDepth}

\* Whatever was registered, and refused, in whatever order: every leaf command
\* with a handler runs when its path is typed with the arguments it asks for. No
\* command is hidden by one of another set, by a sibling or by a built-in.
EveryLeafReachable ==
  phase = "idle" => \A path \in Paths(roots) :
    LET cmd == Last(path)
        words == [i \in DOMAIN path |-> path[i].name]
                   \o [i \in 1..(cmd.min - 1) |-> <<Star>>]
    IN cmd.handler /\ ~IsParent(cmd) => Dispatch(roots, cfg.builtins, words) = Run(path)

\* A step that records a line records one that means the same when it is
\* recalled: its words are those of the line executed, the hidden ones replaced.
\* (A line written anew that is longer than the buffer or the slot loses its end,
\* and blanks other than space and tab are recorded without their quotes.)
RecordedReplays ==
  [][LET words == Tokens(text, Capacity).words
         line == Last(log')
     IN /\ log' # log /\ log' # <<>>
        /\ Len(line) < HistoryMax /\ Len(line) < SlotSize - 1
        /\ \A i \in DOMAIN words : Quotable(words[i])
        => Tokens(line, Capacity).words = MaskedWords(roots, words)]_sessionVars

-----------------------------------------------------------------------------
\* What a line says so far, read as sh_tokenize reads and without a limit on the
\* words (there are no more of them than bytes): the words, with the one begun,
\* and the places of the index-th, quotes and backslashes included.
TypedWords(line) ==
  LET end == Reading(line, Len(line))
  IN IF end.open THEN Append(end.words, end.word) ELSE end.words

WordPlaces(line, index) ==
  {p \in DOMAIN line :
     LET s == Readings(line, Len(line))[p]
     IN s.open /\ Len(s.words) = index - 1}

\* The places of the arguments to be masked, whatever becomes of the line.
SecretPlaces(line) ==
  UNION {WordPlaces(line, i) : i \in MaskedArgs(roots, TypedWords(line))}

HidesSecrets(line) ==
  LET shown == DisplayLine(roots, line, Capacity)
  IN \A p \in SecretPlaces(line) : shown[p] \in Quotes \cup {Star}

\* The echo as it is documented: at every moment of typing a line, a masked argument
\* shows nothing but stars and quotes (sh_command.h:50, porting.md:569). The code
\* gives up masking when the line so far cannot be tokenized (sh_shell.c:397), and
\* finds the words by a scanner that takes a backslash in single quotes for an
\* escape, which may end an argument too early (sh_shell.c:299).
EchoHidesArguments == phase = "gap" /\ read = 1 => HidesSecrets(text)

\* The lines on which the echo keeps its promise: no backslash stands in single
\* quotes, the argument vector has room, and the last byte is no lone backslash.
\* A quote may be open.
IsFollowed(line) ==
  LET at == Readings(line, Capacity)
      end == at[Len(line)]
  IN /\ \A p \in DOMAIN line : line[p] = Backslash => at[p - 1].quote # SingleQuote
     /\ ~end.full /\ ~end.escaped

\* While such a line is typed, a masked argument shows nothing but stars and quotes
\* from its first byte on, and everything else shows as typed.
EchoFollowsLine ==
  phase = "gap" /\ read = 1 /\ IsFollowed(text) =>
    LET shown == DisplayLine(roots, text, Capacity)
    IN HidesSecrets(text)
         /\ \A p \in DOMAIN text \ SecretPlaces(text) : shown[p] = text[p]
=============================================================================
