----------------------------- MODULE LineEditor -----------------------------
(***************************************************************************)
(* One interactive session: sh_input_byte with its escape decoder, the     *)
(* line buffer, history recall and Enter, next to the calls an application *)
(* makes on the same shell between two bytes (start, stop, execute a line, *)
(* clear the history).                                                     *)
(*                                                                         *)
(* A shell belongs to one execution context at a time, so a byte is one    *)
(* step from the callback to the prompt. Lines are sequences of bytes; the *)
(* echo on the terminal is not part of the state.                          *)
(***************************************************************************)
EXTENDS Completion

CONSTANTS
  CsiMax,      \* SH_ANSI_CSI_MAX
  LineMax,     \* cfg.line_max, the longest line; line_capacity is one more
  Depth,       \* cfg.history_depth
  SlotSize,    \* history_slot_size
  SecureClear, \* cfg.secure_clear_enabled
  Offered,     \* the bytes that arrive, by decoder state
  AppLine,     \* lines the application executes by itself
  MaskedLine,  \* lines build_history_line rebuilds with hidden arguments
  Roots,       \* the registered command tables
  Builtins,    \* cfg.builtins_enabled
  Capacity     \* argv_capacity

ASSUME LineMaxAssumption == LineMax \in Nat \ {0}
ASSUME DepthAssumption == Depth \in Nat
ASSUME SlotSizeAssumption == SlotSize \in Nat /\ SlotSize > LineMax
ASSUME CsiMaxAssumption == CsiMax \in Nat \ {0}
ASSUME CapacityAssumption == Capacity \in Nat \ {0}

\* Lines, names and candidates are C strings, and registration has accepted the
\* tables.
String == Seq(1..255)
Commands == UNION {ToSet(table) : table \in UNION {TablesAt(Roots[i])[depth] :
                                     i \in DOMAIN Roots, depth \in 1..MaxDepth}}

ASSUME LinesAssumption == AppLine \cup MaskedLine \subseteq String
ASSUME RootsAssumption ==
  /\ Roots \in Seq(Seq(Commands)) /\ AcceptsSets(Roots, Builtins)
  /\ \A cmd \in Commands :
       /\ cmd.name \in String /\ cmd.sub \in Seq(Commands) /\ cmd.offers \in Seq(Seq(String))
       /\ cmd.min \in Nat /\ cmd.max \in Nat

\* The words the shell knows itself are literals; those looked up together differ.
ASSUME HelpAssumption == \A word \in HelpWords : word \in String /\ IsName(word)
ASSUME WordAssumption ==
  Builtins =>
    /\ \A word \in ReservedNames \cup {Word.on, Word.off, Word.status} :
         word \in String /\ IsName(word)
    /\ Word.clear \notin {Word.help, Word.history, Word.echo, Word.status}
    /\ Word.help \notin {Word.history, Word.echo} /\ Word.history # Word.echo
    /\ Word.on # Word.off /\ Word.status \notin {Word.on, Word.off}

VARIABLES
  line, cursor,             \* shell->line (line_len is its length), cursor
  view, draft,              \* history_view, the line saved while browsing
  log,                      \* the history, oldest line first
  started,                  \* the session flag of sh_start and sh_stop
  lastCr,                   \* last_input_was_cr
  state, csi, overflow      \* the escape decoder

Decoder == INSTANCE AnsiDecoder
History == INSTANCE HistoryLog WITH Line <- {}

decoderVars == <<state, csi, overflow>>
editVars == <<line, cursor, view, draft>>
vars == <<editVars, log, started, lastCr, decoderVars>>

-----------------------------------------------------------------------------
CR == 13
LF == 10
Tab == 9
CtrlC == 3
CtrlL == 12
CtrlU == 21
CtrlW == 23
BackspaceKeys == {8, 127}

IsPrintable(byte) == byte \in 32..126

IsBlank(text) == \A i \in 1..Len(text) : IsSpace(text[i])

Left(n) == SubSeq(line, 1, n)
RightOf(n) == SubSeq(line, n + 1, Len(line))

-----------------------------------------------------------------------------
Init ==
  /\ line = <<>> /\ cursor = 0
  /\ view = -1 /\ draft = <<>>
  /\ log = <<>>
  /\ started = FALSE /\ lastCr = FALSE
  /\ Decoder!Init

\* Fault: an edited line still counts as the recalled one.
FaultyEdit(text, n) ==
  line' = text /\ cursor' = n /\ UNCHANGED <<view, draft, log, started>>

\* The edited line becomes `text` with the cursor after its first n bytes, and
\* is no longer a recalled one.
Edit(text, n) ==
  /\ line' = text /\ cursor' = n /\ view' = -1
  /\ UNCHANGED <<draft, log, started>>

Nothing == UNCHANGED <<editVars, log, started>>

\* set_line: cuts to the capacity, cursor at the end.
SetLine(text) ==
  /\ line' = IF Len(text) > LineMax THEN SubSeq(text, 1, LineMax) ELSE text
  /\ cursor' = Len(line')

\* Fault: one character too many.
FaultyInsertChar(byte) ==
  IF Len(line) >= LineMax + 1 THEN Nothing
  ELSE Edit(Append(Left(cursor), byte) \o RightOf(cursor), cursor + 1)

\* insert_char: refused when the buffer is full.
InsertChar(byte) ==
  IF Len(line) + 1 >= LineMax + 1 THEN Nothing
  ELSE Edit(Append(Left(cursor), byte) \o RightOf(cursor), cursor + 1)

Backspace ==
  IF cursor = 0 THEN Nothing
  ELSE Edit(Left(cursor - 1) \o RightOf(cursor), cursor - 1)

DeleteAtCursor ==
  IF cursor >= Len(line) THEN Nothing
  ELSE Edit(Left(cursor) \o RightOf(cursor + 1), cursor)

\* delete_word_left: back over spaces, then over the word before them.
DeleteWordLeft ==
  LET wordEnd == Max({e \in 0..cursor : e = 0 \/ ~IsSpace(line[e])})
      first   == Max({s \in 0..wordEnd : s = 0 \/ IsSpace(line[s])})
  IN IF first = cursor THEN Nothing
     ELSE Edit(Left(first) \o RightOf(cursor), first)

MoveTo(n) == cursor' = n /\ UNCHANGED <<line, view, draft, log, started>>

\* What clearing the line does to the saved draft: clear_input_line (ctrl-U)
\* leaves it alone without secure clear, Enter and ctrl-C always empty it.
ClearInputLine ==
  /\ line' = <<>> /\ cursor' = 0 /\ view' = -1
  /\ draft' = IF SecureClear THEN <<>> ELSE draft
  /\ UNCHANGED <<log, started>>

EmptyEditor == line' = <<>> /\ cursor' = 0 /\ view' = -1 /\ draft' = <<>>

CancelInputLine == EmptyEditor /\ UNCHANGED <<log, started>>

\* Fault: every step saves the line shown as the draft.
FaultyMoveHistory(step) ==
  IF log = <<>> THEN Nothing
  ELSE LET next  == IF step = 1
                    THEN (IF view < Len(log) - 1 THEN view + 1 ELSE view)
                    ELSE (IF view >= 0 THEN view - 1 ELSE view)
       IN /\ draft' = line
          /\ view' = next
          /\ SetLine(IF next < 0 THEN line ELSE History!Newest(next))
          /\ UNCHANGED <<log, started>>

\* move_history: step is 1 towards older lines and -1 towards newer ones. The
\* draft is saved whenever no line is being browsed, before the index moves.
MoveHistory(step) ==
  IF log = <<>> THEN Nothing
  ELSE LET saved == IF view < 0 THEN line ELSE draft
           next  == IF step = 1
                    THEN (IF view < Len(log) - 1 THEN view + 1 ELSE view)
                    ELSE (IF view >= 0 THEN view - 1 ELSE view)
       IN /\ draft' = saved
          /\ view' = next
          /\ SetLine(IF next < 0 THEN saved ELSE History!Newest(next))
          /\ UNCHANGED <<log, started>>

\* sh_complete_line_internal on the line being edited.
TakeOver(result) ==
  IF result.replaced THEN Edit(result.line, result.cursor) ELSE Nothing

CompleteLine == TakeOver(Completed(Roots, Builtins, Capacity, line, cursor, LineMax))

\* sh_execute_line on a line within the capacity: a blank one does nothing, a
\* malformed one, or a command marked NO_HISTORY, leaves no history; the others
\* are recorded before they run, as typed or rebuilt with hidden arguments. The
\* command's handler may clear the history or stop the session.
Execute(text, clears, stops) ==
  /\ IF clears THEN ~IsBlank(text) /\ History!Clear
     ELSE \/ UNCHANGED log
          \/ /\ ~IsBlank(text)
             /\ \E recorded \in {text} \cup MaskedLine : History!Add(recorded)
  /\ stops => ~IsBlank(text)
  /\ started' = (started /\ ~stops)

\* handle_enter: the line is executed, then the editor starts afresh.
HandleEnter ==
  /\ \E clears, stops \in BOOLEAN : Execute(line, clears, stops)
  /\ EmptyEditor

\* handle_escape_key.
HandleEscapeKey(key) ==
  CASE key = "UP" -> MoveHistory(1)
    [] key = "DOWN" -> MoveHistory(-1)
    [] key = "RIGHT" -> MoveTo(IF cursor < Len(line) THEN cursor + 1 ELSE cursor)
    [] key = "LEFT" -> MoveTo(IF cursor > 0 THEN cursor - 1 ELSE cursor)
    [] key = "HOME" -> MoveTo(0)
    [] key = "END" -> MoveTo(Len(line))
    [] key = "DELETE" -> DeleteAtCursor

\* The switch of sh_input_byte on a byte the decoder did not keep.
HandleByte(byte) ==
  CASE byte \in {CR, LF} -> HandleEnter
    [] byte \in BackspaceKeys -> Backspace
    [] byte = Tab -> CompleteLine
    [] byte = CtrlC -> CancelInputLine
    [] byte = CtrlU -> ClearInputLine
    [] byte = CtrlW -> DeleteWordLeft
    [] IsPrintable(byte) -> InsertChar(byte)
    [] OTHER -> Nothing                      \* ctrl-L only redraws

-----------------------------------------------------------------------------
\* Fault: the flag of the CR survives the LF it belongs to.
FaultySwallowLf(byte) ==
  byte = LF /\ lastCr /\ UNCHANGED vars

\* The LF of a CRLF: swallowed before the decoder sees it.
SwallowLf(byte) ==
  /\ byte = LF /\ lastCr
  /\ lastCr' = FALSE
  /\ UNCHANGED <<editVars, log, started, decoderVars>>

\* A byte that completes a key sequence.
KeyByte(byte) ==
  /\ ~(byte = LF /\ lastCr)
  /\ Decoder!Event(byte) # "NONE"
  /\ lastCr' = (byte = CR)
  /\ HandleEscapeKey(Decoder!Event(byte))
  /\ Decoder!Feed(byte)

\* A byte inside a sequence.
SequenceByte(byte) ==
  /\ ~(byte = LF /\ lastCr)
  /\ Decoder!Event(byte) = "NONE" /\ Decoder!Consumes(byte)
  /\ lastCr' = (byte = CR)
  /\ Decoder!Feed(byte)
  /\ UNCHANGED <<editVars, log, started>>

\* A byte of text or an editing control. The decoder is idle after it, so the
\* resets of ctrl-C and of a command that calls sh_stop add nothing.
PlainByte(byte) ==
  /\ ~(byte = LF /\ lastCr)
  /\ ~Decoder!Consumes(byte)
  /\ lastCr' = (byte = CR)
  /\ HandleByte(byte)
  /\ Decoder!Feed(byte)

\* sh_input_byte.
InputByte(byte) ==
  SwallowLf(byte) \/ KeyByte(byte) \/ SequenceByte(byte) \/ PlainByte(byte)

-----------------------------------------------------------------------------
\* sh_start: refused when started; undone when the prompt cannot be written.
Start ==
  /\ ~started
  /\ started' \in {TRUE, FALSE}
  /\ UNCHANGED <<editVars, log, lastCr, decoderVars>>

\* sh_stop resets the decoder and flushes; the line and last_input_was_cr stay.
Stop ==
  /\ started' = FALSE
  /\ Decoder!Reset
  /\ UNCHANGED <<editVars, log, lastCr>>

\* Fault: the view outlives the entries.
FaultyLeaveHistory == draft' = <<>> /\ UNCHANGED <<line, cursor, view>>

\* What sh_history_clear does besides the entries.
LeaveHistory == view' = -1 /\ draft' = <<>> /\ UNCHANGED <<line, cursor>>

\* sh_execute_line called by the application between two bytes.
AppExecute(text) ==
  /\ \E clears, stops \in BOOLEAN :
       /\ Execute(text, clears, stops)
       /\ IF clears THEN LeaveHistory ELSE UNCHANGED editVars
       /\ IF stops THEN Decoder!Reset ELSE UNCHANGED decoderVars
  /\ UNCHANGED lastCr

\* sh_history_clear called by the application.
HistoryClear ==
  /\ History!Clear /\ LeaveHistory
  /\ UNCHANGED <<started, lastCr, decoderVars>>

Next ==
  \/ \E byte \in Offered[state] : InputByte(byte)
  \/ \E text \in AppLine : AppExecute(text)
  \/ Start \/ Stop \/ HistoryClear

Spec == Init /\ [][Next]_vars

-----------------------------------------------------------------------------
\* The entry the editor shows fits the line; a rebuilt one may not.
Fitted(text) ==
  IF Len(text) > LineMax THEN SubSeq(text, 1, LineMax) ELSE text

\* The line and the draft never outgrow the buffer, the cursor stays inside the
\* line, and a browsed entry exists whatever runs between two keys.
TypeOK ==
  /\ line \in String /\ Len(line) <= LineMax
  /\ cursor \in 0..Len(line)
  /\ draft \in String /\ Len(draft) <= LineMax
  /\ log \in Seq(String) /\ Len(log) <= Depth
  /\ view \in -1..(Len(log) - 1)
  /\ started \in BOOLEAN /\ lastCr \in BOOLEAN
  /\ state \in {"IDLE", "ESCAPE", "CSI"}

\* While a history entry is browsed, the line is the entry a key recalled: every
\* step that ends browsing at some index has just put the entry of that index in
\* the line, or has touched neither line nor index (a line the application runs
\* meanwhile shifts the entries under the index, not the text).
BrowsingShowsEntry ==
  [][(view' >= 0) => \/ /\ view' < Len(log')
                        /\ line' = Fitted(History!Newest(view))'
                     \/ line' = line /\ view' = view]_vars

-----------------------------------------------------------------------------
\* A word that is no name, to stand for any argument.
NoName == <<Space>>

\* The dispatcher accepts these words, as they are or with more arguments.
Takes(words) ==
  LET path == ResolvedPath(Roots, words)
      missing == IF path = <<>> THEN 0 ELSE Last(path).min
  IN \E k \in 0..missing :
       Dispatch(Roots, Builtins, words \o [i \in 1..k |-> NoName]).status = "SH_OK"

\* It accepts them as a question for help: a topic, or a help word after a command.
AsksHelp(words) ==
  LET path == ResolvedPath(Roots, words)
  IN \/ Builtins /\ Len(words) > 1 /\ words[1] = Word.help
     \/ path # <<>> /\ Len(path) < Len(words) /\ words[Len(path) + 1] \in HelpWords

\* They name a command that is not shown.
IsHidden(words) ==
  LET path == ResolvedPath(Roots, words)
  IN path # <<>> /\ Len(path) = Len(words) /\ Flag(Last(path), "HIDDEN")

\* Every name there is.
AllNames ==
  {cmd.name : cmd \in Commands}
    \cup (IF Builtins THEN ReservedNames \cup {Word.on, Word.off, Word.status} ELSE {})

\* What the provider of the command they name offers for the next argument.
Offers(words) ==
  LET path == ResolvedPath(Roots, words)
      cmd == Last(path)
      argument == Len(words) - Len(path) + 1
  IN IF path = <<>> \/ IsParent(cmd) \/ Flag(cmd, "SENSITIVE") \/ argument \notin DOMAIN cmd.offers
     THEN {}
     ELSE {cmd.offers[argument][i] : i \in 1..Min({ScanMax, Len(cmd.offers[argument])})}

\* The words a user should find after these, by what the dispatcher accepts: where
\* any word will do, those the command's provider offers, otherwise all names that
\* are accepted, but for hidden ones and questions for help.
MayFollow(words) ==
  IF Takes(Append(words, NoName))
  THEN {name \in Offers(words) : Takes(Append(words, name))}
  ELSE {name \in AllNames : /\ Takes(Append(words, name))
                            /\ ~AsksHelp(Append(words, name))
                            /\ ~IsHidden(Append(words, name))}

\* No word may follow: the argument vector is full, or the command takes no more
\* arguments. Its provider is asked all the same (sh_completion.c:291).
IsFull(words) ==
  LET path == ResolvedPath(Roots, words)
  IN \/ Len(words) >= Capacity
     \/ path # <<>> /\ ~IsParent(Last(path)) /\ ~Takes(Append(words, NoName))

\* What registration leaves to the application: a command without subcommands has a
\* handler (sh_command.h:69).
LeavesRun == \A cmd \in Commands : cmd.handler \/ IsParent(cmd)

\* What completion leaves to a provider: that it offers words, each of them once.
\* One offered twice would count as two matches, one with a space in it would come
\* into the line as two words.
PlainOffers ==
  \A cmd \in Commands : \A arg \in DOMAIN cmd.offers :
    LET names == Provider(cmd, arg).names
    IN /\ IsInjective(names)
       /\ \A name \in ToSet(names) : name # <<>> /\ \A i \in DOMAIN name : ~IsSpace(name[i])

\* Tab and the dispatcher agree, wherever the cursor is in a line without quotes and
\* escapes and as long as another word may follow: the word at the cursor grows to
\* what all the words the dispatcher would accept there have in common, a single one
\* is followed by a space, and the words before it are the ones they were.
CompletionAgreesWithDispatch ==
  LET start == TokenStart(line, cursor)
      before == PlainWords(Left(start))
      prefix == SubSeq(line, start + 1, cursor)
  IN (\A i \in 1..cursor : line[i] \notin Quotes \cup {Backslash}) /\ ~IsFull(before) =>
     \E result \in {Completed(Roots, Builtins, Capacity, line, cursor, LineMax)},
        names \in {{name \in MayFollow(before) : IsPrefix(prefix, name)}} :
       LET grown == LongestCommonPrefix(names)
           single == Cardinality(names) = 1
           room == Len(line) - (TokenEnd(line, cursor) - start) + Len(grown)
                     + (IF single THEN 1 ELSE 0) <= LineMax
       IN IF result.replaced
          THEN /\ names # {}
               /\ PlainWords(SubSeq(result.line, 1, result.cursor)) = Append(before, grown)
               /\ single => IsSpace(result.line[start + Len(grown) + 1])
          ELSE names = {} \/ ~room \/ (~single /\ grown = prefix)

\* What the editor promises, keys and history hidden behind an edit buffer.
Buffer == INSTANCE EditBuffer WITH
  Char <- 32..126,
  Rebuilt <- MaskedLine,
  Foreign <- AppLine,
  left <- Left(cursor),
  right <- RightOf(cursor),
  recalled <- view >= 0,
  memo <- IF view >= 0 THEN draft ELSE <<>>

\* Every key, complete sequence, command and clear does to the buffer what an
\* edit buffer does; the bytes inside a sequence do nothing, and the line typed
\* before browsing comes back when browsing ends.
ImplementsEditBuffer == Buffer!Spec
=============================================================================
