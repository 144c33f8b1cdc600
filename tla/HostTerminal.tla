---------------------------- MODULE HostTerminal ----------------------------
(***************************************************************************)
(* The host program on a terminal: the Windows and POSIX ports            *)
(* (sh_port_windows.c, sh_port_posix.c) around the key decoder, and the    *)
(* main loop of the host example that opens the terminal, feeds the shell  *)
(* and puts the terminal back, run after run on the same terminal.         *)
(*                                                                         *)
(* The records of a Windows console become bytes here and keys again in    *)
(* the decoder. Files, pipes and POSIX terminals deliver bytes. A read     *)
(* that queues several bytes is a step for the record and one per byte.    *)
(***************************************************************************)
EXTENDS KeyDecoding, Integers, SequencesExt

CONSTANTS
  Record,    \* the key records of a console
  MaxRecords \* bound on the records of one run of the program

KeyCode == Keys \cup {"NONE"}
Unit == 0..(2^16 - 1)

ASSUME RecordAssumption ==
  Record \subseteq [down : BOOLEAN, key : KeyCode, unit : Unit, repeat : Unit]

VARIABLES
  platform,            \* "windows" or "posix"
  phase, code,         \* of main(): where it is, what it returned
  inputMode, outputMode,  \* the modes the terminal is in
  savedInput, savedOutput, \* the modes the port saved, "NONE" if it did not
  console,             \* input_is_console: the port reads key records
  queue, position, repeat, \* byte_queue, byte_queue_position, repeat_remaining
  high,                \* pending_high_surrogate
  found,               \* the modes before the program was started
  refused,             \* the modes the system refused to restore
  pressed,             \* the records read
  got                  \* what reached the editor: bytes and keys

portQueue == <<queue, position, repeat, high>>
modes == <<inputMode, outputMode>>
hostVars == <<keyVars, platform, phase, code, modes, savedInput, savedOutput,
              console, portQueue, found, refused, pressed, got>>

EmptyQueue == queue' = <<>> /\ position' = 0 /\ repeat' = 0 /\ high' = 0

HostInit ==
  /\ KDInit
  /\ platform \in {"windows", "posix"}
  /\ phase = "begun" /\ code = 0
  /\ inputMode \in {"cooked", "raw"} /\ outputMode \in {"plain", "vt"}
  /\ savedInput = "NONE" /\ savedOutput = "NONE" /\ console = FALSE
  /\ queue = <<>> /\ position = 0 /\ repeat = 0 /\ high = 0
  /\ found = modes /\ refused = {}
  /\ pressed = <<>> /\ got = <<>>

-----------------------------------------------------------------------------
\* sh_host_terminal_open succeeds: input that is a terminal turns raw, and on
\* Windows the output console, if there is one, is asked for escape sequences
\* twice, and may stay as it was.
OpenTerminal ==
  /\ phase = "begun" /\ phase' = "opened"
  /\ \E input, output \in BOOLEAN :
       /\ output => platform = "windows"
       /\ savedInput' = IF input THEN inputMode ELSE "NONE"
       /\ inputMode' = IF input THEN "raw" ELSE inputMode
       /\ savedOutput' = IF output THEN outputMode ELSE "NONE"
       /\ outputMode' \in IF output THEN {"vt", outputMode} ELSE {outputMode}
       /\ console' = (input /\ platform = "windows")
  /\ EmptyQueue
  /\ UNCHANGED <<keyVars, platform, code, found, refused, pressed, got>>

\* No input handle, no mode to read, or a mode that cannot be set: main()
\* returns without closing.
OpenFails ==
  /\ phase = "begun" /\ phase' = "ended" /\ code' = 3
  /\ savedInput' = "NONE" /\ savedOutput' = "NONE" /\ console' = FALSE
  /\ EmptyQueue
  /\ UNCHANGED <<keyVars, platform, modes, found, refused, pressed, got>>

\* Fault: a refusal for the input leaves the output as it is.
FaultyCloseTerminal(inputOk, outputOk) ==
  /\ inputMode' = IF savedInput # "NONE" /\ inputOk THEN savedInput ELSE inputMode
  /\ outputMode' = IF savedOutput # "NONE" /\ outputOk
                      /\ (inputOk \/ savedInput = "NONE")
                   THEN savedOutput ELSE outputMode
  /\ refused' = (IF savedInput # "NONE" /\ ~inputOk THEN {"input"} ELSE {})
                  \cup (IF savedOutput # "NONE" /\ ~outputOk THEN {"output"} ELSE {})
  /\ savedInput' = IF platform = "posix" THEN "NONE" ELSE savedInput
  /\ EmptyQueue
  /\ UNCHANGED <<savedOutput, console>>

\* sh_host_terminal_close: each saved mode is restored, unless the system
\* refuses; either way the terminal counts as closed and is not tried again.
CloseTerminal(inputOk, outputOk) ==
  /\ inputMode' = IF savedInput # "NONE" /\ inputOk THEN savedInput ELSE inputMode
  /\ outputMode' = IF savedOutput # "NONE" /\ outputOk THEN savedOutput ELSE outputMode
  /\ refused' = (IF savedInput # "NONE" /\ ~inputOk THEN {"input"} ELSE {})
                  \cup (IF savedOutput # "NONE" /\ ~outputOk THEN {"output"} ELSE {})
  /\ savedInput' = IF platform = "posix" THEN "NONE" ELSE savedInput
  /\ EmptyQueue
  /\ UNCHANGED <<savedOutput, console>>

-----------------------------------------------------------------------------
\* sh_start, which may fail; then the terminal is closed, whatever that returns.
StartShell ==
  /\ phase = "opened" /\ phase' = "running"
  /\ UNCHANGED <<keyVars, platform, code, modes, savedInput, savedOutput, console,
                 portQueue, found, refused, pressed, got>>

StartFails ==
  /\ phase = "opened" /\ phase' = "ended" /\ code' = 4
  /\ \E inputOk, outputOk \in BOOLEAN : CloseTerminal(inputOk, outputOk)
  /\ UNCHANGED <<keyVars, platform, found, pressed, got>>

\* The loop of main() ends at EOF, at a read error or when a command asks for
\* it: sh_stop, then the terminal is closed.
Leave(result) ==
  /\ phase = "running" /\ phase' = "ended"
  /\ ResetDecoder
  /\ \E inputOk, outputOk \in BOOLEAN : CloseTerminal(inputOk, outputOk)
  /\ code' = IF refused' # {} THEN 7 ELSE result
  /\ UNCHANGED <<platform, found, pressed, got>>

\* The program is run again on the terminal the last run left, with everything
\* of its own as new.
RunAgain ==
  /\ phase = "ended" /\ phase' = "begun" /\ code' = 0
  /\ savedInput' = "NONE" /\ savedOutput' = "NONE" /\ console' = FALSE
  /\ ResetDecoder /\ EmptyQueue
  /\ found' = modes /\ refused' = {} /\ pressed' = <<>> /\ got' = <<>>
  /\ UNCHANGED <<platform, modes>>

-----------------------------------------------------------------------------
\* sh_feed_byte: the byte is a key's, completes a key, or is for the editor.
FeedByte(byte) ==
  /\ Byte(byte)
  /\ got' = IF event' # "NONE" THEN Append(got, event')
            ELSE IF swallowed' THEN got ELSE Append(got, byte)

\* sh_host_queue_special_key: the bytes of a navigation key.
KeyBytes(key) ==
  CASE key = "UP" -> <<ESC, 91, 65>>    [] key = "DOWN" -> <<ESC, 91, 66>>
    [] key = "RIGHT" -> <<ESC, 91, 67>> [] key = "LEFT" -> <<ESC, 91, 68>>
    [] key = "HOME" -> <<ESC, 91, 72>>  [] key = "END" -> <<ESC, 91, 70>>
    [] key = "DELETE" -> <<ESC, 91, 51, 126>>

IsHigh(unit) == unit \in 55296..56319
IsLow(unit) == unit \in 56320..57343

\* WideCharToMultiByte for one character, given by one UTF-16 unit or by two.
CodePoint(first, second) == 65536 + (first - 55296) * 1024 + (second - 56320)
Trailing(c, low) == 128 + ((c \div low) % 64)
Utf8(c) ==
  IF c < 128 THEN <<c>>
  ELSE IF c < 2048 THEN <<192 + (c \div 64), Trailing(c, 1)>>
  ELSE IF c < 65536
  THEN <<224 + (c \div 4096), Trailing(c, 64), Trailing(c, 1)>>
  ELSE <<240 + (c \div 262144), Trailing(c, 4096), Trailing(c, 64), Trailing(c, 1)>>

\* What a record puts in the queue, <<>> if nothing.
RecordBytes(record) ==
  IF ~record.down THEN <<>>
  ELSE IF record.key # "NONE" THEN KeyBytes(record.key)
  ELSE IF IsLow(record.unit)
       THEN IF high = 0 THEN <<>> ELSE Utf8(CodePoint(high, record.unit))
  ELSE IF IsHigh(record.unit) \/ record.unit = 0 THEN <<>>
  ELSE Utf8(record.unit)

\* Fault: a lone first half is kept for a later second half.
FaultyNextHigh(record) ==
  IF ~record.down \/ record.key # "NONE" THEN high
  ELSE IF IsHigh(record.unit) THEN record.unit
  ELSE IF IsLow(record.unit) THEN 0 ELSE high

\* The first half of a pair waits for the next character, whatever keys and
\* releases come between.
NextHigh(record) ==
  IF ~record.down \/ record.key # "NONE" THEN high
  ELSE IF IsHigh(record.unit) THEN record.unit ELSE 0

\* The read waits for a record and turns it into bytes: releases, keys without a
\* character and half characters give none, and the read goes on.
ReadRecord(record) ==
  /\ phase = "running" /\ console /\ queue = <<>> /\ Len(pressed) < MaxRecords
  /\ pressed' = Append(pressed, record)
  /\ high' = NextHigh(record)
  /\ IF RecordBytes(record) = <<>> THEN UNCHANGED <<queue, position, repeat>>
     ELSE /\ queue' = RecordBytes(record) /\ position' = 0
          /\ repeat' = IF record.repeat = 0 THEN 1 ELSE record.repeat
  /\ UNCHANGED <<keyVars, platform, phase, code, modes, savedInput, savedOutput,
                 console, found, refused, got>>

\* After the last byte the sequence starts again while repeats are left.
Advance ==
  IF position + 1 < Len(queue)
  THEN position' = position + 1 /\ UNCHANGED <<queue, repeat>>
  ELSE /\ position' = 0
       /\ IF repeat > 1 THEN repeat' = repeat - 1 /\ UNCHANGED queue
          ELSE repeat' = 0 /\ queue' = <<>>

\* sh_host_take_queued_byte.
TakeQueuedByte ==
  /\ phase = "running" /\ queue # <<>>
  /\ FeedByte(queue[position + 1])
  /\ Advance
  /\ UNCHANGED <<platform, phase, code, modes, savedInput, savedOutput, console,
                 high, found, refused, pressed>>

\* A byte of a file, a pipe or a POSIX terminal (read again after EINTR). What
\* becomes of it in the editor is not recorded.
ReadStream(byte) ==
  /\ phase = "running" /\ ~console
  /\ Byte(byte)
  /\ UNCHANGED <<platform, phase, code, modes, savedInput, savedOutput, console,
                 portQueue, found, refused, pressed, got>>

\* Ctrl-C in the line, or sh_stop from a command, resets the decoder.
ResetBetweenBytes ==
  /\ phase = "running" /\ ~console
  /\ ResetDecoder
  /\ UNCHANGED <<platform, phase, code, modes, savedInput, savedOutput, console,
                 portQueue, found, refused, pressed, got>>

HostNext ==
  \/ OpenTerminal \/ OpenFails \/ StartShell \/ StartFails \/ RunAgain
  \/ TakeQueuedByte
  \/ \E record \in Record : ReadRecord(record)
  \/ \E byte \in InputByte : ReadStream(byte)
  \/ ResetBetweenBytes
  \/ \E result \in {0, 8} : Leave(result)

HostSpec == HostInit /\ [][HostNext]_hostVars

-----------------------------------------------------------------------------
\* The characters among the records before the i-th: keys and releases aside.
CharactersBefore(i) == {j \in 1..(i - 1) : pressed[j].down /\ pressed[j].key = "NONE"}

\* The first half of a pair that waits for its second half, 0 if none does: the
\* last character, if it is one.
Waiting(i) ==
  LET last == pressed[Max(CharactersBefore(i))].unit
  IN IF CharactersBefore(i) # {} /\ IsHigh(last) THEN last ELSE 0

\* What the i-th record means to the person at the keyboard, once: an escape
\* typed by itself gives the editor nothing.
Meaning(i) ==
  LET record == pressed[i]
  IN CASE ~record.down -> <<>>
       [] record.down /\ record.key # "NONE" -> <<record.key>>
       [] OTHER -> IF IsLow(record.unit)
                   THEN IF Waiting(i) = 0 THEN <<>>
                        ELSE Utf8(CodePoint(Waiting(i), record.unit))
                   ELSE IF IsHigh(record.unit) \/ record.unit \in {0, ESC} THEN <<>>
                   ELSE Utf8(record.unit)

\* A key held down counts for as many as the record says, and at least once.
Pressed(i) ==
  FlattenSeq([k \in 1..Max({1, pressed[i].repeat}) |-> Meaning(i)])

\* The i-th record is a character typed.
Typed(i, unit) == pressed[i].down /\ pressed[i].key = "NONE" /\ pressed[i].unit = unit

\* An escape is typed and then, before anything that reaches the editor, a
\* bracket: to the decoder the start of a sequence.
EscapeBracket ==
  \E i, j \in DOMAIN pressed :
    /\ i < j /\ Typed(i, ESC) /\ Typed(j, OpenBracket)
    /\ \A k \in (i + 1)..(j - 1) : Meaning(k) = <<>>

\* What is pressed at a Windows console is what the editor gets: every key once
\* per repeat and in order, each navigation key as that key after the trip
\* through bytes and decoder, each character whole, whatever was held down,
\* released, or half typed before, unless a sequence was typed by hand.
KeysAsPressed ==
  phase = "running" /\ console /\ ~EscapeBracket =>
    LET wanted == FlattenSeq([i \in DOMAIN pressed |-> Pressed(i)])
    IN IsPrefix(got, wanted) /\ (queue = <<>> => got = wanted)

\* However the program ends, the terminal is in the modes it was started in: each
\* mode but those the system refused to restore, and main() then says so, or that
\* the shell did not start.
TerminalLeftAsFound ==
  phase = "ended" =>
    /\ inputMode = found[1] \/ "input" \in refused
    /\ outputMode = found[2] \/ "output" \in refused
    /\ refused # {} => code \in {4, 7}
=============================================================================
