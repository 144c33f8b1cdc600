---------------------------- MODULE KeyDecoding ----------------------------
(***************************************************************************)
(* The decoder fed with an arbitrary byte stream, next to the raw bytes    *)
(* since the last ESC: a reference for what it should have decoded.        *)
(***************************************************************************)
EXTENDS AnsiDecoder

CONSTANTS
  InputByte,  \* the bytes that arrive
  MaxRaw      \* bound: bytes of one sequence

ASSUME InputByteAssumption == InputByte \subseteq 0..255

VARIABLES
  raw,      \* the bytes since the last ESC, that one included; <<>> outside
  event,    \* what the decoder returned for the last byte
  swallowed \* whether it kept that byte from the editor

keyVars == <<decoder, raw, event, swallowed>>

\* The sequences the library documents as keys.
KeySequences == [key \in Keys |->
  CASE key = "UP" -> {<<ESC, 91, 65>>}
    [] key = "DOWN" -> {<<ESC, 91, 66>>}
    [] key = "RIGHT" -> {<<ESC, 91, 67>>}
    [] key = "LEFT" -> {<<ESC, 91, 68>>}
    [] key = "HOME" -> {<<ESC, 91, 72>>, <<ESC, 91, 49, 126>>}
    [] key = "END" -> {<<ESC, 91, 70>>, <<ESC, 91, 52, 126>>}
    [] key = "DELETE" -> {<<ESC, 91, 51, 126>>}]

\* The sequence goes on: ESC alone, or ESC [ and parameters only.
Open(bytes) ==
  /\ bytes # <<>>
  /\ Len(bytes) > 1 => bytes[2] = OpenBracket
  /\ \A i \in 3..Len(bytes) : IsParameter(bytes[i])

\* The raw sequence after one more byte: a byte that cannot belong to it is
\* outside.
Extended(byte) ==
  IF byte = ESC THEN <<byte>>
  ELSE IF Open(raw) /\ (Len(raw) > 1 \/ byte = OpenBracket)
  THEN Append(raw, byte)
  ELSE <<>>

KDInit ==
  /\ Init
  /\ raw = <<>> /\ event = "NONE" /\ swallowed = FALSE

Byte(byte) ==
  /\ Len(raw) < MaxRaw \/ byte = ESC
  /\ event' = Event(byte) /\ swallowed' = Consumes(byte)
  /\ raw' = Extended(byte)
  /\ Feed(byte)

\* sh_stop and Ctrl-C reset the decoder.
ResetDecoder ==
  /\ Reset
  /\ raw' = <<>> /\ event' = "NONE" /\ swallowed' = FALSE

-----------------------------------------------------------------------------
\* A key is decoded exactly when the bytes since the last ESC are one of its
\* sequences, whatever garbage, interrupted or overlong sequence came before.
EventMatchesBytes ==
  \A key \in Keys : event = key <=> raw \in KeySequences[key]

\* The editor is denied exactly the bytes that belong to a sequence: no byte of
\* a key is typed into the line, and no byte outside a sequence is lost.
SwallowsExactlySequences == swallowed <=> raw # <<>>
=============================================================================
