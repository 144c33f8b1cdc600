---------------------------- MODULE AnsiDecoder ----------------------------
(***************************************************************************)
(* The incremental decoder of terminal escape sequences (sh_ansi.c): one   *)
(* byte at a time, it turns ESC [ parameters final into an editing key and *)
(* tells the line editor which bytes it swallowed.                         *)
(***************************************************************************)
EXTENDS Naturals, Sequences

CONSTANT CsiMax  \* SH_ANSI_CSI_MAX, parameter bytes remembered

ASSUME CsiMaxAssumption == CsiMax \in Nat \ {0}

VARIABLES
  state,    \* "IDLE", "ESCAPE" or "CSI"
  csi,      \* the parameter bytes remembered (csi and csi_length)
  overflow  \* csi_overflow: more parameters came than fit

decoder == <<state, csi, overflow>>

-----------------------------------------------------------------------------
ESC == 27
OpenBracket == 91
Tilde == 126

IsFinal(byte) == byte \in 64..126
IsParameter(byte) == byte \in 32..63

Keys == {"UP", "DOWN", "RIGHT", "LEFT", "HOME", "END", "DELETE"}

\* Final bytes that are a key by themselves.
FinalKey(final) ==
  CASE final = 65 -> "UP"    [] final = 66 -> "DOWN"
    [] final = 67 -> "RIGHT" [] final = 68 -> "LEFT"
    [] final = 72 -> "HOME"  [] final = 70 -> "END"
    [] OTHER -> "NONE"

\* Parameters that select a key when a tilde follows.
ParameterKey(parameter) ==
  CASE parameter = 49 -> "HOME" [] parameter = 52 -> "END"
    [] parameter = 51 -> "DELETE" [] OTHER -> "NONE"

\* Fault: the first parameter decides alone.
FaultyDecodeCsi(final) ==
  CASE csi = <<>> -> FinalKey(final)
    [] csi # <<>> /\ final = Tilde -> ParameterKey(csi[1])
    [] OTHER -> "NONE"

\* sh_ansi_decode_csi on the parameters remembered so far.
DecodeCsi(final) ==
  CASE csi = <<>> -> FinalKey(final)
    [] Len(csi) = 1 /\ final = Tilde -> ParameterKey(csi[1])
    [] OTHER -> "NONE"

\* The event sh_ansi_feed returns for a byte.
Event(byte) ==
  IF state = "CSI" /\ IsFinal(byte) /\ ~overflow THEN DecodeCsi(byte) ELSE "NONE"

\* Fault: the byte after a lone ESC is lost.
FaultyConsumes(byte) == byte = ESC \/ state # "IDLE"

\* Whether the decoder keeps the byte from the line editor: all of a sequence,
\* except a byte that turns out not to continue ESC.
Consumes(byte) ==
  \/ byte = ESC
  \/ state = "ESCAPE" /\ byte = OpenBracket
  \/ state = "CSI"

-----------------------------------------------------------------------------
Init == state = "IDLE" /\ csi = <<>> /\ overflow = FALSE

\* sh_ansi_reset, and sh_ansi_finish_sequence.
Reset == state' = "IDLE" /\ csi' = <<>> /\ overflow' = FALSE

\* A CSI parameter: remembered while it fits.
Parameter(byte) ==
  /\ state = "CSI" /\ IsParameter(byte)
  /\ IF Len(csi) < CsiMax
     THEN csi' = Append(csi, byte) /\ UNCHANGED overflow
     ELSE overflow' = TRUE /\ UNCHANGED csi
  /\ UNCHANGED state

\* ESC [ begins a sequence with no parameters.
OpenCsi(byte) ==
  /\ state = "ESCAPE" /\ byte = OpenBracket
  /\ state' = "CSI" /\ csi' = <<>> /\ overflow' = FALSE

\* ESC (re)starts a sequence in every state. Only CSI forgets its parameters:
\* in the others there are none.
Escape(byte) ==
  /\ byte = ESC
  /\ state' = "ESCAPE"
  /\ IF state = "CSI" THEN csi' = <<>> /\ overflow' = FALSE
                      ELSE UNCHANGED <<csi, overflow>>

\* Anything else ends the sequence, if there was one: a final byte, a control
\* byte inside CSI, a byte after ESC that opens nothing.
Finish(byte) ==
  /\ byte # ESC
  /\ ~(state = "ESCAPE" /\ byte = OpenBracket)
  /\ ~(state = "CSI" /\ IsParameter(byte))
  /\ IF state = "IDLE" THEN UNCHANGED decoder ELSE Reset

\* sh_ansi_feed.
Feed(byte) == Escape(byte) \/ OpenCsi(byte) \/ Parameter(byte) \/ Finish(byte)
=============================================================================
