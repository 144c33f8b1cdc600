--------------------------- MODULE MCHostTerminal ---------------------------
(***************************************************************************)
(* Small instance of HostTerminal: on a stream every class of byte, with a *)
(* parameter buffer shorter than the longest sequence; on a console keys   *)
(* of three and four bytes held down or not, a letter held down, an        *)
(* escape, a bracket, an accented letter, both halves of a surrogate pair, *)
(* a key without a character and a release.                                *)
(***************************************************************************)
EXTENDS HostTerminal

\* ESC [ A D 3 4 5 ; ~ x CR
MCInputByte == {27, 91, 65, 68, 51, 52, 53, 59, 126, 120, 13}

Key(key, unit, times) == [down |-> TRUE, key |-> key, unit |-> unit, repeat |-> times]

MCRecord ==
  {Key(key, 0, times) : key \in {"UP", "DELETE"}, times \in 0..2}
    \cup {Key("NONE", unit, 2) : unit \in {97, 233, 56832}}
    \cup {Key("NONE", unit, 1) : unit \in {0, 27, 91, 55357, 56832}}
    \cup {[down |-> FALSE, key |-> "NONE", unit |-> 97, repeat |-> 1]}
=============================================================================
