----------------------------- MODULE MCHistory -----------------------------
(***************************************************************************)
(* Small instances of History: a ring that wraps many times, lines that    *)
(* fit a slot and, for the second run, one that does not.                  *)
(***************************************************************************)
EXTENDS History

MCByte == 0..4
MCShortLines == {<<>>, <<1>>, <<2>>, <<1, 2>>}
\* <<1, 2, 3>> and <<1, 2, 4>> are both kept as <<1, 2>>.
MCAnyLines == MCShortLines \cup {<<1, 2, 3>>, <<1, 2, 4>>}
\* One line, which masking made longer than a slot.
MCOneLongLine == {<<1>>, <<1, 2, 3>>}
MCStale == <<0>>
=============================================================================
