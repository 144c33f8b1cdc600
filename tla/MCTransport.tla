---------------------------- MODULE MCTransport ----------------------------
(***************************************************************************)
(* Small instance of Transport: distinct bytes, so that a repeated, lost   *)
(* or reordered byte shows, and one payload longer than the format buffer. *)
(***************************************************************************)
EXTENDS Transport

MCByte == 1..4
MCPayload == {<<>>, <<1>>, <<1, 2, 3>>, <<1, 2, 3, 4>>}
=============================================================================
