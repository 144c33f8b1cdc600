--------------------------- MODULE MCPolledLines ---------------------------
(***************************************************************************)
(* Small instance of PolledLines: text longer than the line, both line     *)
(* ends in every order, an ESC that opens nothing, polls of one and of two *)
(* bytes.                                                                  *)
(***************************************************************************)
EXTENDS PolledLines

MCTyping == {97, 98, CR, LF, 27}
MCLimits == {1, 2}
MCOffered == [IDLE |-> {}, ESCAPE |-> {}, CSI |-> {}]
MCNoLines == {}
MCNoRoots == <<>>
\* No command is registered, so no name is ever looked at.
MCWord == [help |-> <<98>>, dashHelp |-> <<45, 104>>, dashH |-> <<45>>]
=============================================================================
