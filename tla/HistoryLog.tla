----------------------------- MODULE HistoryLog -----------------------------
(***************************************************************************)
(* What the command history promises: a bounded list of the most recent    *)
(* lines, oldest first, without the empty line and without a line equal to *)
(* the one before it.                                                      *)
(***************************************************************************)
EXTENDS Naturals, Sequences

CONSTANTS
  Depth,    \* cfg.history_depth; 0 disables the history
  SlotSize, \* history_slot_size, one more than the longest line a slot holds
  Line      \* lines offered to the history, those longer than a slot included

VARIABLE log

\* The part of a line a slot keeps.
Stored(line) ==
  IF Len(line) >= SlotSize THEN SubSeq(line, 1, SlotSize - 1) ELSE line

\* The entry k steps back from the newest.
Newest(k) == log[Len(log) - k]

\* The whole line is compared with the stored newest one.
Accepts(line) ==
  /\ line # <<>>
  /\ Depth > 0
  /\ log = <<>> \/ Newest(0) # line

\* The list with one more line, the oldest dropped when it is full.
Recorded(line) ==
  Append(IF Len(log) < Depth THEN log ELSE Tail(log), Stored(line))

Init == log = <<>>

Add(line) == log' = IF Accepts(line) THEN Recorded(line) ELSE log

Clear == log' = <<>>

Next == (\E line \in Line : Add(line)) \/ Clear

Spec == Init /\ [][Next]_log
=============================================================================
