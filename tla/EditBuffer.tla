----------------------------- MODULE EditBuffer -----------------------------
(***************************************************************************)
(* The line a user edits, with no bytes, escape sequences, indices or      *)
(* capacities of buffers: the text left and right of the cursor, whether   *)
(* it is a recalled history line, and the line put aside when recalling    *)
(* began.                                                                  *)
(***************************************************************************)
EXTENDS Naturals, Sequences

CONSTANTS
  Char,     \* the characters a key inserts
  LineMax,  \* the longest line
  Depth,    \* the longest history
  SlotSize, \* what bounds a history line
  Rebuilt,  \* lines recorded in the place of those with hidden arguments
  Foreign   \* lines the application runs by itself

VARIABLES
  left, right, \* the text on both sides of the cursor
  recalled,    \* the text is a line of the history, not edited since
  memo,        \* the text before the first recall
  log          \* the history, oldest line first

History == INSTANCE HistoryLog WITH Line <- {}

text == left \o right
buffer == <<left, right, recalled, memo, log>>

Blanks == 9..13 \cup {32}
IsBlank(s) == \A i \in 1..Len(s) : s[i] \in Blanks

Init ==
  /\ left = <<>> /\ right = <<>>
  /\ ~recalled /\ memo = <<>>
  /\ log = <<>>

\* An edit makes the text the user's own: what was put aside is forgotten.
Own == ~recalled' /\ memo' = <<>> /\ UNCHANGED log

Insert ==
  /\ Len(text) < LineMax
  /\ \E char \in Char : left' = Append(left, char)
  /\ UNCHANGED right /\ Own

Rubout ==
  /\ left # <<>>
  /\ left' = SubSeq(left, 1, Len(left) - 1)
  /\ UNCHANGED right /\ Own

DeleteRight ==
  /\ right # <<>>
  /\ right' = Tail(right)
  /\ UNCHANGED left /\ Own

\* The word before the cursor and the spaces after it: left is what precedes,
\* then a word up to `last`, then spaces only.
KillWord ==
  /\ \E last \in 0..Len(left) : \E first \in 0..last :
       /\ \A i \in (last + 1)..Len(left) : left[i] \in Blanks
       /\ \A i \in (first + 1)..last : left[i] \notin Blanks
       /\ first > 0 => left[first] \in Blanks /\ first < last
       /\ left' = SubSeq(left, 1, first)
  /\ left' # left
  /\ UNCHANGED right /\ Own

KillLine == left' = <<>> /\ right' = <<>> /\ Own

\* A completion extends what is typed of the word at the cursor, replaces the
\* rest of that word and keeps the rest of the line.
Complete ==
  /\ Len(left') >= Len(left) /\ SubSeq(left', 1, Len(left)) = left
  /\ \E end \in 0..Len(right) :
       /\ \A i \in 1..end : right[i] \notin Blanks
       /\ end < Len(right) => right[end + 1] \in Blanks
       /\ right' = SubSeq(right, end + 1, Len(right))
  /\ Len(left' \o right') <= LineMax
  /\ Own

\* Only the cursor moves, anywhere in the text.
Move ==
  /\ left' \o right' = text
  /\ UNCHANGED <<recalled, memo, log>>

\* Showing a line of the history puts the user's own text aside.
Recall ==
  /\ \E i \in DOMAIN log :
       left' = IF Len(log[i]) > LineMax THEN SubSeq(log[i], 1, LineMax) ELSE log[i]
  /\ right' = <<>>
  /\ recalled'
  /\ memo' = IF recalled THEN memo ELSE text
  /\ UNCHANGED log

\* Back from the history: the text put aside, as it was.
Restore ==
  /\ recalled
  /\ left' = memo /\ right' = <<>>
  /\ Own

\* The history after a line was run: it may be recorded, unless it is blank.
Ran(line) ==
  \/ UNCHANGED log
  \/ ~IsBlank(line) /\ \E l \in {line} \cup Rebuilt : History!Add(l)

\* Enter and ctrl-C leave an empty buffer. Enter runs the line, which may be a
\* command that clears the history.
Submit ==
  /\ Ran(text) \/ (~IsBlank(text) /\ History!Clear)
  /\ left' = <<>> /\ right' = <<>> /\ ~recalled' /\ memo' = <<>>

\* A line the application runs leaves the text alone.
RunForeign ==
  /\ \E line \in Foreign : Ran(line)
  /\ UNCHANGED <<left, right, recalled, memo>>

\* Clearing the history, by the application or by a line it runs, keeps the
\* text shown and makes it the user's own.
ClearHistory ==
  /\ History!Clear
  /\ UNCHANGED <<left, right>> /\ ~recalled' /\ memo' = <<>>

Next ==
  \/ Insert \/ Rubout \/ DeleteRight \/ KillWord \/ KillLine \/ Complete
  \/ Move \/ Recall \/ Restore \/ Submit \/ RunForeign \/ ClearHistory

Spec == Init /\ [][Next]_buffer
=============================================================================
