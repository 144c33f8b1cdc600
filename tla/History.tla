------------------------------ MODULE History ------------------------------
(***************************************************************************)
(* The command history as the shell keeps it: a ring of Depth fixed-size   *)
(* slots with a start index and a count (sh_history.c).                    *)
(***************************************************************************)
EXTENDS Naturals, Sequences

CONSTANTS
  Byte,     \* the bytes of a line
  Depth,    \* history_depth; 0 disables the history
  SlotSize, \* history_slot_size
  Line,     \* lines build_history_line produces; masking can make one longer
            \* than a slot, since the rebuilt line may exceed line_max
  Stale     \* what the caller's storage holds before the first line

ASSUME DepthAssumption == Depth \in Nat
ASSUME SlotSizeAssumption == SlotSize \in Nat \ {0}
ASSUME LineAssumption == Line \subseteq Seq(Byte) /\ Stale \in Seq(Byte)

VARIABLES slots, start, count

vars == <<slots, start, count>>

Physical == 0..(Depth - 1)

\* sh_history_get_newest: the entry `index` steps back, for index < count.
GetNewest(index) == slots[(start + (count - 1 - index)) % Depth]

\* What memcpy leaves in a slot.
Cut(line) ==
  IF Len(line) >= SlotSize THEN SubSeq(line, 1, SlotSize - 1) ELSE line

\* sh_init takes the storage as it is.
Init ==
  /\ slots = [p \in Physical |-> Stale]
  /\ start = 0 /\ count = 0

\* Fault: only the empty line is ignored.
FaultyIgnored(line) == line = <<>> \/ Depth = 0

\* sh_history_add_internal ignores an empty line, a disabled history, and a
\* line equal to the newest entry.
Ignored(line) ==
  \/ line = <<>>
  \/ Depth = 0
  \/ count > 0 /\ GetNewest(0) = line

Ignore(line) == Ignored(line) /\ UNCHANGED vars

\* A free slot after the newest entry takes the line.
AddFree(line) ==
  /\ ~Ignored(line)
  /\ count < Depth
  /\ slots' = [slots EXCEPT ![(start + count) % Depth] = Cut(line)]
  /\ count' = count + 1
  /\ UNCHANGED start

\* Fault: the start index runs on past the last slot.
FaultyAddFullRuns(line) ==
  /\ ~Ignored(line)
  /\ count >= Depth
  /\ slots' = [slots EXCEPT ![start] = Cut(line)]
  /\ start' = start + 1
  /\ UNCHANGED count

\* Fault: the start index stays behind.
FaultyAddFullStays(line) ==
  /\ ~Ignored(line)
  /\ count >= Depth
  /\ slots' = [slots EXCEPT ![start] = Cut(line)]
  /\ UNCHANGED <<start, count>>

\* The ring is full: the line replaces the oldest entry.
AddFull(line) ==
  /\ ~Ignored(line)
  /\ count >= Depth
  /\ slots' = [slots EXCEPT ![start] = Cut(line)]
  /\ start' = (start + 1) % Depth
  /\ UNCHANGED count

Add(line) == Ignore(line) \/ AddFree(line) \/ AddFull(line)

\* sh_history_clear zeroes the storage.
Clear ==
  /\ count' = 0 /\ start' = 0
  /\ slots' = [p \in Physical |-> <<>>]

Next == (\E line \in Line : Add(line)) \/ Clear

Spec == Init /\ [][Next]_vars

-----------------------------------------------------------------------------
\* The ring indices stay in range.
TypeOK ==
  /\ slots \in [Physical -> Seq(Byte)]
  /\ count \in 0..Depth
  /\ start \in Nat /\ (Depth > 0 => start < Depth)

\* The list the history commands and the editor read, oldest first.
Entries == [i \in 1..count |-> GetNewest(count - i)]

Log == INSTANCE HistoryLog WITH log <- Entries

\* The ring is the bounded list of recent lines, across wrap-around, clears and
\* truncation: what sh_history_get_newest returns for every index is what the
\* list holds there, never the contents of an unused slot.
RingIsLog == Log!Spec

\* A line is not recorded twice in a row, whatever was recorded, wrapped or
\* cleared before: no entry that a slot holds with room to spare equals its
\* neighbour. (One that fills the slot may be what was kept of a longer line.)
NoShortDuplicates ==
  \A i \in 1..(count - 1) :
    Len(Entries[i]) < SlotSize - 1 => Entries[i] # Entries[i + 1]

\* Consecutive duplicates are not kept (what sh_history_add_internal and the
\* porting guide promise): no entry equals its neighbour.
NoAdjacentDuplicates ==
  \A i \in 1..(count - 1) : Entries[i] # Entries[i + 1]
=============================================================================
