---------------------------- MODULE HistoryProofs ----------------------------
(***************************************************************************)
(* The ring of History implements the list of HistoryLog, for every depth  *)
(* (zero included), slot size and set of lines, and the list has no line   *)
(* that fits a slot twice in a row.                                        *)
(***************************************************************************)
EXTENDS History, SequenceTheorems, TLAPS

-----------------------------------------------------------------------------
\* Stepping at most Depth slots round the ring from a slot of it.
LEMMA RingStep ==
  ASSUME NEW D \in Nat \ {0}, NEW s \in 0..(D - 1), NEW j \in 0..D
  PROVE  /\ (s + j) % D \in 0..(D - 1)
         /\ (s + j) % D = IF s + j < D THEN s + j ELSE s + j - D
<1>1. CASE s + j < D
  BY <1>1, SMT
<1>2. CASE s + j >= D
  BY <1>2, SMT
<1>3. QED
  BY <1>1, <1>2

\* Different distances below Depth lead to different slots.
LEMMA StepsDiffer ==
  ASSUME NEW D \in Nat \ {0}, NEW s \in 0..(D - 1),
         NEW j \in 0..(D - 1), NEW k \in 0..(D - 1), j # k
  PROVE  (s + j) % D # (s + k) % D
<1>1. ASSUME NEW a, NEW b,
             a = IF s + j < D THEN s + j ELSE s + j - D,
             b = IF s + k < D THEN s + k ELSE s + k - D
      PROVE  a # b
  BY <1>1
<1>2. j \in 0..D /\ k \in 0..D
  OBVIOUS
<1>3. /\ (s + j) % D = IF s + j < D THEN s + j ELSE s + j - D
      /\ (s + k) % D = IF s + k < D THEN s + k ELSE s + k - D
  BY <1>2, RingStep
<1>4. QED
  BY <1>1, <1>3

\* The slot j steps after the next start is j + 1 steps after the start, and the
\* slot Depth - 1 steps after it is the start itself.
LEMMA StepsFromNext ==
  ASSUME NEW D \in Nat \ {0}, NEW s \in 0..(D - 1), NEW j \in 0..(D - 1)
  PROVE  (((s + 1) % D) + j) % D = IF j < D - 1 THEN (s + (j + 1)) % D ELSE s
<1>1. ASSUME NEW n \in 0..(D - 1), NEW a, NEW b,
             n = IF s + 1 < D THEN s + 1 ELSE s + 1 - D,
             a = IF n + j < D THEN n + j ELSE n + j - D,
             b = IF s + (j + 1) < D THEN s + (j + 1) ELSE s + (j + 1) - D
      PROVE  a = IF j < D - 1 THEN b ELSE s
  BY <1>1
<1>2. /\ 1 \in 0..D /\ j \in 0..D /\ j + 1 \in 0..D
  OBVIOUS
<1>3. /\ (s + 1) % D \in 0..(D - 1)
      /\ (s + 1) % D = IF s + 1 < D THEN s + 1 ELSE s + 1 - D
      /\ (s + (j + 1)) % D = IF s + (j + 1) < D THEN s + (j + 1) ELSE s + (j + 1) - D
  BY <1>2, RingStep
<1>4. (((s + 1) % D) + j) % D = IF ((s + 1) % D) + j < D THEN ((s + 1) % D) + j
                                                     ELSE ((s + 1) % D) + j - D
  BY <1>2, <1>3, RingStep
<1>5. QED
  BY <1>1, <1>3, <1>4

\* What the ring keeps of a line is what the list keeps of it.
LEMMA CutIsStored == \A line : Log!Stored(line) = Cut(line)
BY DEF Log!Stored, Cut

\* A slot keeps a line.
LEMMA CutType == ASSUME NEW line \in Seq(Byte) PROVE Cut(line) \in Seq(Byte)
<1>1. CASE Len(line) >= SlotSize
  <2>1. \A i \in 1..(SlotSize - 1) : line[i] \in Byte
    BY <1>1, SlotSizeAssumption, ElementOfSeq, LenProperties
  <2>2. SubSeq(line, 1, SlotSize - 1) \in Seq(Byte)
    BY <2>1, SlotSizeAssumption, SubSeqProperties
  <2>3. QED
    BY <1>1, <2>2 DEF Cut
<1>2. CASE ~(Len(line) >= SlotSize)
  BY <1>2 DEF Cut
<1>3. QED
  BY <1>1, <1>2

\* The ring indices stay in range.
THEOREM HistoryTypeOK == Spec => []TypeOK
<1>1. Init => TypeOK
  BY DepthAssumption, LineAssumption DEF Init, TypeOK
<1>2. TypeOK /\ [Next]_vars => TypeOK'
  <2> SUFFICES ASSUME TypeOK, [Next]_vars PROVE TypeOK'
    OBVIOUS
  <2>1. ASSUME NEW line \in Line, Ignore(line) PROVE TypeOK'
    BY <2>1 DEF Ignore, TypeOK, vars
  <2>2. ASSUME NEW line \in Line, AddFree(line) PROVE TypeOK'
    <3>1. Cut(line) \in Seq(Byte)
      BY CutType, LineAssumption
    <3>2. count + 1 \in 0..Depth
      BY <2>2, DepthAssumption DEF AddFree, TypeOK
    <3>3. QED
      BY <2>2, <3>1, <3>2 DEF AddFree, TypeOK
  <2>3. ASSUME NEW line \in Line, AddFull(line) PROVE TypeOK'
    <3>1. Cut(line) \in Seq(Byte)
      BY CutType, LineAssumption
    <3>2. Depth \in Nat \ {0}
      BY <2>3, DepthAssumption DEF AddFull, Ignored
    <3>3. (start + 1) % Depth \in 0..(Depth - 1)
      BY <3>2 DEF TypeOK
    <3>4. start' \in 0..(Depth - 1) /\ count' = count
      BY <2>3, <3>3 DEF AddFull
    <3>5. slots' \in [Physical -> Seq(Byte)]
      BY <2>3, <3>1 DEF AddFull, TypeOK
    <3>6. QED
      BY <3>2, <3>4, <3>5 DEF TypeOK
  <2>4. CASE Clear
    <3>1. <<>> \in Seq(Byte)
      OBVIOUS
    <3>2. QED
      BY <2>4, <3>1, DepthAssumption DEF Clear, TypeOK
  <2>5. CASE UNCHANGED vars
    BY <2>5 DEF vars, TypeOK
  <2>6. QED
    BY <2>1, <2>2, <2>3, <2>4, <2>5 DEF Next, Add
<1>3. QED
  BY <1>1, <1>2, PTL DEF Spec

-----------------------------------------------------------------------------
\* Entry i of the list is the slot i - 1 steps after the start.
EntriesOK ==
  /\ Entries \in Seq(Seq(Byte)) /\ Len(Entries) = count
  /\ \A i \in 1..count : Entries[i] = slots[(start + (i - 1)) % Depth]

LEMMA EntriesAt == TypeOK => EntriesOK
<1> SUFFICES ASSUME TypeOK PROVE EntriesOK
  OBVIOUS
<1>1. count \in Nat /\ start \in Nat /\ slots \in [Physical -> Seq(Byte)]
  BY DEF TypeOK
<1>2. ASSUME NEW i \in 1..count
      PROVE  /\ GetNewest(count - i) = slots[(start + (i - 1)) % Depth]
             /\ GetNewest(count - i) \in Seq(Byte)
  <2>1. Depth \in Nat \ {0}
    BY DepthAssumption DEF TypeOK
  <2>2. count - 1 - (count - i) = i - 1
    BY <1>1
  <2>3. (start + (i - 1)) % Depth \in Physical
    BY <1>1, <2>1 DEF Physical
  <2>4. QED
    BY <1>1, <2>2, <2>3 DEF GetNewest
<1>3. Entries \in [1..count -> Seq(Byte)]
  BY <1>2 DEF Entries
<1>4. Entries \in Seq(Seq(Byte)) /\ Len(Entries) = count
  BY <1>1, <1>3, IsASeq, LenProperties
<1>5. QED
  BY <1>2, <1>4 DEF Entries, EntriesOK

\* A line the ring takes is one the list takes, and conversely.
LEMMA SameAcceptance ==
  ASSUME TypeOK, NEW line
  PROVE  Ignored(line) <=> ~Log!Accepts(line)
<1>1. Entries = <<>> <=> count = 0
  BY EntriesAt, LenProperties, EmptySeq DEF TypeOK, EntriesOK
<1>2. CASE count > 0
  <2>1. count \in 1..count /\ count - count = 0 /\ count - 0 = count
    BY <1>2 DEF TypeOK
  <2>2. Entries[count] = GetNewest(0)
    BY <2>1 DEF Entries
  <2>3. Log!Newest(0) = GetNewest(0)
    BY <2>1, <2>2, EntriesAt DEF Log!Newest, EntriesOK
  <2>4. QED
    BY <1>1, <1>2, <2>3, DepthAssumption DEF Ignored, Log!Accepts, TypeOK
<1>3. CASE count = 0
  BY <1>1, <1>3, DepthAssumption DEF Ignored, Log!Accepts
<1>4. QED
  BY <1>2, <1>3 DEF TypeOK

\* A line put in a free slot is appended to the list.
LEMMA FreeAppends ==
  ASSUME EntriesOK, EntriesOK', TypeOK, NEW line \in Line, AddFree(line)
  PROVE  Entries' = Append(Entries, Cut(line))
<1>1. /\ Depth \in Nat \ {0} /\ count \in 0..(Depth - 1) /\ start \in 0..(Depth - 1)
      /\ count' = count + 1 /\ start' = start
      /\ slots' = [slots EXCEPT ![(start + count) % Depth] = Cut(line)]
      /\ slots \in [Physical -> Seq(Byte)] /\ Cut(line) \in Seq(Byte)
  BY DepthAssumption, CutType, LineAssumption DEF AddFree, Ignored, TypeOK
<1>2. ASSUME NEW i \in 1..(count + 1)
      PROVE  Entries'[i] = IF i <= count THEN Entries[i] ELSE Cut(line)
  <2>1. Entries'[i] = slots'[(start + (i - 1)) % Depth]
    BY <1>1 DEF EntriesOK
  <2>2. i - 1 \in 0..(Depth - 1) /\ i - 1 \in 0..Depth
    BY <1>1
  <2>3. (start + (i - 1)) % Depth \in Physical
    BY <1>1, <2>2, RingStep DEF Physical
  <2>4. CASE i <= count
    <3>1. i \in 1..count /\ i - 1 # count /\ count \in 0..(Depth - 1)
      BY <1>1, <2>4
    <3>2. (start + (i - 1)) % Depth # (start + count) % Depth
      BY <1>1, <2>2, <3>1, StepsDiffer
    <3>3. Entries[i] = slots[(start + (i - 1)) % Depth]
      BY <3>1 DEF EntriesOK
    <3>4. QED
      BY <1>1, <2>1, <2>3, <2>4, <3>2, <3>3
  <2>5. CASE i = count + 1
    <3>1. i - 1 = count /\ ~(i <= count)
      BY <1>1, <2>5
    <3>2. QED
      BY <1>1, <2>1, <2>3, <3>1
  <2>6. QED
    BY <1>1, <2>4, <2>5
<1>3. /\ Append(Entries, Cut(line)) \in Seq(Seq(Byte))
      /\ Len(Append(Entries, Cut(line))) = count + 1
      /\ \A i \in 1..(count + 1) : Append(Entries, Cut(line))[i] =
                                  IF i <= count THEN Entries[i] ELSE Cut(line)
  <2>1. /\ Entries \in Seq(Seq(Byte)) /\ Len(Entries) = count
        /\ Cut(line) \in Seq(Byte) /\ count \in Nat
    BY <1>1 DEF EntriesOK
  <2>2. /\ Append(Entries, Cut(line)) \in Seq(Seq(Byte))
        /\ Len(Append(Entries, Cut(line))) = count + 1
        /\ \A i \in 1..count : Append(Entries, Cut(line))[i] = Entries[i]
        /\ Append(Entries, Cut(line))[count + 1] = Cut(line)
    BY <2>1, AppendProperties
  <2>3. QED
    BY <2>1, <2>2
<1>4. Entries' \in Seq(Seq(Byte)) /\ Len(Entries') = count + 1
  BY <1>1 DEF EntriesOK
<1>5. \A i \in 1..Len(Entries') : Entries'[i] = Append(Entries, Cut(line))[i]
  BY <1>2, <1>3, <1>4
<1>6. Len(Entries') = Len(Append(Entries, Cut(line)))
  BY <1>3, <1>4
<1>7. QED
  BY <1>3, <1>4, <1>5, <1>6, SeqEqual

\* A line that replaces the oldest entry of a full ring is appended to the list
\* without its head.
LEMMA FullDropsOldest ==
  ASSUME EntriesOK, EntriesOK', TypeOK, NEW line \in Line, AddFull(line)
  PROVE  Entries' = Append(Tail(Entries), Cut(line))
<1>1. /\ Depth \in Nat \ {0} /\ count = Depth /\ start \in 0..(Depth - 1)
      /\ count' = count /\ start' = (start + 1) % Depth
      /\ slots' = [slots EXCEPT ![start] = Cut(line)]
      /\ slots \in [Physical -> Seq(Byte)] /\ Cut(line) \in Seq(Byte)
  BY DepthAssumption, CutType, LineAssumption DEF AddFull, Ignored, TypeOK
<1>2. start' \in 0..(Depth - 1)
  <2>1. 1 \in 0..Depth
    BY <1>1
  <2>2. QED
    BY <1>1, <2>1, RingStep
<1>3. ASSUME NEW i \in 1..count
      PROVE  Entries'[i] = IF i < count THEN Entries[i + 1] ELSE Cut(line)
  <2>1. Entries'[i] = slots'[(start' + (i - 1)) % Depth]
    BY <1>1 DEF EntriesOK
  <2>2. i - 1 \in 0..Depth /\ i - 1 \in 0..(Depth - 1)
    BY <1>1
  <2>3. (start' + (i - 1)) % Depth \in Physical
    BY <1>1, <1>2, <2>2, RingStep DEF Physical
  <2>4. (start' + (i - 1)) % Depth =
          IF i - 1 < Depth - 1 THEN (start + ((i - 1) + 1)) % Depth ELSE start
    BY <1>1, <2>2, StepsFromNext
  <2>5. CASE i < count
    <3>1. /\ i + 1 \in 1..count /\ (i + 1) - 1 = i /\ (i - 1) + 1 = i
          /\ i - 1 < Depth - 1 /\ i \in 0..(Depth - 1) /\ i # 0
      BY <1>1, <2>5
    <3>2. (start' + (i - 1)) % Depth = (start + i) % Depth
      BY <2>4, <3>1
    <3>3. (start + i) % Depth # start
      <4>1. 0 \in 0..(Depth - 1) /\ 0 \in 0..Depth
            /\ start + 0 = start /\ start < Depth
        BY <1>1
      <4>2. (start + 0) % Depth = start
        BY <1>1, <4>1, RingStep
      <4>3. QED
        BY <1>1, <3>1, <4>1, <4>2, StepsDiffer
    <3>4. Entries[i + 1] = slots[(start + i) % Depth]
      BY <3>1 DEF EntriesOK
    <3>5. QED
      BY <1>1, <2>1, <2>3, <2>5, <3>2, <3>3, <3>4
  <2>6. CASE i = count
    <3>1. ~(i - 1 < Depth - 1) /\ ~(i < count)
      BY <1>1, <2>6
    <3>2. (start' + (i - 1)) % Depth = start /\ start \in Physical
      BY <1>1, <2>4, <3>1 DEF Physical
    <3>3. Entries'[i] = slots'[start]
      BY <2>1, <3>2
    <3>4. slots'[start] = Cut(line)
      BY <1>1, <3>2
    <3>5. QED
      BY <3>1, <3>3, <3>4
  <2>7. QED
    BY <1>1, <2>5, <2>6
<1>4. /\ Tail(Entries) \in Seq(Seq(Byte)) /\ Len(Tail(Entries)) = count - 1
      /\ \A i \in 1..(count - 1) : Tail(Entries)[i] = Entries[i + 1]
  <2>1. Entries # <<>>
    BY <1>1, LenProperties, EmptySeq DEF EntriesOK
  <2>2. QED
    BY <1>1, <2>1, HeadTailProperties DEF EntriesOK
<1>5. /\ Append(Tail(Entries), Cut(line)) \in Seq(Seq(Byte))
      /\ Len(Append(Tail(Entries), Cut(line))) = count
      /\ \A i \in 1..count : Append(Tail(Entries), Cut(line))[i] =
                            IF i < count THEN Entries[i + 1] ELSE Cut(line)
  <2>1. Cut(line) \in Seq(Byte) /\ count \in Nat \ {0}
    BY <1>1
  <2>2. /\ Append(Tail(Entries), Cut(line)) \in Seq(Seq(Byte))
        /\ Len(Append(Tail(Entries), Cut(line))) = (count - 1) + 1
        /\ \A i \in 1..(count - 1) :
             Append(Tail(Entries), Cut(line))[i] = Tail(Entries)[i]
        /\ Append(Tail(Entries), Cut(line))[(count - 1) + 1] = Cut(line)
    BY <1>4, <2>1, AppendProperties
  <2>3. QED
    BY <1>4, <2>1, <2>2
<1>6. /\ Entries' \in Seq(Seq(Byte)) /\ Len(Entries') = count
  BY <1>1 DEF EntriesOK
<1>7. QED
  BY <1>3, <1>5, <1>6, SeqEqual

-----------------------------------------------------------------------------
\* Adding a line to the ring adds it to the list, or leaves both alone.
LEMMA AddRefines ==
  ASSUME EntriesOK, EntriesOK', TypeOK, NEW line \in Line, Add(line)
  PROVE  Log!Add(line) \/ UNCHANGED Entries
<1>1. CASE Ignore(line)
  BY <1>1 DEF Ignore, vars, Entries, GetNewest
<1>2. CASE AddFree(line)
  <2>1. Log!Accepts(line)
    BY <1>2, SameAcceptance DEF AddFree
  <2>2. Len(Entries) < Depth
    BY <1>2 DEF AddFree, EntriesOK
  <2>3. QED
    BY <1>2, <2>1, <2>2, FreeAppends, CutIsStored DEF Log!Add, Log!Recorded
<1>3. CASE AddFull(line)
  <2>1. Log!Accepts(line)
    BY <1>3, SameAcceptance DEF AddFull
  <2>2. ~(Len(Entries) < Depth)
    BY <1>3, DepthAssumption DEF AddFull, EntriesOK, TypeOK
  <2>3. QED
    BY <1>3, <2>1, <2>2, FullDropsOldest, CutIsStored DEF Log!Add, Log!Recorded
<1>4. QED
  BY <1>1, <1>2, <1>3 DEF Add

\* A list without entries is the empty one.
LEMMA NoEntries == EntriesOK /\ count = 0 => Entries = <<>>
BY EmptySeq, LenProperties DEF EntriesOK

\* The ring implements the bounded list of recent lines: what the history
\* commands and the editor read is what the list holds, whatever the depth.
THEOREM RingImplementsLog == Spec => RingIsLog
<1>1. Init => Log!Init
  <2> SUFFICES ASSUME Init PROVE Entries = <<>>
    BY DEF Log!Init
  <2>1. EntriesOK /\ count = 0
    <3>1. TypeOK
      BY DepthAssumption, LineAssumption DEF Init, TypeOK
    <3>2. QED
      BY <3>1, EntriesAt DEF Init
  <2>2. QED
    BY <2>1, NoEntries
<1>2. TypeOK /\ EntriesOK /\ EntriesOK' /\ [Next]_vars => [Log!Next]_Entries
  <2> SUFFICES ASSUME TypeOK, EntriesOK, EntriesOK', [Next]_vars
               PROVE  [Log!Next]_Entries
    OBVIOUS
  <2>1. ASSUME NEW line \in Line, Add(line) PROVE [Log!Next]_Entries
    BY <2>1, AddRefines DEF Log!Next
  <2>2. CASE Clear
    <3>1. count' = 0
      BY <2>2 DEF Clear
    <3>2. Entries' = <<>>
      BY <3>1, EmptySeq, LenProperties DEF EntriesOK
    <3>3. QED
      BY <3>2 DEF Log!Next, Log!Clear
  <2>3. CASE UNCHANGED vars
    BY <2>3 DEF vars, Entries, GetNewest
  <2>4. QED
    BY <2>1, <2>2, <2>3 DEF Next
<1>3. QED
  BY <1>1, <1>2, EntriesAt, HistoryTypeOK, PTL DEF Spec, RingIsLog, Log!Spec

-----------------------------------------------------------------------------
\* What is kept of a line has room to spare only when it is the whole line.
LEMMA ShortIsWhole ==
  ASSUME NEW line \in Seq(Byte), Len(Cut(line)) < SlotSize - 1
  PROVE  Cut(line) = line
<1>1. CASE Len(line) >= SlotSize
  <2>1. \A i \in 1..(SlotSize - 1) : line[i] \in Byte
    BY <1>1, SlotSizeAssumption, ElementOfSeq, LenProperties
  <2>2. Len(SubSeq(line, 1, SlotSize - 1)) = SlotSize - 1
    BY <2>1, SlotSizeAssumption, SubSeqProperties
  <2> QED
    BY <1>1, <2>2, SlotSizeAssumption DEF Cut
<1>2. CASE ~(Len(line) >= SlotSize)
  BY <1>2 DEF Cut
<1> QED
  BY <1>1, <1>2

\* A line that is taken does not repeat the newest entry, if that one has room
\* to spare.
LEMMA NoRepeat ==
  ASSUME TypeOK, NEW line \in Line, ~Ignored(line), count > 0,
         Len(Entries[count]) < SlotSize - 1
  PROVE  Entries[count] # Cut(line)
<1>1. Entries[count] = GetNewest(0)
  <2>1. count \in 1..count /\ count - count = 0
    BY DEF TypeOK
  <2> QED
    BY <2>1 DEF Entries
<1>2. GetNewest(0) # line
  BY DEF Ignored
<1> QED
  BY <1>1, <1>2, ShortIsWhole, LineAssumption

\* Whatever was recorded, wrapped or cleared before, a line that fits a slot with
\* room to spare is not followed by itself.
THEOREM HistoryNoShortDuplicates == Spec => []NoShortDuplicates
<1>1. Init => NoShortDuplicates
  BY DEF Init, NoShortDuplicates
<1>2. TypeOK /\ TypeOK' /\ NoShortDuplicates /\ [Next]_vars => NoShortDuplicates'
  <2> SUFFICES ASSUME TypeOK, TypeOK', NoShortDuplicates, [Next]_vars
               PROVE  NoShortDuplicates'
    OBVIOUS
  <2>1. EntriesOK /\ EntriesOK'
    <3>1. TypeOK => EntriesOK
      BY EntriesAt
    <3>2. TypeOK' => EntriesOK'
      BY EntriesAt, PTL
    <3> QED
      BY <3>1, <3>2
  <2>2. count \in Nat
    BY DEF TypeOK
  <2>3. ASSUME NEW line \in Line, Ignore(line) PROVE NoShortDuplicates'
    BY <2>3 DEF Ignore, vars, NoShortDuplicates, Entries, GetNewest
  <2>4. ASSUME NEW line \in Line, AddFree(line) PROVE NoShortDuplicates'
    <3>1. Entries' = Append(Entries, Cut(line)) /\ count' = count + 1 /\ ~Ignored(line)
      BY <2>1, <2>4, FreeAppends DEF AddFree
    <3>2. Cut(line) \in Seq(Byte)
      BY CutType, LineAssumption
    <3>3. /\ \A i \in 1..count : Entries'[i] = Entries[i]
          /\ Entries'[count + 1] = Cut(line)
      BY <2>1, <3>1, <3>2, AppendProperties DEF EntriesOK
    <3> SUFFICES ASSUME NEW i \in 1..(count' - 1), Len(Entries'[i]) < SlotSize - 1
                 PROVE  Entries'[i] # Entries'[i + 1]
      BY DEF NoShortDuplicates
    <3>4. i \in 1..count
      BY <2>2, <3>1
    <3>5. CASE i < count
      <4>1. i \in 1..(count - 1) /\ i + 1 \in 1..count
        BY <2>2, <3>4, <3>5
      <4> QED
        BY <3>3, <3>4, <4>1 DEF NoShortDuplicates
    <3>6. CASE i = count
      <4>1. count > 0 /\ Entries'[i] = Entries[count] /\ Entries'[i + 1] = Cut(line)
        BY <2>2, <3>3, <3>4, <3>6
      <4> QED
        BY <3>1, <4>1, NoRepeat
    <3> QED
      BY <2>2, <3>4, <3>5, <3>6
  <2>5. ASSUME NEW line \in Line, AddFull(line) PROVE NoShortDuplicates'
    <3>1. Entries' = Append(Tail(Entries), Cut(line)) /\ count' = count /\ ~Ignored(line)
      BY <2>1, <2>5, FullDropsOldest DEF AddFull
    <3>2. count > 0
      BY <2>2, <2>5, DepthAssumption DEF AddFull, Ignored, TypeOK
    <3>3. /\ Tail(Entries) \in Seq(Seq(Byte)) /\ Len(Tail(Entries)) = count - 1
          /\ \A i \in 1..(count - 1) : Tail(Entries)[i] = Entries[i + 1]
      <4>1. Entries # <<>>
        BY <2>1, <2>2, <3>2, EmptySeq, LenProperties DEF EntriesOK
      <4> QED
        BY <2>1, <4>1, HeadTailProperties DEF EntriesOK
    <3>4. /\ \A i \in 1..(count - 1) : Entries'[i] = Entries[i + 1]
          /\ Entries'[count] = Cut(line)
      <4>1. Cut(line) \in Seq(Byte)
        BY CutType, LineAssumption
      <4>2. (count - 1) + 1 = count
        BY <2>2
      <4> QED
        BY <3>1, <3>3, <4>1, <4>2, AppendProperties
    <3> SUFFICES ASSUME NEW i \in 1..(count' - 1), Len(Entries'[i]) < SlotSize - 1
                 PROVE  Entries'[i] # Entries'[i + 1]
      BY DEF NoShortDuplicates
    <3>5. i \in 1..(count - 1) /\ Entries'[i] = Entries[i + 1]
      BY <3>1, <3>4
    <3>6. CASE i + 1 < count
      <4>1. i + 1 \in 1..(count - 1)
        BY <2>2, <3>5, <3>6
      <4> QED
        BY <3>4, <3>5, <4>1 DEF NoShortDuplicates
    <3>7. CASE i + 1 = count
      BY <3>1, <3>2, <3>4, <3>5, <3>7, NoRepeat
    <3> QED
      BY <2>2, <3>5, <3>6, <3>7
  <2>6. CASE Clear
    BY <2>6 DEF Clear, NoShortDuplicates
  <2>7. CASE UNCHANGED vars
    BY <2>7 DEF vars, NoShortDuplicates, Entries, GetNewest
  <2> QED
    BY <2>3, <2>4, <2>5, <2>6, <2>7 DEF Next, Add
<1> QED
  BY <1>1, <1>2, HistoryTypeOK, PTL DEF Spec
=============================================================================
