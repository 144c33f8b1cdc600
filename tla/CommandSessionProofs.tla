------------------------- MODULE CommandSessionProofs -------------------------
(***************************************************************************)
(* Theorems about Tokenizer, alone and under CommandSession, and about the *)
(* session: for every set of lines, capacity of the argument vector, depth *)
(* of nesting, command tree and masking policy.                            *)
(*                                                                         *)
(* The order: the loop stays in its buffer; its words are those of the     *)
(* line; handlers in each other keep their arguments; a recorded line      *)
(* means the same again; accepted tables leave no command unreachable; the *)
(* echo covers the words to hide.                                          *)
(***************************************************************************)
EXTENDS CommandSession, LineSyntaxProofs

\* The phases of a session.
Splitting == phase \in {"gap", "word"} \cup Statuses
Phases == {"gap", "word", "idle", "handler"} \cup Statuses

\* The types of the loop's variables, the vector a function; the bytes of the line
\* are not NUL.
Typed ==
  /\ text \in Seq(1..255)
  /\ buf \in Seq(Octet)
  /\ read \in Nat /\ write \in Nat \ {0}
  /\ argc \in Nat
  /\ argv = [i \in DOMAIN argv |-> argv[i]]
  /\ quote \in Octet
  /\ phase \in Phases

\* With the types the property itself is inductive: in a word the writer is not
\* ahead of the reader, and only the terminator of the last word overtakes it.
IInv == Typed /\ InPlaceIsSafe

-----------------------------------------------------------------------------
\* The terminator is the only NUL of the buffer the tokenizer is given.
LEMMA OnlyTerminatorIsNul ==
  ASSUME NEW t \in Seq(1..255)
  PROVE  /\ Append(t, NUL) \in Seq(Octet) /\ Len(Append(t, NUL)) = Len(t) + 1
         /\ \A p \in 1..(Len(t) + 1) :
              /\ Append(t, NUL)[p] = NUL <=> p = Len(t) + 1
              /\ Append(t, NUL)[p] \in Octet
<1>1. t \in Seq(Octet) /\ NUL \in Octet /\ Len(t) \in Nat
  BY SeqMonotonic, LenProperties DEF Octet, NUL
<1>2. /\ Append(t, NUL) \in Seq(Octet) /\ Len(Append(t, NUL)) = Len(t) + 1
      /\ Append(t, NUL)[Len(t) + 1] = NUL
      /\ \A p \in 1..Len(t) : Append(t, NUL)[p] = t[p]
  BY <1>1, AppendProperties
<1>3. \A p \in 1..Len(t) : t[p] \in 1..255
  BY ElementOfSeq
<1>4. ASSUME NEW p \in 1..(Len(t) + 1)
      PROVE  /\ Append(t, NUL)[p] = NUL <=> p = Len(t) + 1
             /\ Append(t, NUL)[p] \in Octet
  <2>1. CASE p = Len(t) + 1
    BY <1>1, <1>2, <2>1
  <2>2. CASE p # Len(t) + 1
    <3>1. p \in 1..Len(t)
      BY <1>1, <2>2
    <3>2. Append(t, NUL)[p] \in 1..255
      BY <1>2, <1>3, <3>1
    <3>3. \A b \in 1..255 : b \in Octet /\ b # NUL
      BY DEF NUL, Octet
    <3>4. QED
      BY <2>2, <3>2, <3>3
  <2>3. QED
    BY <2>1, <2>2
<1>5. QED
  BY <1>2, <1>4

\* While it scans, the reader is at a NUL exactly when it is at the terminator.
LEMMA ReaderAtEnd ==
  ASSUME IInv, Scanning
  PROVE  /\ read \in 1..Len(buf) /\ Len(buf) = Len(text) + 1 /\ Len(text) \in Nat
         /\ At \in Octet /\ (At = NUL <=> read = Len(buf))
         /\ \A p \in read..Len(buf) : buf[p] \in Octet /\ (buf[p] = NUL <=> p = Len(buf))
<1>1. text \in Seq(1..255) /\ Len(text) \in Nat
  BY LenProperties DEF IInv, Typed
<1>2. /\ Len(buf) = Len(text) + 1 /\ read \in 1..Len(buf)
      /\ \A p \in read..Len(buf) : buf[p] = Append(text, NUL)[p]
  BY DEF IInv, InPlaceIsSafe
<1>3. \A p \in read..Len(buf) : p \in 1..(Len(text) + 1)
  BY <1>1, <1>2
<1>4. \A p \in read..Len(buf) : buf[p] \in Octet /\ (buf[p] = NUL <=> p = Len(buf))
  BY <1>1, <1>2, <1>3, OnlyTerminatorIsNul
<1>5. QED
  BY <1>1, <1>2, <1>4 DEF At

\* The initial state satisfies the inductive invariant.
LEMMA InitIInv == Init => IInv
<1> SUFFICES ASSUME Init PROVE IInv
  OBVIOUS
<1>1. text \in Seq(1..255) /\ buf = Append(text, NUL) /\ Len(text) \in Nat
  BY LineAssumption, LenProperties DEF Init
<1>2. buf \in Seq(Octet) /\ Len(buf) = Len(text) + 1
  BY <1>1, OnlyTerminatorIsNul
<1>3. Typed
  BY <1>1, <1>2 DEF Init, Typed, Phases, Octet, NUL
<1>4. InPlaceIsSafe
  BY <1>1, <1>2, CapacityAssumption DEF Init, InPlaceIsSafe, Scanning
<1>5. QED
  BY <1>3, <1>4 DEF IInv

\* Writing a byte behind the reader leaves what is ahead of the reader alone.
LEMMA PutKeepsAhead ==
  ASSUME IInv, Scanning, NEW byte \in Octet, NEW n \in Nat, Put(byte, n),
         write <= read, n > 0 \/ read = Len(buf), read + n <= Len(buf)
  PROVE  /\ buf' \in Seq(Octet) /\ Len(buf') = Len(buf)
         /\ read' \in 1..Len(buf) /\ write' \in Nat \ {0}
         /\ read' = read + n /\ write' = write + 1
         /\ n > 0 => \A p \in read'..Len(buf) : buf'[p] = Append(text, NUL)[p]
<1>1. /\ read \in 1..Len(buf) /\ Len(buf) \in Nat /\ write \in 1..Len(buf)
      /\ buf \in Seq(Octet)
  BY ReaderAtEnd, LenProperties DEF IInv, Typed
<1>2. /\ buf' = [buf EXCEPT ![write] = byte]
      /\ read' = read + n /\ write' = write + 1
  BY DEF Put
<1>3. /\ buf' \in Seq(Octet) /\ Len(buf') = Len(buf)
      /\ \A p \in 1..Len(buf) : buf'[p] = IF p = write THEN byte ELSE buf[p]
  BY <1>1, <1>2, ExceptSeq
<1>4. ASSUME n > 0, NEW p \in read'..Len(buf)
      PROVE  buf'[p] = Append(text, NUL)[p]
  <2>1. p \in read..Len(buf) /\ p \in 1..Len(buf) /\ p # write
    BY <1>1, <1>2, <1>4
  <2>2. buf[p] = Append(text, NUL)[p]
    BY <2>1 DEF IInv, InPlaceIsSafe
  <2>3. QED
    BY <1>3, <2>1, <2>2
<1>5. read' \in 1..Len(buf) /\ write' \in Nat \ {0}
  BY <1>1, <1>2
<1>6. QED
  BY <1>2, <1>3, <1>4, <1>5

\* Whatever ends the call: nothing moves.
LEMMA FinishIInv ==
  ASSUME IInv, NEW st \in Statuses, Finish(st)
  PROVE  IInv'
<1>1. ~Scanning'
  BY DEF Finish, Scanning, Statuses
<1>2. QED
  BY <1>1 DEF Finish, scanVars, IInv, Typed, Phases, Statuses, InPlaceIsSafe

\* Spaces between words are passed over.
LEMMA SkipSpaceIInv == ASSUME IInv, SkipSpace PROVE IInv'
<1>1. Scanning /\ Scanning'
  BY DEF SkipSpace, Scanning
<1>2. At # NUL
  BY DEF SkipSpace, IsSpace, NUL, Space
<1>3. /\ read' = read + 1 /\ read \in 1..Len(buf) /\ read # Len(buf)
      /\ Len(buf) \in Nat
      /\ UNCHANGED <<text, buf, write, quote, argv, argc, phase>>
  BY <1>1, <1>2, ReaderAtEnd DEF SkipSpace
<1>4. QED
  BY <1>1, <1>3 DEF IInv, Typed, InPlaceIsSafe

\* A word begins at the writer, which is then inside the line.
LEMMA BeginWordIInv == ASSUME IInv, BeginWord PROVE IInv'
<1>1. Scanning
  BY DEF BeginWord, Scanning
<1>2. /\ read \in 1..Len(buf) /\ read # Len(buf) /\ Len(buf) = Len(text) + 1
      /\ Len(text) \in Nat
  BY <1>1, ReaderAtEnd DEF BeginWord
<1>3. write \in 1..Len(text) /\ write <= read
  BY <1>1, <1>2 DEF IInv, Typed, InPlaceIsSafe
<1>4. CASE argc >= Capacity
  BY <1>4, FinishIInv DEF BeginWord, Statuses
<1>5. CASE ~(argc >= Capacity)
  <2>1. /\ argv' = [argv EXCEPT ![argc + 1] = [level |-> level, at |-> write]]
        /\ argc' = argc + 1 /\ phase' = "word" /\ quote' = NUL
        /\ UNCHANGED <<text, buf, read, write, level>>
    BY <1>5 DEF BeginWord
  <2>2. /\ argc \in Nat /\ argc + 1 \in 1..Capacity /\ DOMAIN argv = 1..Capacity
        /\ argv = [i \in DOMAIN argv |-> argv[i]]
    BY <1>5, CapacityAssumption DEF IInv, Typed, InPlaceIsSafe
  <2>3. /\ DOMAIN argv' = 1..Capacity /\ argv' = [i \in DOMAIN argv' |-> argv'[i]]
        /\ \A i \in 1..Capacity :
             argv'[i] = IF i = argc + 1 THEN [level |-> level, at |-> write] ELSE argv[i]
    BY <2>1, <2>2
  <2>4. \A i \in 1..argc' : argv'[i].at \in 1..Len(text)
    <3> SUFFICES ASSUME NEW i \in 1..argc' PROVE argv'[i].at \in 1..Len(text)
      OBVIOUS
    <3>1. i \in 1..Capacity /\ (i = argc + 1 \/ i \in 1..argc)
      BY <2>1, <2>2, CapacityAssumption
    <3>2. CASE i = argc + 1
      BY <1>3, <2>3, <3>1, <3>2
    <3>3. CASE i # argc + 1
      <4>1. argv'[i] = argv[i] /\ i \in 1..argc
        BY <2>3, <3>1, <3>3
      <4>2. QED
        BY <1>1, <4>1 DEF IInv, InPlaceIsSafe
    <3>4. QED
      BY <3>2, <3>3
  <2>5. Typed'
    BY <2>1, <2>2, <2>3 DEF IInv, Typed, Phases, Octet, NUL
  <2>6. InPlaceIsSafe'
    <3>1. argc' <= Capacity /\ Scanning'
      BY <2>1, <2>2, CapacityAssumption DEF Scanning
    <3>2. /\ read' \in 1..Len(buf')
          /\ \A p \in read'..Len(buf') : buf'[p] = Append(text', NUL)[p]
      BY <1>1, <2>1 DEF IInv, InPlaceIsSafe
    <3>3. QED
      BY <1>2, <1>3, <2>1, <2>3, <2>4, <3>1, <3>2 DEF InPlaceIsSafe
  <2>7. QED
    BY <2>5, <2>6 DEF IInv
<1>6. QED
  BY <1>4, <1>5

\* A word ends: the terminator goes behind the reader, or on the terminator.
LEMMA EndWordIInv == ASSUME IInv, EndWord PROVE IInv'
<1>1. /\ Scanning /\ Scanning' /\ phase = "word" /\ phase' = "gap"
      /\ UNCHANGED <<text, quote, argv, argc>>
  BY DEF EndWord, Scanning
<1>2. /\ read \in 1..Len(buf) /\ Len(buf) = Len(text) + 1 /\ Len(text) \in Nat
      /\ (At = NUL <=> read = Len(buf))
      /\ write \in 1..Len(buf) /\ write <= read /\ NUL \in Octet
  BY <1>1, ReaderAtEnd DEF IInv, Typed, InPlaceIsSafe, Octet, NUL
<1>3. CASE IsSpace(At) /\ Put(NUL, 1)
  <2>1. read # Len(buf)
    BY <1>2, <1>3 DEF IsSpace, NUL, Space
  <2>2. /\ buf' \in Seq(Octet) /\ Len(buf') = Len(buf)
        /\ read' \in 1..Len(buf) /\ write' \in Nat \ {0}
        /\ read' = read + 1 /\ write' = write + 1
        /\ \A p \in read'..Len(buf) : buf'[p] = Append(text, NUL)[p]
    BY <1>1, <1>2, <1>3, <2>1, PutKeepsAhead
  <2>3. QED
    BY <1>1, <1>2, <2>2 DEF IInv, Typed, Phases, InPlaceIsSafe
<1>4. CASE At = NUL /\ Put(NUL, 0)
  <2>1. /\ read = Len(buf) /\ read' = read + 0 /\ write' = write + 1
        /\ buf' = [buf EXCEPT ![write] = NUL] /\ buf \in Seq(Octet)
    BY <1>2, <1>4 DEF Put, IInv, Typed
  <2>2. /\ buf' \in Seq(Octet) /\ Len(buf') = Len(buf)
        /\ \A p \in 1..Len(buf) : buf'[p] = IF p = write THEN NUL ELSE buf[p]
    BY <1>2, <2>1, ExceptSeq
  <2>3. buf[Len(buf)] = NUL /\ buf[Len(buf)] = Append(text, NUL)[Len(buf)]
    BY <1>1, <1>2, <1>4, <2>1 DEF At, IInv, InPlaceIsSafe
  <2>4. \A p \in read'..Len(buf') : buf'[p] = Append(text, NUL)[p]
    BY <1>2, <2>1, <2>2, <2>3
  <2>5. QED
    BY <1>1, <1>2, <2>1, <2>2, <2>4 DEF IInv, Typed, Phases, InPlaceIsSafe
<1>5. QED
  BY <1>3, <1>4 DEF EndWord

\* An escaped byte is written one place behind where it was read, or further.
LEMMA EscapeIInv == ASSUME IInv, Escape PROVE IInv'
<1>1. Scanning /\ phase = "word" /\ At # NUL
  BY DEF Escape, Escapes, Scanning, Backslash, NUL
<1>2. /\ read \in 1..Len(buf) /\ read # Len(buf) /\ Len(buf) = Len(text) + 1
      /\ Len(text) \in Nat /\ read + 1 \in read..Len(buf)
      /\ buf[read + 1] \in Octet /\ (buf[read + 1] = NUL <=> read + 1 = Len(buf))
      /\ write <= read
  <2>1. /\ read \in 1..Len(buf) /\ read # Len(buf) /\ Len(buf) = Len(text) + 1
        /\ Len(text) \in Nat
    BY <1>1, ReaderAtEnd
  <2>2. read + 1 \in read..Len(buf)
    BY <2>1
  <2>3. QED
    BY <1>1, <2>1, <2>2, ReaderAtEnd DEF IInv, InPlaceIsSafe
<1>3. CASE buf[read + 1] = NUL
  BY <1>3, FinishIInv DEF Escape, Statuses
<1>4. CASE buf[read + 1] # NUL
  <2>1. /\ Put(buf[read + 1], 2)
        /\ UNCHANGED <<text, quote, argv, argc, level, phase>>
    BY <1>4 DEF Escape
  <2>2. /\ buf' \in Seq(Octet) /\ Len(buf') = Len(buf)
        /\ read' \in 1..Len(buf) /\ write' \in Nat \ {0}
        /\ read' = read + 2 /\ write' = write + 1
        /\ \A p \in read'..Len(buf) : buf'[p] = Append(text, NUL)[p]
    BY <1>1, <1>2, <1>4, <2>1, PutKeepsAhead
  <2>3. QED
    BY <1>1, <1>2, <2>1, <2>2 DEF IInv, Typed, InPlaceIsSafe, Scanning
<1>5. QED
  BY <1>3, <1>4

\* Opening and closing a quote only moves the reader.
LEMMA RequoteIInv == ASSUME IInv, Requote PROVE IInv'
<1>1. Scanning /\ phase = "word"
  BY DEF Requote, Scanning
<1>2. At # NUL
  BY DEF Requote, OpenQuote, CloseQuote, Quotes, NUL, DoubleQuote, SingleQuote
<1>3. /\ read \in 1..Len(buf) /\ read # Len(buf) /\ Len(buf) \in Nat
      /\ At \in Octet
  BY <1>1, <1>2, ReaderAtEnd
<1>4. /\ read' = read + 1 /\ quote' \in {At, NUL} /\ NUL \in Octet
      /\ UNCHANGED <<text, buf, write, argv, argc, level, phase>>
  BY DEF Requote, Octet, NUL
<1>5. QED
  BY <1>1, <1>3, <1>4 DEF IInv, Typed, InPlaceIsSafe, Scanning

\* A byte of the word moves down to the writer.
LEMMA CharacterIInv == ASSUME IInv, Character PROVE IInv'
<1>1. Scanning /\ phase = "word" /\ At # NUL
  BY DEF Character, Scanning
<1>2. /\ read \in 1..Len(buf) /\ read # Len(buf) /\ Len(buf) = Len(text) + 1
      /\ Len(text) \in Nat /\ At \in Octet /\ write <= read
  BY <1>1, ReaderAtEnd DEF IInv, InPlaceIsSafe
<1>3. Put(At, 1) /\ UNCHANGED <<text, quote, argv, argc, level, phase>>
  BY DEF Character
<1>4. /\ buf' \in Seq(Octet) /\ Len(buf') = Len(buf)
      /\ read' \in 1..Len(buf) /\ write' \in Nat \ {0}
      /\ read' = read + 1 /\ write' = write + 1
      /\ \A p \in read'..Len(buf) : buf'[p] = Append(text, NUL)[p]
  BY <1>1, <1>2, <1>3, PutKeepsAhead
<1>5. QED
  BY <1>1, <1>2, <1>3, <1>4 DEF IInv, Typed, InPlaceIsSafe, Scanning

\* Every step preserves the inductive invariant.
LEMMA StepIInv == IInv /\ [Step]_tokenizerVars => IInv'
<1> SUFFICES ASSUME IInv, [Step]_tokenizerVars PROVE IInv'
  OBVIOUS
<1>1. CASE EndOfLine
  BY <1>1, FinishIInv DEF EndOfLine, Statuses
<1>2. CASE Unterminated
  BY <1>2, FinishIInv DEF Unterminated, Statuses
<1>3. CASE UNCHANGED tokenizerVars
  BY <1>3 DEF tokenizerVars, scanVars, IInv, Typed, InPlaceIsSafe, Scanning
<1>4. QED
  BY <1>1, <1>2, <1>3, SkipSpaceIInv, BeginWordIInv, EndWordIInv, EscapeIInv,
     RequoteIInv, CharacterIInv DEF Step

-----------------------------------------------------------------------------
\* The loop against the documented reader: where a reader of the line is when it
\* has read what the loop has read.
Now == Readings(text, Capacity)[read - 1]

\* Buffer b has string w, whole, at a position, behind a writer at upto.
Held(b, from, upto, w) ==
  \E e \in from..(upto - 1) :
    /\ b[e] = NUL /\ \A q \in from..(e - 1) : b[q] # NUL
    /\ w = SubSeq(b, from, e - 1)

\* Between words, the words read are in the buffer. The last one may have ended at
\* the terminator, which a reader does not see.
GapAgrees ==
  /\ StatusAt(Now) = "SH_OK" /\ Len(WordsAt(Now)) = argc
  /\ \A i \in 1..argc : Held(buf, argv[i].at, write, WordsAt(Now)[i])
  /\ IF Now.open THEN read = Len(buf) ELSE Now.word = <<>>

\* Inside a word, what is read of it is between its start and the writer. The
\* loop enters a word before it reads its first byte.
WordAgrees ==
  /\ ~Now.full /\ ~Now.escaped /\ Now.quote = quote
  /\ argc = Len(Now.words) + 1
  /\ \A i \in 1..(argc - 1) : Held(buf, argv[i].at, write, Now.words[i])
  /\ argv[argc].at <= write /\ Now.word = SubSeq(buf, argv[argc].at, write - 1)
  /\ \A q \in argv[argc].at..(write - 1) : buf[q] # NUL
  /\ ~Now.open => Now.word = <<>> /\ quote = NUL /\ At # NUL /\ ~IsSpace(At)

Agrees ==
  /\ phase = "gap" => GapAgrees
  /\ phase = "word" => WordAgrees

DInv == IInv /\ Agrees /\ TokensAsDocumented

-----------------------------------------------------------------------------
\* A string behind the writer stays when only bytes from the writer on change.
LEMMA HeldKept ==
  ASSUME NEW b, NEW c, NEW from \in Nat \ {0}, NEW upto \in Nat, NEW upto2 \in Nat,
         upto <= upto2, NEW w, Held(b, from, upto, w),
         \A q \in 1..(upto - 1) : c[q] = b[q]
  PROVE  Held(c, from, upto2, w)
<1>1. PICK e \in from..(upto - 1) :
        /\ b[e] = NUL /\ \A q \in from..(e - 1) : b[q] # NUL
        /\ w = SubSeq(b, from, e - 1)
  BY DEF Held
<1>2. SubSeq(c, from, e - 1) = w
  <2>1. \A q \in from..(e - 1) : c[q] = b[q]
    BY <1>1
  <2> QED
    BY <1>1, <2>1
<1>3. c[e] = NUL /\ \A q \in from..(e - 1) : c[q] # NUL
  BY <1>1
<1>4. e \in from..(upto2 - 1)
  BY <1>1
<1> QED
  BY <1>2, <1>3, <1>4 DEF Held

\* One byte more at the end of a string.
LEMMA SubSeqSnoc ==
  ASSUME NEW b, NEW from \in Nat \ {0}, NEW n \in Nat, from <= n
  PROVE  SubSeq(b, from, n) = Append(SubSeq(b, from, n - 1), b[n])
OBVIOUS

\* The C string at a position is the one held there.
LEMMA StringAtHeld ==
  ASSUME NEW b \in Seq(Octet), NEW from \in Nat \ {0}, NEW upto \in Nat,
         upto <= Len(b) + 1, NEW w, Held(b, from, upto, w)
  PROVE  StringAt(b, from) = w
<1>1. Len(b) \in Nat
  BY LenProperties
<1> DEFINE Ends(p) == b[p] = NUL /\ \A q \in from..(p - 1) : b[q] # NUL
<1>2. PICK e \in from..(upto - 1) : Ends(e) /\ w = SubSeq(b, from, e - 1)
  BY DEF Held
<1>3. e \in from..Len(b)
  BY <1>1, <1>2
<1>4. ASSUME NEW p \in from..Len(b), Ends(p) PROVE p = e
  BY <1>1, <1>2, <1>3, <1>4
<1>5. (CHOOSE p \in from..Len(b) : Ends(p)) = e
  <2> HIDE DEF Ends
  <2> QED
    BY <1>2, <1>3, <1>4
<1> QED
  BY <1>2, <1>5 DEF StringAt

\* What the loop is about to read is what a reader of the line reads next.
LEMMA NowReads ==
  ASSUME IInv, Scanning
  PROVE  /\ Len(text) \in Nat /\ Len(buf) = Len(text) + 1 /\ read \in 1..Len(buf)
         /\ Now \in Reader /\ Now = Readings(text, Capacity)[read - 1]
         /\ read = Len(buf) => Now = Reading(text, Capacity)
         /\ \A n \in read..Len(text) :
              Readings(text, Capacity)[n]
                = Reads(Readings(text, Capacity)[n - 1], buf[n], Capacity)
<1>1. /\ read \in 1..Len(buf) /\ Len(buf) = Len(text) + 1 /\ Len(text) \in Nat
      /\ text \in Seq(1..255)
  BY ReaderAtEnd DEF IInv, Typed
<1>2. \A n \in 1..Len(text) : text[n] \in Octet
  <2>1. \A n \in 1..Len(text) : text[n] \in 1..255
    BY <1>1, ElementOfSeq
  <2> QED
    BY <2>1 DEF Octet
<1>3. /\ Readings(text, Capacity) \in [0..Len(text) -> Reader]
      /\ \A n \in 1..Len(text) :
           Readings(text, Capacity)[n]
             = Reads(Readings(text, Capacity)[n - 1], text[n], Capacity)
  <2>1. Len(text) \in Nat
    BY <1>1
  <2> QED
    BY ONLY <2>1, <1>2, ReadingsDef
<1>4. \A n \in read..Len(text) : buf[n] = text[n]
  <2>1. \A n \in 1..Len(text) : Append(text, NUL)[n] = text[n]
    BY <1>1, AppendProperties
  <2>2. \A n \in read..Len(buf) : buf[n] = Append(text, NUL)[n]
    BY DEF IInv, InPlaceIsSafe
  <2> QED
    BY <1>1, <2>1, <2>2
<1>5. read - 1 \in 0..Len(text) /\ (read = Len(buf) => read - 1 = Len(text))
  BY <1>1
<1>6. Now \in Reader /\ (read = Len(buf) => Now = Reading(text, Capacity))
  BY <1>3, <1>5 DEF Now, Reading
<1>7. \A n \in read..Len(text) : n \in 1..Len(text)
  BY <1>1
<1> QED
  BY <1>1, <1>3, <1>4, <1>6, <1>7 DEF Now

\* Once a word too many came, nothing changes that.
LEMMA FullForGood ==
  ASSUME NEW line \in Seq(1..255), NEW m \in Nat, m <= Len(line),
         Readings(line, Capacity)[m].full
  PROVE  Reading(line, Capacity).full
<1> DEFINE r == Readings(line, Capacity)
           T == {n \in Nat : m <= n /\ n <= Len(line) => r[n].full}
<1>1. Len(line) \in Nat /\ \A n \in 1..Len(line) : r[n] = Reads(r[n - 1], line[n], Capacity)
  <2>1. \A n \in 1..Len(line) : line[n] \in 1..255
    BY ElementOfSeq
  <2>2. \A n \in 1..Len(line) : line[n] \in Octet
    BY <2>1 DEF Octet
  <2>3. Len(line) \in Nat
    BY LenProperties
  <2> QED
    BY ONLY <2>2, <2>3, ReadingsDef
<1>2. r[m].full
  OBVIOUS
<1> HIDE DEF r
<1>3. 0 \in T
  BY <1>2
<1>4. ASSUME NEW n \in T PROVE n + 1 \in T
  <2> SUFFICES ASSUME m <= n + 1, n + 1 <= Len(line) PROVE r[n + 1].full
    OBVIOUS
  <2>1. CASE m = n + 1
    BY <1>2, <2>1
  <2>2. CASE m # n + 1
    <3>1. n \in Nat /\ n + 1 \in 1..Len(line) /\ (n + 1) - 1 = n /\ r[n].full
      BY <1>1, <2>2
    <3>2. r[n + 1] = Reads(r[n], line[n + 1], Capacity)
      BY <1>1, <3>1
    <3> QED
      BY <3>1, <3>2 DEF Reads
  <2> QED
    BY <2>1, <2>2
<1>5. T = Nat
  <2>1. T \in SUBSET Nat
    OBVIOUS
  <2> HIDE DEF T
  <2> QED
    BY <1>3, <1>4, <2>1, InductionOnNat
<1>6. r[Len(line)].full
  BY <1>1, <1>5
<1> QED
  BY <1>6 DEF r, Reading

-----------------------------------------------------------------------------
\* The entries of the vector point into the line, the writer is inside the buffer.
LEMMA Places ==
  ASSUME IInv, Scanning
  PROVE  /\ \A i \in 1..argc : argv[i].at \in 1..Len(text)
         /\ argc \in 0..Capacity /\ Capacity \in Nat
         /\ write \in 1..(Len(buf) + 1) /\ Len(text) \in Nat /\ Len(buf) = Len(text) + 1
         /\ phase = "word" => write \in 1..Len(buf)
BY ReaderAtEnd, CapacityAssumption DEF IInv, Typed, InPlaceIsSafe

\* Until the call is over there is nothing to compare with the header's promise.
LEMMA ScanningPromisesNothing ==
  ASSUME phase \in {"gap", "word"} PROVE TokensAsDocumented
BY DEF TokensAsDocumented, Statuses

\* At the start the reader has read nothing.
LEMMA StartsUnread ==
  ASSUME NEW t \in Seq(1..255)
  PROVE  Readings(t, Capacity)[0] = Unread
<1>1. Len(t) \in Nat /\ \A n \in 1..Len(t) : t[n] \in 1..255
  BY ElementOfSeq, LenProperties
<1>2. \A n \in 1..Len(t) : t[n] \in Octet
  BY <1>1 DEF Octet
<1> QED
  BY ONLY <1>1, <1>2, ReadingsDef

LEMMA InitDInv == Init => DInv
<1> SUFFICES ASSUME Init PROVE DInv
  OBVIOUS
<1>1. IInv /\ phase = "gap" /\ read = 1 /\ argc = 0 /\ text \in Seq(1..255)
  BY InitIInv DEF Init, IInv, Typed
<1>2. Now = Unread
  BY <1>1, StartsUnread DEF Now
<1>3. GapAgrees
  BY <1>1, <1>2 DEF GapAgrees, Unread, StatusAt, WordsAt
<1> QED
  BY <1>1, <1>3, ScanningPromisesNothing DEF DInv, Agrees

\* Spaces between words mean nothing to the reader.
LEMMA SkipSpaceAgrees == ASSUME DInv, SkipSpace PROVE Agrees'
<1>1. IInv /\ Scanning /\ phase = "gap" /\ GapAgrees /\ IsSpace(At) /\ At # NUL
  BY DEF DInv, Agrees, SkipSpace, Scanning, IsSpace, NUL, Space
<1>2. /\ read' = read + 1
      /\ UNCHANGED <<text, buf, write, quote, argv, argc, phase>>
  BY DEF SkipSpace
<1>3. read \in 1..Len(text) /\ Len(buf) = Len(text) + 1 /\ Len(text) \in Nat
  BY <1>1, ReaderAtEnd
<1>4. Readings(text, Capacity)[read] = Reads(Now, At, Capacity)
  BY <1>1, <1>3, NowReads DEF At
<1>5. ~Now.open
  BY <1>1, <1>3 DEF GapAgrees
<1>6. Now' = Now
  BY <1>1, <1>2, <1>3, <1>4, <1>5 DEF Now, Reads
<1>7. GapAgrees'
  BY <1>1, <1>2, <1>5, <1>6 DEF GapAgrees
<1> QED
  BY <1>1, <1>2, <1>7 DEF Agrees

\* At the terminator, what the reader has is what the line has.
LEMMA EndOfLineAgrees == ASSUME DInv, EndOfLine PROVE TokensAsDocumented'
<1>1. IInv /\ Scanning /\ phase = "gap" /\ GapAgrees /\ At = NUL
  BY DEF DInv, Agrees, EndOfLine, Scanning
<1>2. phase' = "SH_OK" /\ UNCHANGED <<text, buf, argv, argc>>
  BY DEF EndOfLine, Finish, scanVars
<1>3. Now = Reading(text, Capacity)
  BY <1>1, ReaderAtEnd, NowReads
<1>4. StatusAt(Now) = "SH_OK" /\ Len(WordsAt(Now)) = argc
  BY <1>1 DEF GapAgrees
<1>5. \A i \in 1..argc : StringAt(buf, argv[i].at) = WordsAt(Now)[i]
  <2> SUFFICES ASSUME NEW i \in 1..argc PROVE StringAt(buf, argv[i].at) = WordsAt(Now)[i]
    OBVIOUS
  <2>1. Held(buf, argv[i].at, write, WordsAt(Now)[i])
    BY <1>1 DEF GapAgrees
  <2>2. argv[i].at \in Nat \ {0} /\ write \in Nat /\ write <= Len(buf) + 1
    BY <1>1, Places
  <2>3. buf \in Seq(Octet)
    BY <1>1 DEF IInv, Typed
  <2> QED
    BY <2>1, <2>2, <2>3, StringAtHeld
<1>6. WordsAt(Now) \in Seq(Seq(Octet))
  <2>1. Now \in Reader
    BY <1>1, NowReads
  <2>2. Append(Now.words, Now.word) \in Seq(Seq(Octet))
    BY <2>1, AppendProperties DEF Reader
  <2> QED
    BY <1>4, <2>1, <2>2 DEF WordsAt, Reader
<1>7. Words = WordsAt(Now)
  <2>1. WordsAt(Now) = [i \in 1..argc |-> WordsAt(Now)[i]]
    BY <1>4, <1>6
  <2> QED
    BY <1>5, <2>1 DEF Words
<1>8. Words' = Words
  BY <1>2 DEF Words
<1> QED
  BY <1>2, <1>3, <1>4, <1>7, <1>8 DEF TokensAsDocumented, Tokens, Outcome

\* A word begins. With no entry left for it the line has a word too many.
LEMMA BeginWordAgrees == ASSUME DInv, BeginWord PROVE Agrees' /\ TokensAsDocumented'
<1>1. /\ IInv /\ Scanning /\ phase = "gap" /\ GapAgrees /\ At # NUL
      /\ ~IsSpace(At) /\ Now \in Reader
  BY NowReads DEF DInv, Agrees, BeginWord, Scanning
<1>2. read \in 1..Len(text) /\ Len(buf) = Len(text) + 1 /\ Len(text) \in Nat
  BY <1>1, ReaderAtEnd
<1>3. /\ ~Now.open /\ Now.word = <<>> /\ ~Now.full /\ ~Now.escaped /\ Now.quote = NUL
      /\ WordsAt(Now) = Now.words /\ Len(Now.words) = argc
  BY <1>1, <1>2 DEF GapAgrees, StatusAt, WordsAt
<1>4. CASE argc >= Capacity
  <2>1. phase' = "SH_ERR_TOO_MANY_ARGS" /\ text' = text
    BY <1>4 DEF BeginWord, Finish, scanVars
  <2>2. Readings(text, Capacity)[read] = Reads(Now, At, Capacity)
    BY <1>1, <1>2, NowReads DEF At
  <2>3. argc = Capacity
    BY <1>1, <1>4, Places
  <2>4. Readings(text, Capacity)[read].full
    BY <1>1, <1>3, <2>2, <2>3 DEF Reads, Reader
  <2>5. text \in Seq(1..255)
    BY <1>1 DEF IInv, Typed
  <2>6. Reading(text, Capacity).full
    BY <1>2, <2>4, <2>5, FullForGood
  <2> QED
    BY <2>1, <2>6 DEF Agrees, TokensAsDocumented, Tokens, Outcome, StatusAt
<1>5. CASE ~(argc >= Capacity)
  <2>1. /\ argv' = [argv EXCEPT ![argc + 1] = [level |-> level, at |-> write]]
        /\ argc' = argc + 1 /\ phase' = "word" /\ quote' = NUL
        /\ UNCHANGED <<text, buf, read, write>>
    BY <1>5 DEF BeginWord
  <2>2. /\ argc \in Nat /\ argc + 1 \in DOMAIN argv /\ write \in 1..Len(buf)
        /\ Len(buf) \in Nat
    <3>1. argc \in 0..Capacity /\ Capacity \in Nat /\ Len(buf) \in Nat
      BY <1>1, <1>2, Places
    <3>2. write \in Nat \ {0} /\ write <= read /\ DOMAIN argv = 1..Capacity
      BY <1>1, <1>2 DEF IInv, Typed, InPlaceIsSafe
    <3> QED
      BY <1>2, <1>5, <3>1, <3>2
  <2>3. Now' = Now /\ At' = At
    BY <2>1 DEF Now, At
  <2>4. argv'[argc + 1].at = write /\ \A i \in 1..argc : argv'[i] = argv[i]
    BY <2>1, <2>2
  <2>5. \A i \in 1..argc : Held(buf, argv'[i].at, write, Now.words[i])
    BY <1>1, <1>3, <2>4 DEF GapAgrees
  <2>6. SubSeq(buf, write, write - 1) = <<>>
    BY <2>2
  <2>7. WordAgrees'
    <3>1. argc' - 1 = argc /\ \A q \in write..(write - 1) : buf[q] # NUL
      BY <2>1, <2>2
    <3>2. /\ \A i \in 1..(argc' - 1) : Held(buf', argv'[i].at, write', Now'.words[i])
          /\ argv'[argc'].at = write' /\ Now'.word = SubSeq(buf', argv'[argc'].at, write' - 1)
          /\ \A q \in argv'[argc'].at..(write' - 1) : buf'[q] # NUL
      BY <1>3, <2>1, <2>3, <2>4, <2>5, <2>6, <3>1
    <3>3. /\ ~Now'.full /\ ~Now'.escaped /\ Now'.quote = quote'
          /\ argc' = Len(Now'.words) + 1
          /\ Now'.word = <<>> /\ quote' = NUL /\ At' # NUL /\ ~IsSpace(At')
      BY <1>1, <1>3, <2>1, <2>3
    <3>4. write \in Nat
      BY <2>2
    <3> QED
      BY <2>1, <3>2, <3>3, <3>4 DEF WordAgrees
  <2> QED
    BY <2>1, <2>7, ScanningPromisesNothing DEF Agrees, TokensAsDocumented, Statuses
<1> QED
  BY <1>4, <1>5

\* Inside a word, a byte that is not past the end belongs to it for the reader too.
LEMMA ReadsWithin ==
  ASSUME IInv, phase = "word", WordAgrees, At # NUL
  PROVE  /\ read \in 1..Len(text) /\ Now \in Reader
         /\ Readings(text, Capacity)[read] = Within([Now EXCEPT !.open = TRUE], At)
<1>1. Scanning
  BY DEF Scanning
<1>2. /\ read \in 1..Len(text) /\ Len(buf) = Len(text) + 1 /\ Len(text) \in Nat
      /\ Now \in Reader
  BY <1>1, ReaderAtEnd, NowReads
<1>3. Readings(text, Capacity)[read] = Reads(Now, At, Capacity)
  BY <1>1, <1>2, NowReads DEF At
<1>4. Len(Now.words) # Capacity
  <2>1. argc \in 0..Capacity /\ Capacity \in Nat
    BY <1>1, Places
  <2>2. Now.words \in Seq(Seq(Octet)) /\ argc = Len(Now.words) + 1
    BY <1>2 DEF WordAgrees, Reader
  <2>3. Len(Now.words) \in Nat
    BY <2>2, LenProperties
  <2> QED
    BY <2>1, <2>2, <2>3
<1> QED
  BY <1>2, <1>3, <1>4 DEF Reads, WordAgrees

\* One more byte at the writer makes the word longer by it.
LEMMA WordGrows ==
  ASSUME IInv, phase = "word", WordAgrees, NEW byte \in Octet, byte # NUL,
         buf' = [buf EXCEPT ![write] = byte], write' = write + 1
  PROVE  /\ \A i \in 1..(argc - 1) : Held(buf', argv[i].at, write', Now.words[i])
         /\ argv[argc].at <= write'
         /\ Append(Now.word, byte) = SubSeq(buf', argv[argc].at, write' - 1)
         /\ \A q \in argv[argc].at..(write' - 1) : buf'[q] # NUL
<1>1. Scanning
  BY DEF Scanning
<1>2. /\ \A i \in 1..argc : argv[i].at \in 1..Len(text)
      /\ argc \in Nat /\ write \in 1..Len(buf) /\ Len(text) \in Nat /\ Len(buf) \in Nat
      /\ buf \in Seq(Octet)
  BY <1>1, Places DEF IInv, Typed
<1>3. buf'[write] = byte /\ \A q \in 1..(write - 1) : buf'[q] = buf[q]
  BY <1>2, ExceptSeq
<1>4. \A i \in 1..(argc - 1) : Held(buf', argv[i].at, write', Now.words[i])
  <2> SUFFICES ASSUME NEW i \in 1..(argc - 1)
               PROVE  Held(buf', argv[i].at, write', Now.words[i])
    OBVIOUS
  <2>1. Held(buf, argv[i].at, write, Now.words[i])
    BY DEF WordAgrees
  <2>2. argv[i].at \in Nat \ {0} /\ write \in Nat /\ write' \in Nat /\ write <= write'
    BY <1>2
  <2> QED
    BY ONLY <1>3, <2>1, <2>2, HeldKept
<1>5. argc \in 1..argc
  <2>1. Now \in Reader
    BY <1>1, NowReads
  <2>2. Len(Now.words) \in Nat
    BY <2>1, LenProperties DEF Reader
  <2> QED
    BY <2>2 DEF WordAgrees
<1> DEFINE at == argv[argc].at
<1>6. /\ at \in Nat \ {0} /\ at <= write /\ Now.word = SubSeq(buf, at, write - 1)
      /\ \A q \in at..(write - 1) : buf[q] # NUL
  BY <1>2, <1>5 DEF WordAgrees
<1> HIDE DEF at
<1>7. SubSeq(buf', at, write - 1) = SubSeq(buf, at, write - 1)
  BY <1>2, <1>3, <1>6
<1>8. Append(Now.word, byte) = SubSeq(buf', at, write' - 1)
  <2>1. SubSeq(buf', at, write) = Append(SubSeq(buf', at, write - 1), buf'[write])
    BY <1>2, <1>6, SubSeqSnoc
  <2>2. write' - 1 = write
    BY <1>2
  <2> QED
    BY <1>3, <1>6, <1>7, <2>1, <2>2
<1>9. at <= write' /\ \A q \in at..(write' - 1) : buf'[q] # NUL
  BY <1>2, <1>3, <1>6
<1> QED
  BY <1>4, <1>8, <1>9 DEF at

\* The terminator at the writer makes the word whole.
LEMMA WordIsHeld ==
  ASSUME IInv, phase = "word", WordAgrees,
         buf' = [buf EXCEPT ![write] = NUL], write' = write + 1
  PROVE  \A i \in 1..argc : Held(buf', argv[i].at, write', Append(Now.words, Now.word)[i])
<1>1. Scanning
  BY DEF Scanning
<1>2. /\ \A i \in 1..argc : argv[i].at \in 1..Len(text)
      /\ argc \in Nat /\ write \in 1..Len(buf) /\ Len(text) \in Nat /\ Len(buf) \in Nat
      /\ buf \in Seq(Octet)
  BY <1>1, Places DEF IInv, Typed
<1>3. buf'[write] = NUL /\ \A q \in 1..(write - 1) : buf'[q] = buf[q]
  BY <1>2, ExceptSeq
<1>4. /\ Now.words \in Seq(Seq(Octet)) /\ Now.word \in Seq(Octet)
      /\ argc = Len(Now.words) + 1
  BY <1>1, NowReads DEF WordAgrees, Reader
<1>5. /\ Append(Now.words, Now.word)[argc] = Now.word
      /\ \A i \in 1..(argc - 1) : Append(Now.words, Now.word)[i] = Now.words[i]
  BY <1>2, <1>4, AppendProperties
<1> SUFFICES ASSUME NEW i \in 1..argc
             PROVE  Held(buf', argv[i].at, write', Append(Now.words, Now.word)[i])
  OBVIOUS
<1>6. argv[i].at \in Nat \ {0} /\ write \in Nat /\ write' \in Nat /\ write <= write'
  BY <1>2
<1>7. CASE i # argc
  <2>1. i \in 1..(argc - 1)
    BY <1>2, <1>7
  <2>2. Held(buf, argv[i].at, write, Now.words[i])
    BY <2>1 DEF WordAgrees
  <2>3. Held(buf', argv[i].at, write', Now.words[i])
    BY ONLY <1>3, <1>6, <2>2, HeldKept
  <2> QED
    BY <1>5, <2>1, <2>3
<1>8. CASE i = argc
  <2> DEFINE at == argv[argc].at
  <2>1. /\ at \in Nat \ {0} /\ at <= write /\ Now.word = SubSeq(buf, at, write - 1)
        /\ \A q \in at..(write - 1) : buf[q] # NUL
    BY <1>6, <1>8 DEF WordAgrees
  <2> HIDE DEF at
  <2>2. SubSeq(buf', at, write - 1) = SubSeq(buf, at, write - 1)
    BY <1>2, <1>3, <2>1
  <2>3. /\ write \in at..(write' - 1) /\ buf'[write] = NUL
        /\ \A q \in at..(write - 1) : buf'[q] # NUL
        /\ Now.word = SubSeq(buf', at, write - 1)
    BY <1>2, <1>3, <2>1, <2>2
  <2>4. Held(buf', at, write', Now.word)
    BY <2>3 DEF Held
  <2> QED
    BY <1>5, <1>8, <2>4 DEF at
<1> QED
  BY <1>7, <1>8

\* A space ends the word for the reader too. The terminator ends it unseen.
LEMMA EndWordAgrees == ASSUME DInv, EndWord PROVE Agrees'
<1>1. /\ IInv /\ Scanning /\ phase = "word" /\ WordAgrees /\ quote = NUL
      /\ phase' = "gap" /\ UNCHANGED <<text, quote, argv, argc>>
  BY DEF DInv, Agrees, EndWord, Scanning
<1>2. /\ buf' = [buf EXCEPT ![write] = NUL] /\ write' = write + 1
      /\ Len(buf') = Len(buf)
  <2>1. buf' = [buf EXCEPT ![write] = NUL] /\ write' = write + 1
    BY DEF EndWord, Put
  <2>2. buf \in Seq(Octet)
    BY <1>1 DEF IInv, Typed
  <2> QED
    BY <2>1, <2>2
<1>3. \A i \in 1..argc : Held(buf', argv[i].at, write', Append(Now.words, Now.word)[i])
  BY <1>1, <1>2, WordIsHeld
<1>4. /\ Now \in Reader /\ ~Now.full /\ ~Now.escaped /\ Now.quote = NUL
      /\ Append(Now.words, Now.word) \in Seq(Seq(Octet))
      /\ Len(Append(Now.words, Now.word)) = argc
  <2>1. /\ Now \in Reader /\ ~Now.full /\ ~Now.escaped /\ Now.quote = NUL
        /\ argc = Len(Now.words) + 1
    BY <1>1, NowReads DEF WordAgrees
  <2> QED
    BY <2>1, AppendProperties DEF Reader
<1>5. CASE IsSpace(At) /\ Put(NUL, 1)
  <2>1. Now.open /\ At # NUL
    BY <1>1, <1>5 DEF WordAgrees, IsSpace, NUL, Space
  <2>2. /\ read \in 1..Len(text)
        /\ Readings(text, Capacity)[read] = Within([Now EXCEPT !.open = TRUE], At)
    BY <1>1, <2>1, ReadsWithin
  <2>3. read' = read + 1 /\ Now' = Readings(text, Capacity)[read]
    BY <1>1, <1>5, <2>2 DEF Put, Now
  <2>4. Now' = [Now EXCEPT !.open = FALSE, !.words = Append(Now.words, Now.word),
                           !.word = <<>>]
    BY <1>4, <1>5, <2>1, <2>2, <2>3 DEF Within, Reader
  <2>5. /\ ~Now'.open /\ Now'.word = <<>> /\ Now'.words = Append(Now.words, Now.word)
        /\ ~Now'.full /\ ~Now'.escaped /\ Now'.quote = NUL
    BY <1>4, <2>4 DEF Reader
  <2>6. StatusAt(Now') = "SH_OK" /\ WordsAt(Now') = Append(Now.words, Now.word)
    BY <2>5 DEF StatusAt, WordsAt
  <2>7. GapAgrees'
    BY <1>1, <1>3, <1>4, <2>5, <2>6 DEF GapAgrees
  <2> QED
    BY <1>1, <2>7 DEF Agrees
<1>6. CASE At = NUL /\ Put(NUL, 0)
  <2>1. Now.open /\ read = Len(buf) /\ Len(buf) \in Nat
    BY <1>1, <1>6, ReaderAtEnd DEF WordAgrees
  <2>2. read' = Len(buf') /\ Now' = Now
    BY <1>1, <1>2, <1>6, <2>1 DEF Put, Now
  <2>3. StatusAt(Now) = "SH_OK" /\ WordsAt(Now) = Append(Now.words, Now.word)
    BY <1>4, <2>1 DEF StatusAt, WordsAt
  <2>4. GapAgrees'
    BY <1>1, <1>3, <1>4, <2>1, <2>2, <2>3 DEF GapAgrees
  <2> QED
    BY <1>1, <2>4 DEF Agrees
<1> QED
  BY <1>5, <1>6 DEF EndWord

\* The line ends inside a quote.
LEMMA UnterminatedAgrees == ASSUME DInv, Unterminated PROVE TokensAsDocumented'
<1>1. IInv /\ Scanning /\ phase = "word" /\ WordAgrees /\ At = NUL /\ quote # NUL
  BY DEF DInv, Agrees, Unterminated, Scanning
<1>2. phase' = "SH_ERR_UNTERMINATED_QUOTE" /\ text' = text
  BY DEF Unterminated, Finish, scanVars
<1>3. Now = Reading(text, Capacity)
  BY <1>1, ReaderAtEnd, NowReads
<1>4. ~Now.full /\ ~Now.escaped /\ Now.quote # NUL
  BY <1>1 DEF WordAgrees
<1> QED
  BY <1>2, <1>3, <1>4 DEF TokensAsDocumented, Tokens, Outcome, StatusAt

\* The word goes on after the byte read, or the two of an escape.
LEMMA InWordAgrees ==
  ASSUME IInv, phase = "word", WordAgrees, UNCHANGED <<text, argv, argc, phase>>,
         NEW word, NEW escapee, NEW q,
         Now' = [Now EXCEPT !.open = TRUE, !.word = word, !.quote = q], quote' = q,
         \/ UNCHANGED <<buf, write>> /\ word = Now.word
         \/ /\ escapee \in Octet /\ escapee # NUL /\ word = Append(Now.word, escapee)
            /\ buf' = [buf EXCEPT ![write] = escapee] /\ write' = write + 1
  PROVE  Agrees'
<1>1. Scanning /\ Now \in Reader
  BY NowReads DEF Scanning
<1>2. /\ Now'.open /\ Now'.word = word /\ Now'.quote = quote' /\ Now'.words = Now.words
      /\ Now'.full = Now.full /\ Now'.escaped = Now.escaped
  BY <1>1 DEF Reader
<1>3. /\ \A i \in 1..(argc - 1) : Held(buf', argv[i].at, write', Now.words[i])
      /\ argv[argc].at <= write'
      /\ word = SubSeq(buf', argv[argc].at, write' - 1)
      /\ \A p \in argv[argc].at..(write' - 1) : buf'[p] # NUL
  <2>1. CASE UNCHANGED <<buf, write>> /\ word = Now.word
    BY <2>1 DEF WordAgrees
  <2>2. CASE /\ escapee \in Octet /\ escapee # NUL /\ word = Append(Now.word, escapee)
             /\ buf' = [buf EXCEPT ![write] = escapee] /\ write' = write + 1
    BY <2>2, WordGrows
  <2> QED
    BY <2>1, <2>2
<1>4. WordAgrees'
  BY <1>2, <1>3 DEF WordAgrees
<1> QED
  BY <1>4 DEF Agrees

\* An ordinary byte is one for the reader too.
LEMMA CharacterAgrees == ASSUME DInv, Character PROVE Agrees'
<1>1. /\ IInv /\ Scanning /\ phase = "word" /\ WordAgrees /\ At # NUL
      /\ ~(IsSpace(At) /\ quote = NUL) /\ ~Escapes /\ ~OpenQuote /\ ~CloseQuote
  BY DEF DInv, Agrees, Character, Scanning
<1>2. /\ UNCHANGED <<text, quote, argv, argc, phase>> /\ read' = read + 1
      /\ buf' = [buf EXCEPT ![write] = At] /\ write' = write + 1
  BY DEF Character, Put
<1>3. /\ read \in 1..Len(text) /\ Now \in Reader /\ At \in Octet
      /\ Readings(text, Capacity)[read] = Within([Now EXCEPT !.open = TRUE], At)
  BY <1>1, ReadsWithin, ReaderAtEnd
<1>4. Now' = Readings(text, Capacity)[read]
  BY <1>2, <1>3 DEF Now
<1>5. ~Now.escaped /\ Now.quote = quote
  BY <1>1 DEF WordAgrees
<1>6. Now' = [Now EXCEPT !.open = TRUE, !.word = Append(Now.word, At), !.quote = quote]
  <2> DEFINE o == [Now EXCEPT !.open = TRUE]
  <2>1. ~o.escaped /\ o.quote = quote /\ o.word = Now.word
    BY <1>3, <1>5 DEF Reader
  <2>2. Now' = Within(o, At)
    BY <1>3, <1>4
  <2> HIDE DEF o
  <2>3. Now' = [o EXCEPT !.word = Append(Now.word, At)]
    BY <1>1, <2>1, <2>2 DEF Within, Escapes, OpenQuote, CloseQuote
  <2>4. Append(Now.word, At) \in Seq(Octet)
    BY <1>3, AppendProperties DEF Reader
  <2> QED
    BY <1>3, <1>5, <2>3, <2>4 DEF o, Reader
<1> QED
  BY <1>1, <1>2, <1>3, <1>6, InWordAgrees

\* A quote opens and closes for the reader too.
LEMMA RequoteAgrees == ASSUME DInv, Requote PROVE Agrees'
<1>1. /\ IInv /\ Scanning /\ phase = "word" /\ WordAgrees /\ ~Escapes
      /\ (OpenQuote /\ quote' = At) \/ (CloseQuote /\ quote' = NUL)
  BY DEF DInv, Agrees, Requote, Scanning
<1>2. At # NUL /\ (IsSpace(At) => quote # NUL)
  BY <1>1 DEF OpenQuote, CloseQuote, IsSpace, Quotes, NUL, Space, DoubleQuote, SingleQuote
<1>3. UNCHANGED <<text, buf, write, argv, argc, phase>> /\ read' = read + 1
  BY DEF Requote
<1>4. /\ read \in 1..Len(text) /\ Now \in Reader
      /\ Readings(text, Capacity)[read] = Within([Now EXCEPT !.open = TRUE], At)
  BY <1>1, <1>2, ReadsWithin
<1>5. Now' = Readings(text, Capacity)[read]
  BY <1>3, <1>4 DEF Now
<1>6. ~Now.escaped /\ Now.quote = quote
  BY <1>1 DEF WordAgrees
<1>7. Now' = [Now EXCEPT !.open = TRUE, !.word = Now.word, !.quote = quote']
  <2>1. CASE OpenQuote /\ quote' = At
    BY <1>1, <1>2, <1>4, <1>5, <1>6, <2>1 DEF Within, Reader, Escapes, OpenQuote
  <2>2. CASE CloseQuote /\ quote' = NUL
    BY <1>1, <1>2, <1>4, <1>5, <1>6, <2>2 DEF Within, Reader, Escapes, CloseQuote
  <2> QED
    BY <1>1, <2>1, <2>2
<1> QED
  BY <1>1, <1>3, <1>7, InWordAgrees

\* The byte after a backslash is an ordinary one for the reader too.
LEMMA EscapeAgrees == ASSUME DInv, Escape PROVE Agrees' /\ TokensAsDocumented'
<1>1. /\ IInv /\ Scanning /\ phase = "word" /\ WordAgrees
      /\ At = Backslash /\ quote # SingleQuote /\ At # NUL /\ ~IsSpace(At)
  BY DEF DInv, Agrees, Escape, Escapes, Scanning, IsSpace, Backslash, NUL, Space
<1>2. /\ read \in 1..Len(text) /\ Now \in Reader
      /\ Readings(text, Capacity)[read] = Within([Now EXCEPT !.open = TRUE], At)
      /\ Len(buf) = Len(text) + 1 /\ Len(text) \in Nat
  BY <1>1, ReadsWithin, NowReads
<1>3. ~Now.full /\ ~Now.escaped /\ Now.quote = quote
  BY <1>1 DEF WordAgrees
<1> DEFINE half == Readings(text, Capacity)[read]
<1>4. half = [Now EXCEPT !.open = TRUE, !.escaped = TRUE]
  BY <1>1, <1>2, <1>3 DEF Within, Reader
<1>5. half.escaped /\ ~half.full
  BY <1>2, <1>3, <1>4 DEF Reader
<1>6. /\ read + 1 \in read..Len(buf) /\ buf[read + 1] \in Octet
      /\ (buf[read + 1] = NUL <=> read = Len(text))
  <2>1. read + 1 \in read..Len(buf)
    BY <1>2
  <2>2. buf[read + 1] \in Octet /\ (buf[read + 1] = NUL <=> read + 1 = Len(buf))
    BY <1>1, <2>1, ReaderAtEnd
  <2> QED
    BY <1>2, <2>1, <2>2
<1>7. CASE buf[read + 1] = NUL
  <2>1. phase' = "SH_ERR_INVALID_ARG" /\ text' = text
    BY <1>7 DEF Escape, Finish, scanVars
  <2>2. half = Reading(text, Capacity)
    BY <1>6, <1>7 DEF Reading
  <2> HIDE DEF half
  <2> QED
    BY <1>5, <2>1, <2>2 DEF Agrees, TokensAsDocumented, Tokens, Outcome, StatusAt
<1>8. CASE buf[read + 1] # NUL
  <2> DEFINE escapee == buf[read + 1]
  <2>1. /\ UNCHANGED <<text, quote, argv, argc, phase>> /\ read' = read + 2
        /\ buf' = [buf EXCEPT ![write] = escapee] /\ write' = write + 1
    BY <1>8 DEF Escape, Put
  <2>2. /\ read + 1 \in read..Len(text) /\ (read + 1) - 1 = read
        /\ (read + 2) - 1 = read + 1
    BY <1>2, <1>6, <1>8
  <2>3. Readings(text, Capacity)[read + 1] = Reads(half, escapee, Capacity)
    BY <1>1, <2>2, NowReads
  <2>4. Now' = Reads(half, escapee, Capacity)
    BY <2>1, <2>2, <2>3 DEF Now
  <2>5. Reads(half, escapee, Capacity) = Within(half, escapee)
    <3>1. half.open /\ half = [half EXCEPT !.open = TRUE]
      BY <1>2, <1>4 DEF Reader
    <3> HIDE DEF half
    <3> QED
      BY <1>5, <3>1 DEF Reads
  <2>6. Within(half, escapee)
          = [Now EXCEPT !.open = TRUE, !.word = Append(Now.word, escapee), !.quote = quote]
    BY <1>2, <1>3, <1>4 DEF Within, Reader
  <2>7. escapee \in Octet /\ escapee # NUL
    BY <1>6, <1>8
  <2> HIDE DEF escapee, half
  <2>8. Agrees'
    BY <1>1, <2>1, <2>4, <2>5, <2>6, <2>7, InWordAgrees
  <2> QED
    BY <1>1, <2>1, <2>8, ScanningPromisesNothing DEF TokensAsDocumented, Statuses
<1> QED
  BY <1>7, <1>8

\* Every step keeps the loop and the reader together.
LEMMA StepDInv == DInv /\ [Step]_tokenizerVars => DInv'
<1> SUFFICES ASSUME DInv, [Step]_tokenizerVars PROVE DInv'
  OBVIOUS
<1>1. IInv'
  BY StepIInv DEF DInv
<1>2. ASSUME phase' \in {"gap", "word"} PROVE TokensAsDocumented'
  BY <1>2 DEF TokensAsDocumented, Statuses
<1>3. ASSUME phase' \in Statuses PROVE Agrees'
  BY <1>3 DEF Agrees, Statuses
<1>4. CASE SkipSpace
  <2>1. phase' \in {"gap", "word"}
    BY <1>4 DEF SkipSpace
  <2> QED
    BY <1>1, <1>2, <1>4, <2>1, SkipSpaceAgrees DEF DInv
<1>5. CASE EndOfLine
  <2>1. phase' \in Statuses
    BY <1>5 DEF EndOfLine, Finish, Statuses
  <2> QED
    BY <1>1, <1>3, <1>5, <2>1, EndOfLineAgrees DEF DInv
<1>6. CASE BeginWord
  BY <1>1, <1>6, BeginWordAgrees DEF DInv
<1>7. CASE EndWord
  <2>1. phase' \in {"gap", "word"}
    BY <1>7 DEF EndWord
  <2> QED
    BY <1>1, <1>2, <1>7, <2>1, EndWordAgrees DEF DInv
<1>8. CASE Unterminated
  <2>1. phase' \in Statuses
    BY <1>8 DEF Unterminated, Finish, Statuses
  <2> QED
    BY <1>1, <1>3, <1>8, <2>1, UnterminatedAgrees DEF DInv
<1>9. CASE Escape
  BY <1>1, <1>9, EscapeAgrees DEF DInv
<1>10. CASE Requote
  <2>1. phase' \in {"gap", "word"}
    BY <1>10 DEF Requote
  <2> QED
    BY <1>1, <1>2, <1>10, <2>1, RequoteAgrees DEF DInv
<1>11. CASE Character
  <2>1. phase' \in {"gap", "word"}
    BY <1>11 DEF Character
  <2> QED
    BY <1>1, <1>2, <1>11, <2>1, CharacterAgrees DEF DInv
<1>12. CASE UNCHANGED tokenizerVars
  <2>1. Now' = Now /\ Words' = Words /\ At' = At
    BY <1>12 DEF tokenizerVars, scanVars, Now, Words, At
  <2>2. Agrees'
    BY <1>12, <2>1 DEF tokenizerVars, scanVars, DInv, Agrees, GapAgrees, WordAgrees
  <2>3. TokensAsDocumented'
    BY <1>12, <2>1 DEF tokenizerVars, scanVars, DInv, TokensAsDocumented
  <2> QED
    BY <1>1, <2>2, <2>3 DEF DInv
<1> QED
  BY <1>4, <1>5, <1>6, <1>7, <1>8, <1>9, <1>10, <1>11, <1>12 DEF Step

-----------------------------------------------------------------------------
\* For every line and every vector, compacting the words in place never runs
\* over text still to be read and leaves neither the buffer nor the vector.
THEOREM TokenizerInPlaceIsSafe == Spec => []InPlaceIsSafe
<1>1. IInv => InPlaceIsSafe
  BY DEF IInv
<1>2. QED
  BY <1>1, InitIInv, StepIInv, PTL DEF Spec

\* For every line and every vector, the status and the words the compaction
\* leaves in the buffer are the ones the header documents for the line.
THEOREM TokenizerTokensAsDocumented == Spec => []TokensAsDocumented
<1>1. DInv => TokensAsDocumented
  BY DEF DInv
<1>2. QED
  BY <1>1, InitDInv, StepDInv, PTL DEF Spec

-----------------------------------------------------------------------------
\* Under sh_execute_line: a call begins with a fresh copy of its line.
LEMMA BeginDInv ==
  ASSUME DInv, NEW line \in Seq(1..255), NEW n, Begin(line, n), argv' = argv
  PROVE  DInv'
<1>1. /\ text' = line /\ buf' = Append(line, NUL) /\ read' = 1 /\ write' = 1
      /\ quote' = NUL /\ argc' = 0 /\ phase' = "gap"
  BY DEF Begin
<1>2. /\ Append(line, NUL) \in Seq(Octet) /\ Len(Append(line, NUL)) = Len(line) + 1
      /\ Len(line) \in Nat
  BY OnlyTerminatorIsNul, LenProperties
<1>3. DOMAIN argv = 1..Capacity /\ argv = [i \in DOMAIN argv |-> argv[i]]
  BY DEF DInv, IInv, Typed, InPlaceIsSafe
<1>4. Typed'
  BY <1>1, <1>2, <1>3 DEF Typed, Phases, Octet, NUL
<1>5. InPlaceIsSafe'
  BY <1>1, <1>2, <1>3, CapacityAssumption DEF InPlaceIsSafe, Scanning
<1>6. Now' = Unread
  BY <1>1, StartsUnread DEF Now
<1>7. GapAgrees'
  BY <1>1, <1>6 DEF GapAgrees, Unread, StatusAt, WordsAt
<1>8. Agrees' /\ TokensAsDocumented'
  BY <1>1, <1>7 DEF Agrees, TokensAsDocumented, Statuses
<1> QED
  BY <1>4, <1>5, <1>8 DEF DInv, IInv

\* The vector after a return: as it was, or zeroed.
Cleared(vector) == [i \in DOMAIN vector |-> Null]

\* When no line is being split, nothing is promised of the splitting.
LEMMA NotScanningDInv ==
  ASSUME DInv, NotScanning, phase' \in {"idle", "handler"}, argv' \in {argv, Cleared(argv)}
  PROVE  DInv'
<1>1. /\ text' = <<>> /\ buf' = <<NUL>> /\ read' = 1 /\ write' = 1 /\ quote' = NUL
      /\ argc' = 0
  BY DEF NotScanning
<1>2. DOMAIN argv = 1..Capacity /\ argv = [i \in DOMAIN argv |-> argv[i]]
  BY DEF DInv, IInv, Typed, InPlaceIsSafe
<1>3. DOMAIN argv' = 1..Capacity /\ argv' = [i \in DOMAIN argv' |-> argv'[i]]
  BY <1>2 DEF Cleared
<1>4. /\ <<>> \in Seq(1..255) /\ <<NUL>> \in Seq(Octet) /\ Len(<<>>) = 0
      /\ Len(<<NUL>>) = 1 /\ NUL \in Octet
  BY DEF Octet, NUL
<1>5. Typed'
  BY <1>1, <1>3, <1>4 DEF Typed, Phases
<1>6. ~Scanning' /\ phase' \notin Statuses
  BY DEF Scanning, Statuses
<1>7. InPlaceIsSafe'
  BY <1>1, <1>3, <1>4, <1>6, CapacityAssumption DEF InPlaceIsSafe
<1>8. Agrees' /\ TokensAsDocumented'
  BY <1>6 DEF Agrees, TokensAsDocumented, Scanning
<1> QED
  BY <1>5, <1>7, <1>8 DEF DInv, IInv

\* Nothing of the splitting changes.
LEMMA SameDInv == ASSUME DInv, UNCHANGED tokenizerVars PROVE DInv'
BY StepDInv

-----------------------------------------------------------------------------
\* A path is a sequence of commands, no longer than the words.
LEMMA ResolvedLen ==
  ASSUME NEW tables, NEW words, Len(words) \in Nat
  PROVE  \E S : /\ ResolvedPath(tables, words) \in Seq(S)
                /\ Len(ResolvedPath(tables, words)) <= Len(words)
<1>1. PICK found :
        /\ \A i \in 1..Len(words) :
             found[i] = IF i = 1 THEN Child(FlattenSeq(tables), words[1])
                        ELSE IF found[i - 1] = <<>> THEN <<>>
                        ELSE Child(found[i - 1][1].sub, words[i])
        /\ found = [i \in 1..Len(words) |-> found[i]]
        /\ ResolvedPath(tables, words) = FlattenSeq(found)
  BY ResolvedSteps
<1> DEFINE S == {found[i][1] : i \in 1..Len(words)}
<1>2. ASSUME NEW i \in 1..Len(words)
      PROVE  found[i] \in Seq(S) /\ Len(found[i]) <= 1
  <2>1. found[i] = <<>> \/ \E x : found[i] = <<x>>
    BY <1>1 DEF Child
  <2>2. CASE found[i] = <<>>
    BY <2>2, EmptySeq
  <2>3. CASE \E x : found[i] = <<x>>
    <3>1. PICK x : found[i] = <<x>>
      BY <2>3
    <3>2. x \in S
      BY <3>1
    <3>3. found[i] \in Seq(S) /\ Len(found[i]) = 1
      <4> HIDE DEF S
      <4> QED
        BY <3>1, <3>2
    <3> QED
      BY <3>3
  <2> QED
    BY <2>1, <2>2, <2>3
<1> HIDE DEF S
<1>3. found \in Seq(Seq(S)) /\ Len(found) = Len(words)
  <2>1. \A i \in 1..Len(words) : found[i] \in Seq(S)
    BY <1>2
  <2> QED
    BY <1>1, <2>1, IsASeq
<1>4. FlattenSeq(found) \in Seq(S) /\ Len(FlattenSeq(found)) <= Len(found)
  BY <1>2, <1>3, FlattenedFew
<1> QED
  BY <1>1, <1>3, <1>4

\* A handler is given words from one of the words on.
LEMMA DispatchFirst ==
  ASSUME NEW tables, NEW builtins, NEW words, Len(words) \in Nat,
         Dispatch(tables, builtins, words).runs # <<>>
  PROVE  Dispatch(tables, builtins, words).first \in 1..Len(words)
<1> DEFINE path == ResolvedPath(tables, words)
<1>1. \A st : Refuse(st).runs = <<>>
  BY DEF Refuse
<1>2. HelpTopic(tables, words).runs = <<>> /\ Builtin(words).runs = <<>>
  BY <1>1 DEF HelpTopic, Builtin
<1>3. Dispatch(tables, builtins, words) = Application(tables, words)
  BY <1>1, <1>2 DEF Dispatch
<1>4. path # <<>> /\ Application(tables, words) = Run(path)
  BY <1>1, <1>3 DEF Application
<1>5. PICK S : path \in Seq(S) /\ Len(path) <= Len(words)
  BY ResolvedLen
<1>6. Len(path) \in 1..Len(words)
  BY <1>4, <1>5, EmptySeq, LenProperties
<1> QED
  BY <1>3, <1>4, <1>6 DEF Run
-----------------------------------------------------------------------------
\* A call in progress.
Call == [text : Seq(1..255), buf : Seq(Octet), home : Nat, first : Nat, count : Nat,
         disturbed : BOOLEAN]

\* Calls in each other: a call works on its own buffer, a vector handed on is of
\* a buffer further out, and a line disturbs all the calls it was made from.
Stacked(fs) ==
  /\ fs \in Seq(Call)
  /\ \A i \in 1..Len(fs) : fs[i].home <= i
  /\ \A i, j \in 1..Len(fs) : i < j /\ fs[j].home = j => fs[i].disturbed

\* The part of the vector a handler was given still holds the words of its line.
HandedOver(frame, vector) ==
  frame.home # 0 /\ frame.count > 0 /\ ~frame.disturbed =>
    LET words == Tokens(frame.text, Capacity).words
        last == frame.first + frame.count - 1
    IN /\ frame.first >= 1 /\ last <= Len(words) /\ Len(words) \in Nat
       /\ \A k \in frame.first..last :
            vector[k].level = frame.home /\ StringAt(frame.buf, vector[k].at) = words[k]

\* While a line is split, the entries in use point into its buffer.
OwnSplit ==
  Splitting =>
    /\ frames # <<>> /\ level = Len(frames)
    /\ frames[Len(frames)].home = level /\ frames[Len(frames)].count = 0
    /\ \A i \in 1..argc : argv[i].level = level

SInv ==
  /\ DInv /\ Stacked(frames) /\ OwnSplit
  /\ phase = "idle" <=> frames = <<>>
  /\ \A i \in 1..Len(frames) : HandedOver(frames[i], argv)

\* The last call of a stack, and the others.
LEMMA Popped ==
  ASSUME NEW fs, Stacked(fs), fs # <<>>
  PROVE  /\ Stacked(Front(fs)) /\ Len(fs) \in Nat \ {0} /\ Len(Front(fs)) = Len(fs) - 1
         /\ \A i \in 1..(Len(fs) - 1) : Front(fs)[i] = fs[i]
         /\ \A i \in 1..Len(fs) : fs[i] \in Call
<1>1. fs \in Seq(Call) /\ Len(fs) \in Nat /\ Len(fs) # 0
  BY EmptySeq, LenProperties DEF Stacked
<1>2. /\ Front(fs) \in Seq(Call) /\ Len(Front(fs)) = Len(fs) - 1
      /\ \A i \in 1..(Len(fs) - 1) : Front(fs)[i] = fs[i]
  <2>1. Front(fs) = [i \in 1..(Len(fs) - 1) |-> fs[i]]
    BY <1>1 DEF Front
  <2>2. \A i \in 1..(Len(fs) - 1) : fs[i] \in Call
    BY <1>1, ElementOfSeq
  <2>3. Len(fs) - 1 \in Nat
    BY <1>1
  <2> QED
    BY <2>1, <2>2, <2>3, IsASeq
<1>3. \A i \in 1..Len(fs) : fs[i] \in Call
  BY <1>1, ElementOfSeq
<1>4. Stacked(Front(fs))
  BY <1>1, <1>2 DEF Stacked
<1> QED
  BY <1>1, <1>2, <1>3, <1>4

\* One call more.
LEMMA Pushed ==
  ASSUME NEW fs, Stacked(fs), NEW frame \in Call, frame.home <= Len(fs) + 1,
         frame.home = Len(fs) + 1 => \A i \in 1..Len(fs) : fs[i].disturbed
  PROVE  /\ Stacked(Append(fs, frame)) /\ Len(Append(fs, frame)) = Len(fs) + 1
         /\ Len(fs) \in Nat /\ Append(fs, frame)[Len(fs) + 1] = frame
         /\ \A i \in 1..Len(fs) : Append(fs, frame)[i] = fs[i]
         /\ Append(fs, frame) # <<>>
<1>1. fs \in Seq(Call) /\ Len(fs) \in Nat
  BY LenProperties DEF Stacked
<1>2. /\ Append(fs, frame) \in Seq(Call) /\ Len(Append(fs, frame)) = Len(fs) + 1
      /\ Append(fs, frame)[Len(fs) + 1] = frame
      /\ \A i \in 1..Len(fs) : Append(fs, frame)[i] = fs[i]
  BY <1>1, AppendProperties
<1> DEFINE more == Append(fs, frame)
<1> HIDE DEF more
<1>3. more # <<>>
  BY <1>1, <1>2, EmptySeq DEF more
<1>4. Stacked(more)
  <2>1. more \in Seq(Call) /\ \A i \in 1..Len(more) : more[i].home <= i
    <3>1. \A i \in 1..Len(more) : i \in 1..Len(fs) \/ i = Len(fs) + 1
      BY <1>1, <1>2 DEF more
    <3> QED
      BY <1>1, <1>2, <3>1 DEF more, Stacked
  <2>2. ASSUME NEW i \in 1..Len(more), NEW j \in 1..Len(more), i < j, more[j].home = j
        PROVE  more[i].disturbed
    <3>1. i \in 1..Len(fs) /\ more[i] = fs[i]
      BY <1>1, <1>2, <2>2 DEF more
    <3>2. CASE j = Len(fs) + 1
      BY <1>2, <2>2, <3>1, <3>2 DEF more
    <3>3. CASE j # Len(fs) + 1
      <4>1. j \in 1..Len(fs) /\ more[j] = fs[j]
        BY <1>1, <1>2, <3>3 DEF more
      <4> QED
        BY <2>2, <3>1, <4>1 DEF Stacked
    <3> QED
      BY <3>2, <3>3
  <2> QED
    BY <2>1, <2>2 DEF Stacked
<1> QED
  BY <1>1, <1>2, <1>3, <1>4 DEF more

\* A call returns and the vector is left alone, or its own line is the one that
\* returns and the vector may be zeroed.
LEMMA ReturnSInv ==
  ASSUME SInv, frames # <<>>, frames' = Front(frames), NotScanning, AfterReturn,
         \/ argv' = argv
         \/ argv' = Cleared(argv) /\ frames[Len(frames)].home = Len(frames)
  PROVE  SInv'
<1>1. /\ Stacked(frames') /\ Len(frames) \in Nat \ {0} /\ Len(frames') = Len(frames) - 1
      /\ \A i \in 1..(Len(frames) - 1) : frames'[i] = frames[i]
  BY Popped DEF SInv
<1>2. phase' \in {"idle", "handler"} /\ (phase' = "idle" <=> frames' = <<>>)
  BY DEF AfterReturn
<1>3. DInv'
  BY <1>2, NotScanningDInv DEF SInv
<1>4. OwnSplit'
  BY <1>2 DEF OwnSplit, Splitting, Statuses
<1>5. ASSUME NEW i \in 1..Len(frames') PROVE HandedOver(frames'[i], argv')
  <2>1. i \in 1..Len(frames) /\ i < Len(frames) /\ frames'[i] = frames[i]
        /\ Len(frames) \in 1..Len(frames)
    BY <1>1
  <2>2. CASE argv' = argv
    BY <2>1, <2>2 DEF SInv
  <2>3. CASE frames[Len(frames)].home = Len(frames)
    <3>1. frames[i].disturbed
      BY <2>1, <2>3 DEF SInv, Stacked
    <3> QED
      BY <2>1, <3>1 DEF HandedOver
  <2> QED
    BY <2>2, <2>3
<1> QED
  BY <1>1, <1>2, <1>3, <1>4, <1>5 DEF SInv
\* What a step of the splitting does besides: it leaves the buffer it works on and
\* sets at most the next entry of the vector, to a place in that buffer.
LEMMA StepEntries ==
  ASSUME DInv, Step
  PROVE  /\ Splitting /\ Splitting' /\ level' = level
         /\ \/ argc' = argc /\ argv' = argv
            \/ /\ argc' = argc + 1 /\ argc + 1 \in 1..Capacity
               /\ \A i \in 1..Capacity :
                    argv'[i] = IF i = argc + 1 THEN [level |-> level, at |-> write] ELSE argv[i]
<1>1. CASE SkipSpace \/ EndOfLine \/ EndWord \/ Unterminated \/ Escape \/ Requote \/ Character
  <2>1. Splitting /\ level' = level /\ argc' = argc /\ argv' = argv
    BY <1>1 DEF Splitting, SkipSpace, EndOfLine, EndWord, Unterminated, Escape, Requote,
                Character, Finish, scanVars
  <2>2. phase' \in {phase, "gap"} \cup Statuses
    BY <1>1 DEF SkipSpace, EndOfLine, EndWord, Unterminated, Escape, Requote,
                Character, Finish, Statuses
  <2> QED
    BY <2>1, <2>2 DEF Splitting
<1>2. CASE BeginWord
  <2>1. /\ Splitting /\ argc \in Nat /\ DOMAIN argv = 1..Capacity /\ Capacity \in Nat
    BY <1>2, CapacityAssumption DEF BeginWord, Splitting, DInv, IInv, Typed, InPlaceIsSafe
  <2>2. CASE argc >= Capacity
    BY <1>2, <2>1, <2>2 DEF BeginWord, Finish, scanVars, Splitting, Statuses
  <2>3. CASE ~(argc >= Capacity)
    <3>1. /\ argv' = [argv EXCEPT ![argc + 1] = [level |-> level, at |-> write]]
          /\ argc' = argc + 1 /\ phase' = "word" /\ level' = level
      BY <1>2, <2>3 DEF BeginWord
    <3>2. argc + 1 \in 1..Capacity
      BY <2>1, <2>3
    <3> QED
      BY <2>1, <3>1, <3>2 DEF Splitting
  <2> QED
    BY <2>2, <2>3
<1> QED
  BY <1>1, <1>2 DEF Step

LEMMA ScanSInv == ASSUME SInv, Scan PROVE SInv'
<1>1. DInv /\ Step /\ frames' = frames
  BY DEF SInv, Scan
<1>2. DInv'
  BY <1>1, StepDInv
<1>3. /\ Splitting /\ Splitting' /\ level' = level
      /\ \/ argc' = argc /\ argv' = argv
         \/ /\ argc' = argc + 1 /\ argc + 1 \in 1..Capacity
            /\ \A i \in 1..Capacity :
                 argv'[i] = IF i = argc + 1 THEN [level |-> level, at |-> write] ELSE argv[i]
  BY <1>1, StepEntries
<1>4. argc \in Nat /\ argc <= Capacity /\ Capacity \in Nat
  BY <1>1, CapacityAssumption DEF DInv, IInv, Typed, InPlaceIsSafe
<1>5. /\ frames # <<>> /\ level = Len(frames)
      /\ frames[Len(frames)].home = level /\ frames[Len(frames)].count = 0
      /\ \A i \in 1..argc : argv[i].level = level
  BY <1>3 DEF SInv, OwnSplit
<1>6. \A i \in 1..argc' : argv'[i].level = level
  <2>1. CASE argc' = argc /\ argv' = argv
    BY <1>5, <2>1
  <2>2. CASE /\ argc' = argc + 1 /\ argc + 1 \in 1..Capacity
             /\ \A i \in 1..Capacity :
                  argv'[i] = IF i = argc + 1 THEN [level |-> level, at |-> write] ELSE argv[i]
    <3> SUFFICES ASSUME NEW i \in 1..argc' PROVE argv'[i].level = level
      OBVIOUS
    <3>1. i \in 1..Capacity /\ (i = argc + 1 \/ i \in 1..argc)
      BY <1>4, <2>2
    <3> QED
      BY <1>5, <2>2, <3>1
  <2> QED
    BY <1>3, <2>1, <2>2
<1>7. OwnSplit'
  BY <1>1, <1>3, <1>5, <1>6 DEF OwnSplit
<1>8. phase # "idle" /\ phase' # "idle"
  BY <1>3 DEF Splitting, Statuses
<1>9. ASSUME NEW i \in 1..Len(frames) PROVE HandedOver(frames[i], argv')
  <2>1. Len(frames) \in Nat
    BY LenProperties DEF SInv, Stacked
  <2>2. CASE i = Len(frames)
    BY <1>5, <2>2 DEF HandedOver
  <2>3. CASE i # Len(frames)
    <3>1. frames[i].disturbed
      BY <1>5, <2>1, <2>3 DEF SInv, Stacked
    <3> QED
      BY <3>1 DEF HandedOver
  <2> QED
    BY <2>2, <2>3
<1> QED
  BY <1>1, <1>2, <1>7, <1>8, <1>9 DEF SInv

\* A line entered in the middle of other calls disturbs them all.
LEMMA ExecuteLineSInv == ASSUME SInv, ExecuteLine PROVE SInv'
<1>1. phase \in {"idle", "handler"}
  BY DEF ExecuteLine, MayCall, InHandler
<1>2. PICK line \in Seq(1..255) :
        IF Len(line) > LineMax
        THEN UNCHANGED <<tokenizerVars, frames>>
        ELSE /\ frames' = Append([i \in DOMAIN frames |->
                                    [frames[i] EXCEPT !.disturbed = TRUE]],
                                 Frame(Len(frames) + 1))
             /\ Begin(line, Len(frames) + 1) /\ argv' = argv
  <2>1. (IF InHandler THEN Nested ELSE Line) \subseteq Seq(1..255)
    BY LineAssumption, NestedAssumption
  <2> QED
    BY <2>1 DEF ExecuteLine
<1>3. CASE Len(line) > LineMax
  <2>1. UNCHANGED <<tokenizerVars, frames>>
    BY <1>2, <1>3
  <2>2. DInv'
    BY <2>1, SameDInv DEF SInv
  <2> QED
    BY <2>1, <2>2 DEF SInv, OwnSplit, Splitting, tokenizerVars, scanVars
<1>4. CASE ~(Len(line) > LineMax)
  <2> DEFINE n == Len(frames)
             ds == [i \in DOMAIN frames |-> [frames[i] EXCEPT !.disturbed = TRUE]]
  <2>1. frames' = Append(ds, Frame(n + 1)) /\ Begin(line, n + 1) /\ argv' = argv
    BY <1>2, <1>4
  <2>2. /\ frames \in Seq(Call) /\ n \in Nat /\ DOMAIN frames = 1..n
        /\ \A i \in 1..n : frames[i] \in Call
    BY LenProperties, ElementOfSeq DEF SInv, Stacked
  <2>3. /\ ds \in Seq(Call) /\ Len(ds) = n
        /\ \A i \in 1..n : ds[i].disturbed /\ ds[i].home = frames[i].home
    <3>1. \A i \in 1..n : [frames[i] EXCEPT !.disturbed = TRUE] \in Call
      <4>1. ASSUME NEW f \in Call PROVE [f EXCEPT !.disturbed = TRUE] \in Call
        BY DEF Call
      <4> QED
        BY <2>2, <4>1
    <3>2. ds = [i \in 1..n |-> [frames[i] EXCEPT !.disturbed = TRUE]]
      BY <2>2
    <3>3. ds \in Seq(Call) /\ Len(ds) = n
      <4> DEFINE d(i) == [frames[i] EXCEPT !.disturbed = TRUE]
      <4>1. n \in Nat /\ \A i \in 1..n : d(i) \in Call
        BY <2>2, <3>1
      <4>2. ds = [i \in 1..n |-> d(i)]
        BY <3>2
      <4> HIDE DEF ds, n, d
      <4>3. [i \in 1..n |-> d(i)] \in Seq(Call) /\ Len([i \in 1..n |-> d(i)]) = n
        BY ONLY <4>1, IsASeq
      <4> QED
        BY ONLY <4>2, <4>3
    <3>4. \A i \in 1..n : ds[i].disturbed /\ ds[i].home = frames[i].home
      <4>1. ASSUME NEW f \in Call
            PROVE  LET g == [f EXCEPT !.disturbed = TRUE] IN g.disturbed /\ g.home = f.home
        BY DEF Call
      <4>2. \A i \in 1..n : frames[i] \in Call
                            /\ ds[i] = [frames[i] EXCEPT !.disturbed = TRUE]
        BY <2>2, <3>2
      <4> HIDE DEF ds, n
      <4> QED
        BY ONLY <4>1, <4>2
    <3> QED
      BY <3>3, <3>4
  <2> HIDE DEF ds
  <2>4. Stacked(ds)
    BY <2>2, <2>3 DEF SInv, Stacked
  <2>5. /\ Frame(n + 1) \in Call /\ Frame(n + 1).home = n + 1 /\ Frame(n + 1).count = 0
    <3>1. <<>> \in Seq(1..255) /\ <<>> \in Seq(Octet)
      OBVIOUS
    <3> QED
      BY <2>2, <3>1 DEF Frame, Call
  <2> HIDE DEF n
  <2>6. /\ Stacked(frames') /\ Len(frames') = n + 1 /\ frames'[n + 1] = Frame(n + 1)
        /\ \A i \in 1..n : frames'[i] = ds[i]
        /\ frames' # <<>>
    BY <2>1, <2>2, <2>3, <2>4, <2>5, Pushed
  <2>7. phase' = "gap" /\ level' = n + 1 /\ argc' = 0
    BY <2>1 DEF Begin
  <2>8. DInv'
    BY <2>1, BeginDInv DEF SInv
  <2>9. OwnSplit'
    BY <2>2, <2>5, <2>6, <2>7 DEF OwnSplit
  <2>10. ASSUME NEW i \in 1..Len(frames') PROVE HandedOver(frames'[i], argv')
    <3>1. i = n + 1 \/ i \in 1..n
      BY <2>2, <2>6
    <3> QED
      BY <2>3, <2>5, <2>6, <3>1 DEF HandedOver
  <2> QED
    BY <2>6, <2>7, <2>8, <2>9, <2>10 DEF SInv
<1> QED
  BY <1>3, <1>4
\* What is handed on from a part of the vector is a part of it.
LEMMA HandedOn ==
  ASSUME NEW frame \in Call, NEW vector, HandedOver(frame, vector), NEW m \in 1..frame.count
  PROVE  LET rest == [frame EXCEPT !.first = @ + m - 1, !.count = @ - m + 1]
         IN rest \in Call /\ HandedOver(rest, vector) /\ rest.home = frame.home
<1> DEFINE rest == [frame EXCEPT !.first = @ + m - 1, !.count = @ - m + 1]
<1>1. frame.first \in Nat /\ frame.count \in Nat /\ frame.home \in Nat
  BY DEF Call
<1>2. /\ rest.first = frame.first + m - 1 /\ rest.count = frame.count - m + 1
      /\ rest.home = frame.home /\ rest.text = frame.text /\ rest.buf = frame.buf
      /\ rest.disturbed = frame.disturbed
  BY DEF Call
<1>3. rest \in Call
  <2>1. frame.first + m - 1 \in Nat /\ frame.count - m + 1 \in Nat
    BY <1>1
  <2> QED
    BY <2>1 DEF Call
<1> HIDE DEF rest
<1>4. HandedOver(rest, vector)
  <2> SUFFICES ASSUME frame.home # 0, frame.count > 0, ~frame.disturbed
               PROVE  HandedOver(rest, vector)
    BY <1>1, <1>2 DEF HandedOver
  <2> DEFINE words == Tokens(frame.text, Capacity).words
             last == frame.first + frame.count - 1
  <2>1. /\ frame.first >= 1 /\ last <= Len(words) /\ Len(words) \in Nat
        /\ \A k \in frame.first..last :
             vector[k].level = frame.home /\ StringAt(frame.buf, vector[k].at) = words[k]
    BY DEF HandedOver
  <2>2. rest.first >= 1 /\ rest.first + rest.count - 1 = last /\ rest.first >= frame.first
    BY <1>1, <1>2, <2>1
  <2>3. \A k \in rest.first..last : k \in frame.first..last
    BY <1>1, <1>2, <2>2
  <2> HIDE DEF words, last
  <2>4. words = Tokens(rest.text, Capacity).words
    BY <1>2 DEF words
  <2> QED
    BY <1>2, <2>1, <2>2, <2>3, <2>4 DEF HandedOver
<1> QED
  BY <1>2, <1>3, <1>4 DEF rest

\* sh_execute_argv on the first arguments of `frame`, or on a vector of its caller.
LEMMA DispatchVectorSInv ==
  ASSUME SInv, phase \in {"idle", "handler"}, NEW words, Len(words) \in Nat,
         NEW frame \in Call, frame.home <= Len(frames),
         HandedOver([frame EXCEPT !.count = Len(words)], argv),
         DispatchVector(words, frame)
  PROVE  SInv'
<1> DEFINE outcome == Dispatch(roots, cfg.builtins, words)
           given == [frame EXCEPT !.count = Len(words)]
           callee == [frame EXCEPT !.first = @ + outcome.first - 1,
                                   !.count = Len(words) - outcome.first + 1]
<1>1. CASE UNCHANGED <<tokenizerVars, frames>>
  <2>1. DInv'
    BY <1>1, SameDInv DEF SInv
  <2> QED
    BY <1>1, <2>1 DEF SInv, OwnSplit, Splitting, tokenizerVars, scanVars
<1>2. CASE ~UNCHANGED <<tokenizerVars, frames>>
  <2>1. /\ outcome.runs # <<>> /\ frames' = Append(frames, callee)
        /\ phase' = "handler" /\ NotScanning /\ argv' = argv
    BY <1>2 DEF DispatchVector
  <2>2. outcome.first \in 1..Len(words)
    BY <2>1, DispatchFirst
  <2> HIDE DEF outcome
  <2>3. given \in Call /\ given.count = Len(words) /\ given.home = frame.home
    BY DEF Call
  <2>4. callee = [given EXCEPT !.first = @ + outcome.first - 1,
                               !.count = @ - outcome.first + 1]
    BY DEF Call
  <2> HIDE DEF given, callee
  <2>5. callee \in Call /\ HandedOver(callee, argv) /\ callee.home = frame.home
    <3>1. HandedOver(given, argv) /\ outcome.first \in 1..given.count
      BY <2>2, <2>3 DEF given
    <3> QED
      BY <2>3, <2>4, <3>1, HandedOn
  <2>6. Len(frames) \in Nat /\ callee.home # Len(frames) + 1 /\ callee.home <= Len(frames) + 1
    <3>1. Len(frames) \in Nat
      BY LenProperties DEF SInv, Stacked
    <3>2. callee.home = frame.home /\ frame.home \in Nat
      BY <2>5 DEF Call
    <3> QED
      BY <3>1, <3>2
  <2>7. /\ Stacked(frames') /\ Len(frames') = Len(frames) + 1
        /\ frames'[Len(frames) + 1] = callee /\ frames' # <<>>
        /\ \A i \in 1..Len(frames) : frames'[i] = frames[i]
    <3>1. Stacked(frames)
      BY DEF SInv
    <3> QED
      BY <2>1, <2>5, <2>6, <3>1, Pushed
  <2>8. DInv'
    BY <2>1, NotScanningDInv DEF SInv
  <2>9. OwnSplit'
    BY <2>1 DEF OwnSplit, Splitting, Statuses
  <2>10. ASSUME NEW i \in 1..Len(frames') PROVE HandedOver(frames'[i], argv')
    <3>1. i \in 1..Len(frames) \/ i = Len(frames) + 1
      BY <2>6, <2>7
    <3> QED
      BY <2>1, <2>5, <2>7, <3>1 DEF SInv
  <2> QED
    BY <2>1, <2>7, <2>8, <2>9, <2>10 DEF SInv
<1> QED
  BY <1>1, <1>2

LEMMA ExecuteArgvSInv ==
  ASSUME SInv, NEW words \in Vector, ExecuteArgv(words)
  PROVE  SInv'
<1> DEFINE frame == [Frame(0) EXCEPT !.first = 1]
<1>1. phase \in {"idle", "handler"} /\ DispatchVector(words, frame)
  BY DEF ExecuteArgv, MayCall, InHandler
<1>2. Len(words) \in Nat
  <2>1. words \in Seq(Seq(1..255))
    BY VectorAssumption
  <2> QED
    BY <2>1, LenProperties
<1>3. frame \in Call /\ frame.home = 0 /\ frame.count = 0
  <2>1. <<>> \in Seq(1..255) /\ <<>> \in Seq(Octet)
    OBVIOUS
  <2> QED
    BY <2>1 DEF Frame, Call
<1> HIDE DEF frame
<1>4. [frame EXCEPT !.count = Len(words)].home = 0
  BY <1>3 DEF Call
<1>5. HandedOver([frame EXCEPT !.count = Len(words)], argv)
  BY <1>4 DEF HandedOver
<1>6. frame.home <= Len(frames)
  BY <1>3, LenProperties DEF SInv, Stacked
<1> QED
  BY <1>1, <1>2, <1>3, <1>5, <1>6, DispatchVectorSInv
LEMMA ForwardArgumentsSInv == ASSUME SInv, ForwardArguments PROVE SInv'
<1> DEFINE n == Len(frames)
           top == frames[n]
           frame == [top EXCEPT !.first = @ + 1]
           words == Tail(Seen(top))
<1>1. /\ phase = "handler" /\ top.count > 1 /\ DispatchVector(words, frame)
  BY DEF ForwardArguments, InHandler, Top
<1>2. n \in Nat /\ n # 0 /\ top \in Call /\ top.home <= n /\ HandedOver(top, argv)
  <2>1. frames \in Seq(Call) /\ frames # <<>>
    BY <1>1 DEF SInv, Stacked
  <2>2. n \in Nat /\ n # 0
    BY <2>1, EmptySeq, LenProperties
  <2>3. n \in 1..Len(frames)
    BY <2>2
  <2> QED
    BY <2>1, <2>2, <2>3, ElementOfSeq DEF SInv, Stacked
<1> HIDE DEF top, n
<1>3. Len(words) = top.count - 1
  <2>1. top.count \in Nat /\ top.count > 1
    BY <1>1, <1>2 DEF Call
  <2>2. \E e : Seen(top) = [k \in 1..top.count |-> e[k]]
    <3>1. Seen(top) = [k \in 1..top.count |-> Seen(top)[k]]
      BY DEF Seen
    <3> QED
      BY <3>1
  <2>3. PICK e : Seen(top) = [k \in 1..top.count |-> e[k]]
    BY <2>2
  <2> QED
    BY <2>1, <2>3
<1> HIDE DEF words
<1>4. [frame EXCEPT !.count = Len(words)] = [top EXCEPT !.first = @ + 2 - 1, !.count = @ - 2 + 1]
  <2>1. top.first + 2 - 1 = top.first + 1 /\ top.count - 2 + 1 = Len(words)
    BY <1>2, <1>3 DEF Call
  <2> QED
    BY <1>2, <2>1 DEF Call
<1>5. 2 \in 1..top.count
  BY <1>1, <1>2 DEF Call
<1>6. HandedOver([frame EXCEPT !.count = Len(words)], argv)
  BY <1>2, <1>4, <1>5, HandedOn
<1>7. frame \in Call /\ frame.home = top.home /\ Len(words) \in Nat
  BY <1>1, <1>2, <1>3 DEF Call
<1> HIDE DEF frame
<1>8. frame.home <= Len(frames)
  BY <1>2, <1>7 DEF n
<1> QED
  BY <1>1, <1>6, <1>7, <1>8, DispatchVectorSInv

\* The line's words, as the reader of the line sees them.
LEMMA SplitWords ==
  ASSUME SInv, phase = "SH_OK"
  PROVE  /\ Words = Tokens(text, Capacity).words /\ Len(Words) = argc /\ argc \in Nat
         /\ \A i \in 1..argc : Words[i] = StringAt(buf, argv[i].at)
<1>1. TokensAsDocumented /\ argc \in Nat
  BY DEF SInv, DInv, IInv, Typed
<1>2. Words = Tokens(text, Capacity).words
  BY <1>1 DEF TokensAsDocumented, Statuses
<1>3. /\ Words = [i \in 1..argc |-> StringAt(buf, argv[i].at)]
  BY DEF Words
<1>4. Len(Words) = argc /\ \A i \in 1..argc : Words[i] = StringAt(buf, argv[i].at)
  BY <1>1, <1>3
<1> QED
  BY <1>1, <1>2, <1>4

LEMMA DispatchLineSInv == ASSUME SInv, DispatchLine PROVE SInv'
<1> DEFINE n == Len(frames)
           outcome == Dispatch(roots, cfg.builtins, Words)
           callee == [frames[n] EXCEPT !.text = text, !.buf = buf,
                                       !.first = outcome.first,
                                       !.count = argc - outcome.first + 1]
<1>1. /\ Splitting /\ phase = "SH_OK"
  BY DEF DispatchLine, Splitting, Statuses
<1>2. /\ frames # <<>> /\ level = n /\ frames[n].home = level /\ frames[n].count = 0
      /\ \A i \in 1..argc : argv[i].level = level
  BY <1>1 DEF SInv, OwnSplit
<1>3. CASE outcome.runs = <<>>
  <2>1. LineReturns(outcome.status)
    BY <1>3 DEF DispatchLine
  <2> HIDE DEF outcome
  <2> QED
    BY <1>2, <2>1, ReturnSInv DEF LineReturns, Cleared
<1>4. CASE outcome.runs # <<>>
  <2>1. /\ frames' = [frames EXCEPT ![n] = callee]
        /\ phase' = "handler" /\ NotScanning /\ argv' = argv
    BY <1>4 DEF DispatchLine
  <2>2. /\ Words = Tokens(text, Capacity).words /\ Len(Words) = argc /\ argc \in Nat
        /\ \A i \in 1..argc : Words[i] = StringAt(buf, argv[i].at)
    BY <1>1, SplitWords
  <2>3. outcome.first \in 1..argc
    BY <1>4, <2>2, DispatchFirst
  <2> HIDE DEF outcome
  <2>4. /\ frames \in Seq(Call) /\ n \in Nat /\ n \in 1..n /\ frames[n] \in Call
        /\ \A i \in 1..n : frames[i] \in Call
    <3>1. n \in Nat /\ n # 0
      BY <1>2, EmptySeq, LenProperties DEF SInv, Stacked
    <3> QED
      BY <3>1, ElementOfSeq DEF SInv, Stacked
  <2> HIDE DEF n
  <2>5. /\ callee \in Call /\ callee.home = n /\ callee.text = text /\ callee.buf = buf
        /\ callee.first = outcome.first /\ callee.count = argc - outcome.first + 1
        /\ callee.disturbed = frames[n].disturbed
    <3>1. /\ outcome.first \in Nat /\ argc - outcome.first + 1 \in Nat
          /\ text \in Seq(1..255) /\ buf \in Seq(Octet)
      BY <2>2, <2>3 DEF SInv, DInv, IInv, Typed
    <3>2. callee = [frames[n] EXCEPT !.text = text, !.buf = buf, !.first = outcome.first,
                                     !.count = argc - outcome.first + 1]
      OBVIOUS
    <3> DEFINE first == outcome.first
               rest == argc - outcome.first + 1
               frame == frames[n]
    <3>3. /\ frame \in Call /\ first \in Nat /\ rest \in Nat
          /\ callee = [frame EXCEPT !.text = text, !.buf = buf, !.first = first, !.count = rest]
      BY <2>4, <3>1, <3>2
    <3> HIDE DEF callee, first, rest, frame
    <3>4. /\ callee \in Call /\ callee.home = frame.home /\ callee.text = text
          /\ callee.buf = buf /\ callee.first = first /\ callee.count = rest
          /\ callee.disturbed = frame.disturbed
      BY ONLY <3>1, <3>3 DEF Call
    <3> QED
      BY <1>2, <3>4 DEF first, rest, frame
  <2> HIDE DEF callee
  <2>6. /\ frames' \in Seq(Call) /\ Len(frames') = n
        /\ \A i \in 1..n : frames'[i] = IF i = n THEN callee ELSE frames[i]
    BY <2>1, <2>4, <2>5, ExceptSeq DEF n
  <2>7. Stacked(frames')
    <3>1. \A i \in 1..n : frames'[i].home = frames[i].home /\ frames'[i].disturbed = frames[i].disturbed
      BY <1>2, <2>5, <2>6
    <3> QED
      BY <2>4, <2>6, <3>1 DEF SInv, Stacked, n
  <2>8. frames' # <<>>
    BY <2>4, <2>6
  <2>9. HandedOver(callee, argv)
    <3>1. callee.first + callee.count - 1 = argc
      BY <2>2, <2>3, <2>5
    <3>2. \A k \in callee.first..argc : k \in 1..argc
      BY <2>2, <2>3, <2>5
    <3> QED
      BY <1>2, <2>2, <2>3, <2>5, <3>1, <3>2 DEF HandedOver
  <2>10. ASSUME NEW i \in 1..Len(frames') PROVE HandedOver(frames'[i], argv')
    BY <2>1, <2>6, <2>9 DEF SInv, n
  <2>11. DInv'
    BY <2>1, NotScanningDInv DEF SInv
  <2>12. OwnSplit'
    BY <2>1 DEF OwnSplit, Splitting, Statuses
  <2> QED
    BY <2>1, <2>7, <2>8, <2>10, <2>11, <2>12 DEF SInv
<1> QED
  BY <1>3, <1>4

\* A line without a command to run returns at once.
LEMMA NothingToDoSInv == ASSUME SInv, NothingToDo PROVE SInv'
<1>1. Splitting /\ LineReturns(phase)
  BY DEF NothingToDo, Splitting
<1>2. frames # <<>> /\ frames[Len(frames)].home = Len(frames)
  BY <1>1 DEF SInv, OwnSplit
<1> QED
  BY <1>1, <1>2, ReturnSInv DEF LineReturns, Cleared

LEMMA HandlerReturnsSInv ==
  ASSUME SInv, NEW st, HandlerReturns(st)
  PROVE  SInv'
<1>1. frames # <<>>
  BY DEF HandlerReturns, InHandler, SInv
<1>2. CASE Top.home = Len(frames)
  <2>1. LineReturns(st)
    BY <1>2 DEF HandlerReturns
  <2> QED
    BY <1>1, <1>2, <2>1, ReturnSInv DEF LineReturns, Cleared, Top
<1>3. CASE Top.home # Len(frames)
  <2>1. VectorReturns(st)
    BY <1>3 DEF HandlerReturns
  <2> QED
    BY <1>1, <2>1, ReturnSInv DEF VectorReturns
<1> QED
  BY <1>2, <1>3

\* A step that leaves the calls and the splitting alone.
LEMMA SameSInv == ASSUME SInv, UNCHANGED <<tokenizerVars, frames>> PROVE SInv'
<1>1. DInv'
  BY SameDInv DEF SInv
<1> QED
  BY <1>1 DEF SInv, OwnSplit, Splitting, tokenizerVars, scanVars

LEMMA StepSInv == SInv /\ [SessionNext]_sessionVars => SInv'
<1> SUFFICES ASSUME SInv, [SessionNext]_sessionVars PROVE SInv'
  OBVIOUS
<1>1. CASE \E tables \in Tables : Register(tables)
  BY <1>1, SameSInv DEF Register
<1>2. CASE \E words \in Vector : ExecuteArgv(words)
  BY <1>2, ExecuteArgvSInv
<1>3. CASE \E st \in HandlerStatus : HandlerReturns(st)
  BY <1>3, HandlerReturnsSInv
<1>4. CASE UNCHANGED sessionVars
  BY <1>4, SameSInv DEF sessionVars
<1> QED
  BY <1>1, <1>2, <1>3, <1>4, ExecuteLineSInv, ForwardArgumentsSInv, ScanSInv,
     NothingToDoSInv, DispatchLineSInv DEF SessionNext

LEMMA InitSInv == SessionInit => SInv
<1> SUFFICES ASSUME SessionInit PROVE SInv
  OBVIOUS
<1>1. /\ text = <<>> /\ buf = <<NUL>> /\ read = 1 /\ write = 1 /\ quote = NUL
      /\ argc = 0 /\ argv = [i \in 1..Capacity |-> Null] /\ phase = "idle"
      /\ frames = <<>>
  BY DEF SessionInit
<1>2. /\ <<>> \in Seq(1..255) /\ <<NUL>> \in Seq(Octet) /\ Len(<<>>) = 0
      /\ Len(<<NUL>>) = 1 /\ NUL \in Octet
  BY DEF Octet, NUL
<1>3. Typed
  BY <1>1, <1>2 DEF Typed, Phases
<1>4. InPlaceIsSafe
  BY <1>1, <1>2, CapacityAssumption DEF InPlaceIsSafe, Scanning
<1>5. Agrees /\ TokensAsDocumented /\ OwnSplit
  BY <1>1 DEF Agrees, TokensAsDocumented, OwnSplit, Splitting, Statuses
<1>6. Stacked(frames)
  BY <1>1, EmptySeq DEF Stacked
<1> QED
  BY <1>1, <1>3, <1>4, <1>5, <1>6 DEF SInv, DInv, IInv

\* Buffers, vector and calls in every state of a session: the inductive invariant.
THEOREM SessionInvariant == SessionSpec => []SInv
<1> QED
  BY InitSInv, StepSInv, PTL DEF SessionSpec

\* Calls within calls: the in-place compaction of sh_execute_line stays safe.
THEOREM SessionInPlaceIsSafe == SessionSpec => []InPlaceIsSafe
<1>1. SInv => InPlaceIsSafe
  BY DEF SInv, DInv, IInv
<1> QED
  BY <1>1, SessionInvariant, PTL

\* And it finds the documented words.
THEOREM SessionTokensAsDocumented == SessionSpec => []TokensAsDocumented
<1>1. SInv => TokensAsDocumented
  BY DEF SInv, DInv
<1> QED
  BY <1>1, SessionInvariant, PTL

\* For every depth of nesting, tree and sequence of calls, a handler reads the words
\* of its own line, as the header documents them, until a line is executed inside
\* it: through the shared shell->argv, forwarded vectors and every zeroing.
THEOREM SessionArgsAsTyped == SessionSpec => []ArgsAsTyped
<1>1. ASSUME SInv PROVE ArgsAsTyped
  <2> SUFFICES ASSUME NEW i \in DOMAIN frames,
                      frames[i].home # 0, frames[i].count > 0, ~frames[i].disturbed
               PROVE  Seen(frames[i])
                        = SubSeq(Tokens(frames[i].text, Capacity).words, frames[i].first,
                                 frames[i].first + frames[i].count - 1)
    BY DEF ArgsAsTyped, OnLine, SeesItsWords
  <2> DEFINE frame == frames[i]
             words == Tokens(frame.text, Capacity).words
             last == frame.first + frame.count - 1
  <2>1. frame \in Call /\ HandedOver(frame, argv)
    <3>1. frames \in Seq(Call) /\ i \in 1..Len(frames)
      BY <1>1, LenProperties DEF SInv, Stacked
    <3> QED
      BY <1>1, <3>1, ElementOfSeq DEF SInv
  <2>2. frame.home # 0 /\ frame.count > 0 /\ ~frame.disturbed
    OBVIOUS
  <2> HIDE DEF frame
  <2>3. /\ frame.first >= 1 /\ last <= Len(words)
        /\ \A k \in frame.first..last :
             argv[k].level = frame.home /\ StringAt(frame.buf, argv[k].at) = words[k]
    BY <2>1, <2>2 DEF HandedOver
  <2>4. frame.first \in Nat /\ frame.count \in Nat
    BY <2>1 DEF Call
  <2>5. Seen(frame) = [k \in 1..frame.count |-> words[frame.first + k - 1]]
    <3>1. ASSUME NEW k \in 1..frame.count
          PROVE  /\ argv[frame.first + k - 1].level = frame.home
                 /\ StringAt(frame.buf, argv[frame.first + k - 1].at)
                      = words[frame.first + k - 1]
      <4>1. frame.first + k - 1 \in frame.first..last
        BY <2>3, <2>4
      <4> HIDE DEF words, last
      <4> QED
        BY <2>3, <4>1
    <3> HIDE DEF words
    <3> QED
      BY <3>1 DEF Seen
  <2>6. SubSeq(words, frame.first, last) = [k \in 1..frame.count |-> words[frame.first + k - 1]]
    <3>1. ASSUME NEW w, NEW from \in Nat, NEW n \in Nat
          PROVE  SubSeq(w, from, from + n - 1) = [k \in 1..n |-> w[from + k - 1]]
      <4>1. 1..((from + n - 1) - from + 1) = 1..n
        OBVIOUS
      <4>2. SubSeq(w, from, from + n - 1)
              = [k \in 1..((from + n - 1) - from + 1) |-> w[from + k - 1]]
        OBVIOUS
      <4> QED
        BY <4>1, <4>2
    <3> HIDE DEF words
    <3> QED
      BY <2>4, <3>1
  <2> QED
    BY <2>5, <2>6 DEF frame
<1> QED
  BY <1>1, SessionInvariant, PTL

-----------------------------------------------------------------------------
\* With words quoted or not, what build_history_line makes is a sequence of bytes.
LEMMA RewrittenType ==
  ASSUME NEW words \in Seq(Seq(Octet))
  PROVE  Rewritten(words) \in Seq(Octet)
<1>1. Len(words) \in Nat /\ \A n \in 1..Len(words) : words[n] \in Seq(Octet)
  BY ElementOfSeq, LenProperties
<1>2. \A line \in Seq(Octet) : \A n \in 1..Len(words) : WithToken(line, words[n]) \in Seq(Octet)
  BY <1>1, TokenType
<1>3. PICK with : /\ \A n \in 0..Len(words) : with[n] \in Seq(Octet)
                  /\ Rewritten(words) = with[Len(words)]
  BY <1>1, <1>2, RewrittenSteps
<1> QED
  BY <1>1, <1>3

\* Hiding some of the words leaves words.
LEMMA MaskedType ==
  ASSUME NEW tables, NEW words \in Seq(Seq(1..255))
  PROVE  /\ MaskedWords(tables, words) \in Seq(Seq(1..255))
         /\ Len(MaskedWords(tables, words)) = Len(words)
         /\ \A i \in 1..Len(words) :
              MaskedWords(tables, words)[i] \in {HiddenWord, words[i]}
         /\ MaskedArgs(tables, words) = {} => MaskedWords(tables, words) = words
         /\ Quotable(HiddenWord)
<1> DEFINE masked == MaskedWords(tables, words)
<1>1. /\ Len(words) \in Nat /\ DOMAIN words = 1..Len(words)
      /\ words = [i \in 1..Len(words) |-> words[i]]
      /\ \A i \in 1..Len(words) : words[i] \in Seq(1..255)
  BY ElementOfSeq, LenProperties
<1>2. HiddenWord \in Seq(1..255) /\ \A p \in 1..Len(HiddenWord) : HiddenWord[p] \in 33..126
  <2>1. 33..126 \subseteq 1..255
    OBVIOUS
  <2>2. HiddenWord \in Seq(1..255)
    BY ONLY <2>1, HiddenAssumption, SeqMonotone
  <2> QED
    BY <2>2, HiddenAssumption, ElementOfSeq
<1>3. masked = [i \in 1..Len(words) |->
                  IF i \in MaskedArgs(tables, words) THEN HiddenWord ELSE words[i]]
  BY <1>1 DEF MaskedWords
<1> HIDE DEF masked
<1>4. \A i \in 1..Len(words) : masked[i] \in {HiddenWord, words[i]}
  BY <1>3
<1>5. masked \in Seq(Seq(1..255)) /\ Len(masked) = Len(words)
  <2> DEFINE e(i) == IF i \in MaskedArgs(tables, words) THEN HiddenWord ELSE words[i]
  <2>1. Len(words) \in Nat /\ \A i \in 1..Len(words) : e(i) \in Seq(1..255)
    BY <1>1, <1>2
  <2>2. masked = [i \in 1..Len(words) |-> e(i)]
    BY <1>3
  <2> HIDE DEF e
  <2>3. /\ [i \in 1..Len(words) |-> e(i)] \in Seq(Seq(1..255))
        /\ Len([i \in 1..Len(words) |-> e(i)]) = Len(words)
    BY ONLY <2>1, IsASeq
  <2> QED
    BY ONLY <2>2, <2>3
<1>6. ASSUME MaskedArgs(tables, words) = {} PROVE masked = words
  BY <1>1, <1>3, <1>6
<1>7. Quotable(HiddenWord)
  <2>1. DOMAIN HiddenWord = 1..Len(HiddenWord)
    BY <1>2, LenProperties
  <2>2. \A byte \in 33..126 : ~IsSpace(byte)
    BY DEF IsSpace, Space
  <2> QED
    BY <1>2, <2>1, <2>2 DEF Quotable
<1> QED
  BY <1>4, <1>5, <1>6, <1>7 DEF masked

LogTyped == log \in Seq(Seq(Octet))

\* What is recorded of a split line, if anything is.
LEMMA WhatIsRecorded ==
  ASSUME SInv, LogTyped, phase = "SH_OK", Recorded # log
  PROVE  \E older \in Seq(Seq(Octet)) :
           LET line == HistoryLine(roots, text, Words)
           IN line \in Seq(Octet) /\ Recorded = Append(older, History!Stored(line))
<1> DEFINE line == HistoryLine(roots, text, Words)
           rebuilt == Rewritten(MaskedWords(roots, Words))
<1>1. text \in Seq(1..255) /\ text \in Seq(Octet)
  BY TextIsBytes DEF SInv, DInv, IInv, Typed
<1>2. Words \in Seq(Seq(1..255))
  BY <1>1, SplitWords, WordsAreText, CapacityAssumption
<1>3. rebuilt \in Seq(Octet)
  <2>1. /\ MaskedWords(roots, Words) \in Seq(Seq(1..255))
    BY <1>2, MaskedType
  <2> DEFINE masked == MaskedWords(roots, Words)
  <2> HIDE DEF masked
  <2>2. /\ Len(masked) \in Nat /\ masked = [i \in 1..Len(masked) |-> masked[i]]
        /\ \A i \in 1..Len(masked) : masked[i] \in Seq(Octet)
    BY <2>1, TextIsBytes, ElementOfSeq, LenProperties DEF masked
  <2>3. masked \in Seq(Seq(Octet))
    BY <2>2, IsASeq
  <2> QED
    BY <2>3, RewrittenType DEF masked
<1> HIDE DEF rebuilt
<1>4. line \in Seq(Octet)
  <2>1. line = text \/ line = rebuilt \/ line = SubSeq(rebuilt, 1, HistoryMax)
    BY DEF HistoryLine, rebuilt
  <2>2. HistoryMax \in Nat /\ (Len(rebuilt) > HistoryMax => SubSeq(rebuilt, 1, HistoryMax) \in Seq(Octet))
    BY <1>3, HistoryMaxAssumption
  <2>3. \/ MaskedArgs(roots, Words) # {} /\ Len(rebuilt) > HistoryMax
        \/ line = text \/ line = rebuilt
    BY DEF HistoryLine, rebuilt
  <2> QED
    BY <1>1, <1>3, <2>1, <2>2, <2>3
<1>5. History!Accepts(line) /\ Recorded = History!Recorded(line)
  BY DEF Recorded
<1> HIDE DEF line
<1>6. PICK older \in Seq(Seq(Octet)) : Recorded = Append(older, History!Stored(line))
  <2>1. CASE Len(log) < Depth
    BY <1>5, <2>1 DEF History!Recorded, LogTyped
  <2>2. CASE ~(Len(log) < Depth)
    <3>1. Depth \in Nat /\ Depth > 0 /\ Len(log) \in Nat
      BY <1>5, LogAssumption, LenProperties DEF History!Accepts, LogTyped
    <3>2. log # <<>>
      <4>1. Len(log) # 0
        BY <2>2, <3>1
      <4> QED
        BY <4>1
    <3>3. Tail(log) \in Seq(Seq(Octet))
      BY <3>2, HeadTailProperties DEF LogTyped
    <3> QED
      BY <1>5, <2>2, <3>3 DEF History!Recorded
  <2> QED
    BY <2>1, <2>2
<1> QED
  BY <1>4, <1>6 DEF line

\* The history only ever grows by the line executed, or is cleared.
LEMMA LogStep ==
  ASSUME SInv, LogTyped, [SessionNext]_sessionVars
  PROVE  /\ LogTyped'
         /\ \/ log' = log
            \/ log' = <<>>
            \/ phase = "SH_OK" /\ argc > 0 /\ log' = Recorded /\ Recorded # log
<1> DEFINE Grows == /\ LogTyped'
                    /\ \/ log' = log
                       \/ log' = <<>>
                       \/ phase = "SH_OK" /\ argc > 0 /\ log' = Recorded /\ Recorded # log
<1> SUFFICES Grows
  OBVIOUS
<1>1. ASSUME UNCHANGED log PROVE Grows
  BY <1>1 DEF LogTyped
<1>2. ASSUME NEW words, BuiltinEffect(words, log) PROVE Grows
  <2>1. log' = <<>> \/ log' = log
    BY <1>2 DEF BuiltinEffect
  <2>2. <<>> \in Seq(Seq(Octet))
    OBVIOUS
  <2> QED
    BY <2>1, <2>2 DEF LogTyped
<1>3. ASSUME NEW words, NEW frame, DispatchVector(words, frame) PROVE Grows
  <2>1. UNCHANGED log \/ BuiltinEffect(words, log)
    BY <1>3 DEF DispatchVector
  <2> HIDE DEF Grows
  <2> QED
    BY <1>1, <1>2, <2>1
<1>4. CASE DispatchLine
  <2>1. /\ phase = "SH_OK" /\ argc > 0
        /\ log' = <<>> \/ log' = Recorded
    BY <1>4 DEF DispatchLine, BuiltinEffect
  <2>2. CASE log' = <<>>
    <3>1. <<>> \in Seq(Seq(Octet))
      OBVIOUS
    <3> QED
      BY <2>2, <3>1 DEF LogTyped
  <2>3. CASE log' = Recorded /\ Recorded = log
    BY <2>3 DEF LogTyped
  <2>4. CASE log' = Recorded /\ Recorded # log
    <3> DEFINE line == HistoryLine(roots, text, Words)
    <3>1. PICK older \in Seq(Seq(Octet)) :
            line \in Seq(Octet) /\ Recorded = Append(older, History!Stored(line))
      BY <2>1, <2>4, WhatIsRecorded
    <3> HIDE DEF line
    <3>2. History!Stored(line) \in Seq(Octet)
      <4>1. ASSUME Len(line) >= SlotSize PROVE SubSeq(line, 1, SlotSize - 1) \in Seq(Octet)
        BY <3>1, <4>1, LogAssumption
      <4> QED
        BY <3>1, <4>1 DEF History!Stored
    <3>3. Append(older, History!Stored(line)) \in Seq(Seq(Octet))
      BY <3>2, AppendProperties
    <3> QED
      BY <2>1, <2>4, <3>1, <3>3 DEF LogTyped
  <2> QED
    BY <2>1, <2>2, <2>3, <2>4
<1>5. CASE \E tables \in Tables : Register(tables)
  BY <1>1, <1>5 DEF Register
<1>6. CASE ExecuteLine \/ Scan \/ NothingToDo \/ \E st \in HandlerStatus : HandlerReturns(st)
  BY <1>1, <1>6 DEF ExecuteLine, Scan, NothingToDo, HandlerReturns, commandVars
<1>7. CASE \E words \in Vector : ExecuteArgv(words)
  BY <1>3, <1>7 DEF ExecuteArgv
<1>8. CASE ForwardArguments
  BY <1>3, <1>8 DEF ForwardArguments
<1>9. CASE UNCHANGED sessionVars
  BY <1>1, <1>9 DEF sessionVars, commandVars
<1> HIDE DEF Grows
<1>10. \/ \E tables \in Tables : Register(tables)
       \/ ExecuteLine \/ Scan \/ NothingToDo \/ (\E st \in HandlerStatus : HandlerReturns(st))
       \/ (\E words \in Vector : ExecuteArgv(words))
       \/ ForwardArguments \/ DispatchLine \/ UNCHANGED sessionVars
  BY ONLY [SessionNext]_sessionVars DEF SessionNext
<1> QED
  BY ONLY <1>4, <1>5, <1>6, <1>7, <1>8, <1>9, <1>10

\* What is recorded of the line means the same again.
LEMMA RecordedMeansSame ==
  ASSUME SInv, LogTyped, phase = "SH_OK", argc > 0, log' = Recorded, Recorded # log,
         Len(Last(log')) < HistoryMax, Len(Last(log')) < SlotSize - 1,
         NEW words, words = Tokens(text, Capacity).words,
         \A i \in DOMAIN words : Quotable(words[i])
  PROVE  Tokens(Last(log'), Capacity).words = MaskedWords(roots, words)
<1> DEFINE line == HistoryLine(roots, text, words)
           masked == MaskedWords(roots, words)
           rebuilt == Rewritten(masked)
<1>1. /\ words = Words /\ Len(words) = argc /\ argc \in Nat
      /\ text \in Seq(1..255) /\ text \in Seq(Octet)
  BY SplitWords, TextIsBytes DEF SInv, DInv, IInv, Typed
<1>2. words \in Seq(Seq(1..255)) /\ Len(words) <= Capacity /\ DOMAIN words = 1..Len(words)
  <2>1. text \in Seq(1..255) /\ Capacity \in Nat
    BY <1>1, CapacityAssumption
  <2>2. words \in Seq(Seq(1..255)) /\ Len(words) <= Capacity
    BY ONLY <2>1, WordsAreText, words = Tokens(text, Capacity).words
  <2> QED
    BY ONLY <2>2, LenProperties
<1>3. PICK older \in Seq(Seq(Octet)) :
        line \in Seq(Octet) /\ Recorded = Append(older, History!Stored(line))
  BY <1>1, WhatIsRecorded
<1>4. /\ masked \in Seq(Seq(1..255)) /\ Len(masked) = argc
      /\ \A i \in 1..argc : Quotable(masked[i])
      /\ MaskedArgs(roots, words) = {} => masked = words
  <2>1. /\ masked \in Seq(Seq(1..255)) /\ Len(masked) = Len(words)
        /\ \A i \in 1..Len(words) : masked[i] \in {HiddenWord, words[i]}
        /\ MaskedArgs(roots, words) = {} => masked = words
        /\ Quotable(HiddenWord)
    BY ONLY <1>2, MaskedType
  <2> HIDE DEF masked
  <2> QED
    BY <1>1, <1>2, <2>1
<1>5. /\ MaskedArgs(roots, words) = {} => line = text
      /\ MaskedArgs(roots, words) # {} /\ Len(rebuilt) <= HistoryMax => line = rebuilt
      /\ MaskedArgs(roots, words) # {} /\ Len(rebuilt) > HistoryMax =>
           line = SubSeq(rebuilt, 1, HistoryMax)
  <2>1. ASSUME NEW x \in Nat, NEW y \in Nat PROVE x <= y <=> ~(x > y)
    OBVIOUS
  <2>2. Len(rebuilt) \in Nat /\ HistoryMax \in Nat
    <3>1. masked \in Seq(Seq(Octet))
      <4>1. Seq(1..255) \subseteq Seq(Octet)
        BY TextIsBytes
      <4> QED
        BY ONLY <1>4, <4>1, SeqMonotone
    <3> HIDE DEF masked
    <3> QED
      BY <3>1, RewrittenType, LenProperties, HistoryMaxAssumption
  <2> QED
    BY <2>1, <2>2 DEF HistoryLine
<1> HIDE DEF line, masked
<1>6. Last(log') = History!Stored(line)
  <2> DEFINE kept == History!Stored(line)
  <2>1. /\ Len(Append(older, kept)) = Len(older) + 1
        /\ Append(older, kept)[Len(older) + 1] = kept
    BY LenProperties
  <2> HIDE DEF kept
  <2> QED
    BY <1>3, <2>1 DEF Last, kept
<1>7. Last(log') = line
  <2>1. Len(line) \in Nat /\ SlotSize \in Nat
    BY <1>3, LenProperties, LogAssumption
  <2>2. CASE Len(line) >= SlotSize
    <3>1. Len(History!Stored(line)) = SlotSize - 1 \/ SlotSize = 0
      BY <1>3, <2>1, <2>2 DEF History!Stored
    <3>2. Len(Last(log')) < SlotSize - 1 /\ Len(Last(log')) \in Nat
      <4>1. History!Stored(line) \in Seq(Octet)
        BY <1>3, <2>1, <2>2 DEF History!Stored
      <4> QED
        BY <1>6, <4>1, LenProperties
    <3> QED
      BY <1>6, <2>1, <3>1, <3>2
  <2>3. CASE ~(Len(line) >= SlotSize)
    BY <1>6, <2>3 DEF History!Stored
  <2> QED
    BY <2>2, <2>3
<1>8. CASE MaskedArgs(roots, words) = {}
  BY <1>4, <1>5, <1>7, <1>8 DEF masked
<1>9. CASE MaskedArgs(roots, words) # {}
  <2>1. /\ Capacity \in Nat /\ masked # <<>> /\ Len(masked) <= Capacity
        /\ \A i \in 1..Len(masked) : Quotable(masked[i])
    <3>1. Len(masked) # 0
      BY <1>1, <1>4
    <3>2. Len(masked) = argc /\ Len(words) = argc /\ Len(words) <= Capacity
          /\ \A i \in 1..argc : Quotable(masked[i])
      BY <1>1, <1>2, <1>4
    <3>3. masked # <<>> /\ Len(masked) <= Capacity
      BY ONLY <3>1, <3>2, EmptySeq
    <3> QED
      BY ONLY <3>2, <3>3, CapacityAssumption
  <2>2. /\ rebuilt \in Seq(Octet)
        /\ Tokens(rebuilt, Capacity) = [status |-> "SH_OK", words |-> masked]
    BY <1>4, <2>1, RewrittenRead
  <2> HIDE DEF rebuilt
  <2>3. Len(rebuilt) <= HistoryMax
    <3>1. Len(rebuilt) \in Nat /\ HistoryMax \in Nat
      BY <2>2, LenProperties, HistoryMaxAssumption
    <3> SUFFICES ASSUME Len(rebuilt) > HistoryMax PROVE FALSE
      BY <3>1
    <3>2. line = SubSeq(rebuilt, 1, HistoryMax)
      BY <1>5, <1>9
    <3>3. Len(line) = HistoryMax
      BY <2>2, <3>1, <3>2
    <3>4. Len(line) < HistoryMax
      BY <1>7
    <3> QED
      BY <3>1, <3>3, <3>4
  <2>4. line = rebuilt
    BY <1>5, <1>9, <2>3
  <2> QED
    BY <1>7, <2>2, <2>4 DEF masked
<1> QED
  BY <1>8, <1>9

\* For every tree, masking policy, size of the history and line: a line recorded
\* whole, as typed or rebuilt from its words, is split on recall into the words
\* executed, the hidden ones replaced.
THEOREM SessionRecordedReplays == SessionSpec => RecordedReplays
<1> DEFINE words == Tokens(text, Capacity).words
           line == Last(log')
           Replays == /\ log' # log /\ log' # <<>>
                      /\ Len(line) < HistoryMax /\ Len(line) < SlotSize - 1
                      /\ \A i \in DOMAIN words : Quotable(words[i])
                      => Tokens(line, Capacity).words = MaskedWords(roots, words)
<1>1. SessionInit => LogTyped
  <2>1. <<>> \in Seq(Seq(Octet))
    OBVIOUS
  <2> QED
    BY <2>1 DEF SessionInit, LogTyped
<1>2. SInv /\ LogTyped /\ [SessionNext]_sessionVars => LogTyped'
  BY LogStep
<1>3. SInv /\ LogTyped /\ [SessionNext]_sessionVars => Replays
  <2> SUFFICES ASSUME SInv, LogTyped, [SessionNext]_sessionVars,
                      log' # log, log' # <<>>,
                      Len(line) < HistoryMax, Len(line) < SlotSize - 1,
                      \A i \in DOMAIN words : Quotable(words[i])
               PROVE  Tokens(line, Capacity).words = MaskedWords(roots, words)
    OBVIOUS
  <2>1. phase = "SH_OK" /\ argc > 0 /\ log' = Recorded /\ Recorded # log
    BY LogStep
  <2> HIDE DEF words
  <2> QED
    BY <2>1, RecordedMeansSame DEF words
<1>4. SessionSpec => [][Replays]_sessionVars
  <2> HIDE DEF Replays
  <2> QED
    BY <1>1, <1>2, <1>3, SessionInvariant, PTL DEF SessionSpec
<1> QED
  BY <1>4 DEF RecordedReplays

-----------------------------------------------------------------------------
\* A way down a tree: a command of the table, then a subcommand, and so on.
IsWay(table, path) ==
  /\ path \in Seq(Command) /\ path # <<>> /\ path[1] \in ToSet(table)
  /\ \A k \in 1..(Len(path) - 1) : path[k + 1] \in ToSet(path[k].sub)

\* The table in which the k-th command of the way stands.
TableOf(table, path, k) == IF k = 1 THEN table ELSE path[k - 1].sub

\* Every table on the way down an accepted tree has been checked.
LEMMA TablesChecked ==
  ASSUME NEW table \in Seq(Command), NEW builtins, IsTree(table, builtins),
         NEW path, IsWay(table, path), Len(path) <= MaxDepth
  PROVE  /\ IsTable(table, IF builtins THEN ReservedNames ELSE {})
         /\ \A k \in 1..Len(path) :
              /\ TableOf(table, path, k) \in Seq(Command)
              /\ path[k] \in ToSet(TableOf(table, path, k))
              /\ k # 1 => IsTable(TableOf(table, path, k), {})
<1> DEFINE N == Len(path)
           at == TablesAt(table)
<1>1. /\ N \in Nat \ {0} /\ \A k \in 1..N : path[k] \in Command
      /\ path[1] \in ToSet(table)
      /\ \A k \in 1..(N - 1) : path[k + 1] \in ToSet(path[k].sub)
      /\ MaxDepth \in Nat /\ N <= MaxDepth
  BY MaxDepthAssumption, ElementOfSeq, LenProperties, EmptySeq DEF IsWay
<1>2. /\ at[1] = {table}
      /\ \A d \in 2..(MaxDepth + 1) : at[d] = Subtables(AllOf(at[d - 1]))
  BY TreeLevels, TablesAssumption
<1>3. /\ IsTable(table, IF builtins THEN ReservedNames ELSE {})
      /\ \A d \in 2..MaxDepth : \A t \in at[d] : IsTable(t, {})
  BY DEF IsTree
<1> HIDE DEF at, N
<1> DEFINE T == {k \in Nat : k \in 1..N =>
                   TableOf(table, path, k) \in at[k] /\ path[k] \in ToSet(TableOf(table, path, k))}
<1>4. 0 \in T
  OBVIOUS
<1>5. ASSUME NEW k \in T PROVE k + 1 \in T
  <2> SUFFICES ASSUME k + 1 \in 1..N
               PROVE  /\ TableOf(table, path, k + 1) \in at[k + 1]
                      /\ path[k + 1] \in ToSet(TableOf(table, path, k + 1))
    OBVIOUS
  <2>1. k \in Nat /\ (k + 1) - 1 = k /\ (k + 1 = 1 <=> k = 0)
    <3>1. k \in Nat
      OBVIOUS
    <3> QED
      BY ONLY <3>1
  <2>2. CASE k = 0
    <3>1. k + 1 = 1 /\ TableOf(table, path, k + 1) = table
      BY <2>2 DEF TableOf
    <3> QED
      BY <1>1, <1>2, <3>1
  <2>3. CASE k # 0
    <3>1. k \in 1..N /\ k \in 1..(N - 1) /\ k + 1 \in 2..(MaxDepth + 1)
      BY <1>1, <2>1, <2>3
    <3>2. TableOf(table, path, k + 1) = path[k].sub
      BY <2>1, <2>3 DEF TableOf
    <3>3. /\ TableOf(table, path, k) \in at[k] /\ path[k] \in ToSet(TableOf(table, path, k))
      BY <3>1
    <3>4. path[k] \in AllOf(at[k])
      BY <3>3 DEF AllOf
    <3>5. path[k + 1] \in ToSet(path[k].sub)
      BY <1>1, <3>1
    <3>6. IsParent(path[k])
      <4>1. ToSet(<<>>) = {}
        BY DEF ToSet
      <4> QED
        BY <3>5, <4>1 DEF IsParent
    <3>7. path[k].sub \in at[k + 1]
      <4>1. at[k + 1] = Subtables(AllOf(at[k]))
        BY <1>2, <2>1, <3>1
      <4> QED
        BY <3>4, <3>6, <4>1 DEF Subtables
    <3> QED
      BY <3>2, <3>5, <3>7
  <2> QED
    BY <2>2, <2>3
<1>6. T = Nat
  <2>1. T \in SUBSET Nat
    OBVIOUS
  <2> HIDE DEF T
  <2> QED
    BY <1>4, <1>5, <2>1, InductionOnNat
<1>7. ASSUME NEW k \in 1..N
      PROVE  /\ TableOf(table, path, k) \in Seq(Command)
             /\ path[k] \in ToSet(TableOf(table, path, k))
             /\ k # 1 => IsTable(TableOf(table, path, k), {})
  <2>1. TableOf(table, path, k) \in at[k] /\ path[k] \in ToSet(TableOf(table, path, k))
    BY <1>6
  <2>2. k = 1 \/ (k - 1 \in 1..N /\ k \in 2..MaxDepth)
    BY <1>1
  <2>3. TableOf(table, path, k) \in Seq(Command)
    BY <1>1, <2>2, TablesAssumption DEF TableOf
  <2> QED
    BY <1>3, <2>1, <2>2, <2>3
<1> QED
  BY <1>3, <1>7 DEF N

\* A way goes on at a subcommand of its last command.
LEMMA WayGoesOn ==
  ASSUME NEW table \in Seq(Command), NEW path, IsWay(table, path),
         NEW cmd \in ToSet(Last(path).sub)
  PROVE  IsWay(table, Append(path, cmd)) /\ Len(Append(path, cmd)) = Len(path) + 1
<1> DEFINE N == Len(path)
           longer == Append(path, cmd)
<1>1. /\ N \in Nat /\ N # 0 /\ path \in Seq(Command) /\ \A k \in 1..N : path[k] \in Command
      /\ path[1] \in ToSet(table)
      /\ \A k \in 1..(N - 1) : path[k + 1] \in ToSet(path[k].sub)
  BY ElementOfSeq, LenProperties, EmptySeq DEF IsWay
<1>2. Last(path) = path[N] /\ path[N] \in Command
  BY <1>1 DEF Last
<1>3. cmd \in Command
  <2>1. path[N].sub \in Seq(Command) /\ cmd \in ToSet(path[N].sub)
    BY <1>2, TablesAssumption
  <2> QED
    BY <2>1, ElementOfSeq, LenProperties DEF ToSet
<1>4. /\ longer \in Seq(Command) /\ Len(longer) = N + 1
      /\ \A k \in 1..N : longer[k] = path[k]
      /\ longer[N + 1] = cmd
  BY <1>1, <1>3, AppendProperties
<1> HIDE DEF longer, N
<1>5. longer # <<>> /\ longer[1] \in ToSet(table)
  <2>1. Len(longer) # 0 /\ longer[1] = path[1]
    BY <1>1, <1>4
  <2> QED
    BY <1>1, <2>1, EmptySeq
<1>6. ASSUME NEW k \in 1..(Len(longer) - 1)
      PROVE  longer[k + 1] \in ToSet(longer[k].sub)
  <2>1. k \in 1..N /\ longer[k] = path[k]
    BY <1>1, <1>4
  <2>2. CASE k = N
    BY <1>2, <1>4, <2>1, <2>2
  <2>3. CASE k # N
    <3>1. k \in 1..(N - 1) /\ k + 1 \in 1..N
      BY <1>1, <2>1, <2>3
    <3> QED
      BY <1>1, <1>4, <2>1, <3>1
  <2> QED
    BY <2>2, <2>3
<1> QED
  BY <1>4, <1>5, <1>6 DEF IsWay, longer, N

\* The paths of a tree are the ways down its tables.
LEMMA PathsAreWays ==
  ASSUME NEW tables \in Seq(Seq(Command)), NEW path \in Paths(tables)
  PROVE  /\ Len(path) <= MaxDepth
         /\ \E i \in DOMAIN tables : IsWay(tables[i], path)
<1> DEFINE m == MaxDepth
           Ways == {p \in Seq(Command) : \E i \in DOMAIN tables : IsWay(tables[i], p)}
           S == SUBSET Ways
           short == {<<cmd>> : cmd \in UNION {ToSet(tables[i]) : i \in DOMAIN tables}}
           Longer(paths) == UNION {{Append(p, cmd) : cmd \in ToSet(Last(p).sub)} : p \in paths}
           F == [paths \in S |-> Longer(paths)]
<1>1. m \in Nat \ {0} /\ \A i \in DOMAIN tables : tables[i] \in Seq(Command)
  BY MaxDepthAssumption, ElementOfSeq, LenProperties
<1>2. short \in S
  <2>1. ASSUME NEW i \in DOMAIN tables, NEW cmd \in ToSet(tables[i])
        PROVE  <<cmd>> \in Ways
    <3>1. cmd \in Command
      BY <1>1, ElementOfSeq, LenProperties DEF ToSet
    <3>2. <<cmd>> \in Seq(Command) /\ Len(<<cmd>>) = 1 /\ <<cmd>>[1] = cmd /\ <<cmd>> # <<>>
      BY <3>1
    <3>3. IsWay(tables[i], <<cmd>>)
      BY <3>2 DEF IsWay
    <3> QED
      BY <3>2, <3>3
  <2> HIDE DEF Ways
  <2> QED
    BY <2>1
<1>3. ASSUME NEW paths \in S, NEW q \in Longer(paths)
      PROVE  q \in Ways /\ \E p \in paths : Len(q) = Len(p) + 1
  <2>1. PICK p \in paths : \E cmd \in ToSet(Last(p).sub) : q = Append(p, cmd)
    OBVIOUS
  <2>2. PICK cmd \in ToSet(Last(p).sub) : q = Append(p, cmd)
    BY <2>1
  <2>3. PICK i \in DOMAIN tables : IsWay(tables[i], p)
    OBVIOUS
  <2>4. IsWay(tables[i], q) /\ Len(q) = Len(p) + 1
    BY <1>1, <2>2, <2>3, WayGoesOn
  <2>5. q \in Seq(Command)
    BY <2>4 DEF IsWay
  <2> QED
    BY <2>4, <2>5
<1>4. \A paths \in S : F[paths] \in S
  <2>1. \A paths \in S : \A q \in Longer(paths) : q \in Ways
    BY <1>3
  <2> HIDE DEF Ways, Longer
  <2> QED
    BY <2>1
<1>5. PICK h : Chain(h, short, F, m, S)
  <2> HIDE DEF m, S, F, short
  <2> QED
    BY ONLY <1>1, <1>2, <1>4, RepeatedStep
<1> DEFINE Next1(to, d) == IF d = 1 THEN short ELSE Longer(to[d - 1])
           to == CHOOSE g : g = [d \in 1..m |-> Next1(g, d)]
<1>6. h = [d \in 1..m |-> Next1(h, d)]
  <2>1. ASSUME NEW d \in 1..m PROVE h[d] = Next1(h, d)
    <3>1. d = 1 => h[d] = short
      BY <1>5 DEF Chain
    <3>2. d # 1 => h[d] = F[h[d - 1]] /\ h[d - 1] \in S
      <4>1. d # 1 => d - 1 \in 1..m
        BY <1>1
      <4> HIDE DEF F, S, m, short
      <4> QED
        BY <1>5, <4>1 DEF Chain
    <3> HIDE DEF S, m, short, Longer
    <3> QED
      BY <3>1, <3>2
  <2>2. h = [d \in 1..m |-> h[d]]
    BY <1>5 DEF Chain
  <2> HIDE DEF Next1, m
  <2> QED
    BY ONLY <2>1, <2>2
<1>7. to = [d \in 1..m |-> Next1(to, d)]
  <2> HIDE DEF Next1, m
  <2> QED
    BY ONLY <1>6
<1>8. Paths(tables) = UNION {to[d] : d \in 1..m}
  BY DEF Paths
<1> HIDE DEF to
<1>9. \A d \in 1..m : to[d] = IF d = 1 THEN short ELSE Longer(to[d - 1])
  <2>1. \A d \in 1..m : to[d] = Next1(to, d)
    <3> HIDE DEF Next1, m
    <3> QED
      BY ONLY <1>7
  <2> HIDE DEF m, short, Longer
  <2> QED
    BY <2>1
<1> DEFINE T == {n \in Nat : n \in 1..m => to[n] \in S /\ \A p \in to[n] : Len(p) = n}
<1>10. 0 \in T
  OBVIOUS
<1>11. ASSUME NEW n \in T PROVE n + 1 \in T
  <2> SUFFICES ASSUME n + 1 \in 1..m
               PROVE  to[n + 1] \in S /\ \A p \in to[n + 1] : Len(p) = n + 1
    OBVIOUS
  <2>1. n \in Nat /\ (n + 1) - 1 = n /\ (n + 1 = 1 <=> n = 0)
    <3>1. n \in Nat
      OBVIOUS
    <3> QED
      BY ONLY <3>1
  <2>2. CASE n = 0
    <3>1. to[n + 1] = short
      <4> HIDE DEF short, Longer, S, m
      <4> QED
        BY <1>9, <2>1, <2>2
    <3>2. \A p \in short : Len(p) = 1
      OBVIOUS
    <3> QED
      BY <1>2, <2>2, <3>1, <3>2
  <2>3. CASE n # 0
    <3>1. n \in 1..m
      BY <1>1, <2>1, <2>3
    <3>2. to[n] \in S /\ \A p \in to[n] : Len(p) = n
      BY <3>1
    <3>3. to[n + 1] = Longer(to[n])
      <4> HIDE DEF short, Longer, S, m
      <4> QED
        BY <1>9, <2>1, <2>3
    <3>4. \A q \in Longer(to[n]) : q \in Ways /\ Len(q) = n + 1
      <4>1. \A q \in Longer(to[n]) : q \in Ways /\ \E p \in to[n] : Len(q) = Len(p) + 1
        BY <1>3, <3>2
      <4> HIDE DEF Longer, Ways
      <4> QED
        BY <3>2, <4>1
    <3> HIDE DEF Ways, Longer
    <3> QED
      BY <3>3, <3>4
  <2> QED
    BY <2>2, <2>3
<1>12. T = Nat
  <2>1. T \in SUBSET Nat
    OBVIOUS
  <2> HIDE DEF T
  <2> QED
    BY <1>10, <1>11, <2>1, InductionOnNat
<1>13. PICK d \in 1..m : path \in to[d]
  BY <1>8
<1>14. d \in Nat /\ d <= m
  BY <1>1
<1>15. path \in Ways /\ Len(path) = d
  BY <1>12, <1>13, <1>14
<1> QED
  BY <1>14, <1>15

\* The words of a path, and stars after them: the path is what they resolve to.
LEMMA PathResolved ==
  ASSUME NEW tables \in Seq(Seq(Command)), NEW builtins, AcceptsSets(tables, builtins),
         NEW at \in DOMAIN tables, NEW path, IsWay(tables[at], path), Len(path) <= MaxDepth,
         ~IsParent(Last(path)),
         NEW words, Len(words) \in Nat, Len(words) >= Len(path),
         \A k \in 1..Len(path) : words[k] = path[k].name
  PROVE  ResolvedPath(tables, words) = path
<1> DEFINE N == Len(path)
           root == tables[at]
<1>1. /\ N \in Nat /\ N # 0 /\ path \in Seq(Command)
      /\ \A k \in 1..N : path[k] \in Command
      /\ path = [k \in 1..N |-> path[k]]
      /\ tables[at] \in Seq(Command)
  BY ElementOfSeq, LenProperties, EmptySeq DEF IsWay
<1>2. \A k \in 1..N :
        /\ TableOf(root, path, k) \in Seq(Command)
        /\ path[k] \in ToSet(TableOf(root, path, k))
        /\ k # 1 => IsTable(TableOf(root, path, k), {})
  <2>1. IsTree(root, builtins)
    BY DEF AcceptsSets
  <2> QED
    BY <1>1, <2>1, TablesChecked
<1>3. PICK found :
        /\ \A i \in 1..Len(words) :
             found[i] = IF i = 1 THEN Child(FlattenSeq(tables), words[1])
                        ELSE IF found[i - 1] = <<>> THEN <<>>
                        ELSE Child(found[i - 1][1].sub, words[i])
        /\ found = [i \in 1..Len(words) |-> found[i]]
        /\ ResolvedPath(tables, words) = FlattenSeq(found)
  BY ONLY ResolvedSteps, Len(words) \in Nat
<1> DEFINE M == Len(words)
<1>4. M \in Nat /\ N <= M /\ 1 \in 1..M /\ 1 \in 1..N
  BY <1>1
<1>5. found[1] = <<path[1]>>
  <2>1. FlattenSeq(tables) \in Seq(Command)
    BY ElementsFlattened
  <2>2. ToSet(FlattenSeq(tables)) = UNION {ToSet(tables[i]) : i \in DOMAIN tables}
    BY ElementsFlattened
  <2>3. path[1] \in ToSet(tables[at])
    BY DEF IsWay
  <2>4. \A c \in ToSet(FlattenSeq(tables)) : c.name = path[1].name => c = path[1]
    BY <2>2, <2>3, RootsDistinct
  <2>5. Child(FlattenSeq(tables), path[1].name) = <<path[1]>>
    BY <2>1, <2>2, <2>3, <2>4, ChildFound
  <2>6. words[1] = path[1].name /\ found[1] = Child(FlattenSeq(tables), words[1])
    BY <1>3, <1>4
  <2> QED
    BY <2>5, <2>6
<1>6. ASSUME NEW k \in 2..N PROVE Child(path[k - 1].sub, words[k]) = <<path[k]>>
  <2>1. k \in 1..N /\ k # 1 /\ words[k] = path[k].name
    BY <1>1
  <2> DEFINE t == path[k - 1].sub
  <2>2. t = TableOf(root, path, k)
    BY <2>1 DEF TableOf
  <2>3. t \in Seq(Command) /\ path[k] \in ToSet(t) /\ IsTable(t, {})
    BY <1>2, <2>1, <2>2
  <2> HIDE DEF t
  <2>4. \A c \in ToSet(t) : c.name = path[k].name => c = path[k]
    BY <2>3 DEF IsTable, ToSet
  <2>5. Child(t, path[k].name) = <<path[k]>>
    BY <2>3, <2>4, ChildFound
  <2> QED
    BY <2>1, <2>5 DEF t
<1>7. path[N].sub = <<>>
  BY <1>1 DEF Last, IsParent
<1> HIDE DEF N, M, root
<1> DEFINE T == {n \in Nat : n \in 1..M => found[n] = IF n <= N THEN <<path[n]>> ELSE <<>>}
<1>8. 0 \in T
  OBVIOUS
<1>9. ASSUME NEW n \in T PROVE n + 1 \in T
  <2> SUFFICES ASSUME n + 1 \in 1..M
               PROVE  found[n + 1] = IF n + 1 <= N THEN <<path[n + 1]>> ELSE <<>>
    OBVIOUS
  <2>1. n \in Nat /\ (n + 1) - 1 = n /\ (n + 1 = 1 <=> n = 0)
    <3>1. n \in Nat
      OBVIOUS
    <3> QED
      BY ONLY <3>1
  <2>2. CASE n = 0
    <3>1. n + 1 = 1 /\ n + 1 <= N
      BY <1>4, <2>2
    <3> QED
      BY <1>5, <3>1
  <2>3. CASE n # 0
    <3>1. n \in 1..M
      BY <1>4, <2>1, <2>3
    <3>2. found[n + 1] = IF found[n] = <<>> THEN <<>> ELSE Child(found[n][1].sub, words[n + 1])
      BY <1>3, <2>1, <2>3 DEF M
    <3>3. found[n] = IF n <= N THEN <<path[n]>> ELSE <<>>
      BY <3>1
    <3>4. CASE n + 1 <= N
      <4>1. n <= N /\ n + 1 \in 2..N
        BY <1>1, <2>1, <2>3, <3>4 DEF N
      <4>2. found[n + 1] = Child(path[n].sub, words[n + 1])
        BY <3>2, <3>3, <4>1
      <4>3. Child(path[n].sub, words[n + 1]) = <<path[n + 1]>>
        BY <1>6, <2>1, <4>1
      <4> QED
        BY <3>4, <4>2, <4>3
    <3>5. CASE n = N
      <4>1. n <= N /\ ~(n + 1 <= N)
        BY <2>1, <3>5
      <4>2. found[n + 1] = Child(<<>>, words[n + 1])
        BY <1>7, <3>2, <3>3, <3>5, <4>1
      <4> QED
        BY <4>1, <4>2, NoChild
    <3>6. CASE ~(n <= N)
      <4>1. ~(n + 1 <= N)
        BY <1>1, <2>1, <3>6 DEF N
      <4> QED
        BY <3>2, <3>3, <3>6, <4>1
    <3>7. n + 1 <= N \/ n = N \/ ~(n <= N)
      BY <1>1, <2>1 DEF N
    <3> QED
      BY <3>4, <3>5, <3>6, <3>7
  <2> QED
    BY <2>2, <2>3
<1>10. T = Nat
  <2>1. T \in SUBSET Nat
    OBVIOUS
  <2> HIDE DEF T
  <2> QED
    BY <1>8, <1>9, <2>1, InductionOnNat
<1>11. \A n \in 1..M : found[n] = IF n <= N THEN <<path[n]>> ELSE <<>>
  <2>1. 1..M \subseteq Nat
    OBVIOUS
  <2> QED
    BY <1>10, <2>1
<1> HIDE DEF T
<1>12. FlattenSeq(found) = path
  <2>1. found \in Seq(Seq(Command)) /\ Len(found) = M /\ Len(found) # 0
    <3>1. \A n \in 1..M : found[n] \in Seq(Command)
      <4> SUFFICES ASSUME NEW n \in 1..M PROVE found[n] \in Seq(Command)
        OBVIOUS
      <4>1. n <= N => path[n] \in Command
        BY <1>1 DEF N
      <4>2. \A cmd \in Command : <<cmd>> \in Seq(Command)
        OBVIOUS
      <4>3. <<>> \in Seq(Command)
        OBVIOUS
      <4>4. found[n] = IF n <= N THEN <<path[n]>> ELSE <<>>
        BY <1>11
      <4> QED
        BY ONLY <4>1, <4>2, <4>3, <4>4
    <3>2. found = [n \in 1..M |-> found[n]]
      BY <1>3 DEF M
    <3>3. found \in Seq(Seq(Command)) /\ Len(found) = M
      BY ONLY <1>4, <3>1, <3>2, SequenceOf
    <3>4. M # 0
      BY <1>1, <1>4
    <3> QED
      BY ONLY <3>3, <3>4
  <2>2. PICK flat :
           /\ \A n \in 1..M :
                /\ flat[n] \in Seq(Command)
                /\ flat[n] = IF n = 1 THEN found[n] ELSE flat[n - 1] \o found[n]
           /\ FlattenSeq(found) = flat[M]
    BY <2>1, FlattenSteps, ZenonT(40)
  <2> DEFINE upto(n) == IF n <= N THEN SubSeq(path, 1, n) ELSE path
             U == {n \in Nat : n \in 1..M => flat[n] = upto(n)}
  <2>3. 0 \in U
    OBVIOUS
  <2>4. ASSUME NEW n \in U PROVE n + 1 \in U
    <3> SUFFICES ASSUME n + 1 \in 1..M PROVE flat[n + 1] = upto(n + 1)
      OBVIOUS
    <3>1. n \in Nat /\ (n + 1) - 1 = n /\ (n + 1 = 1 <=> n = 0)
      <4>1. n \in Nat
        OBVIOUS
      <4> QED
        BY ONLY <4>1
    <3>2. CASE n = 0
      <4>1. n + 1 = 1 /\ 1 <= N
        BY <1>4, <3>2
      <4>2. flat[n + 1] = <<path[1]>>
        BY <1>4, <1>5, <2>2, <4>1
      <4>3. SubSeq(path, 1, 1) = <<path[1]>>
        <5>1. path \in Seq(Command) /\ Len(path) # 0
          BY <1>1 DEF N
        <5> QED
          BY ONLY <5>1, FirstAlone
      <4> QED
        BY <4>1, <4>2, <4>3
    <3>3. CASE n # 0
      <4>1. n \in 1..M /\ n + 1 \in 1..M
        BY <1>4, <3>1, <3>3
      <4>2. flat[n] = upto(n)
        BY <4>1
      <4>3. flat[n + 1] = upto(n) \o found[n + 1]
        BY <2>2, <3>1, <3>3, <4>1, <4>2
      <4>4. CASE n + 1 <= N
        <5>1. n <= N /\ n \in 1..N /\ n + 1 \in 1..N
          BY <1>1, <3>1, <3>3, <4>4 DEF N
        <5>2. upto(n) = SubSeq(path, 1, n) /\ upto(n + 1) = SubSeq(path, 1, n + 1)
          BY <4>4, <5>1
        <5>3. found[n + 1] = <<path[n + 1]>>
          BY <1>11, <4>1, <4>4
        <5>4. SubSeq(path, 1, n) \o <<path[n + 1]>> = SubSeq(path, 1, n + 1)
          <6>1. /\ path \in Seq(Command) /\ n + 1 \in 1..Len(path) /\ 1 \in 1..Len(path)
                /\ n + 1 \in 1..Len(path) /\ (n + 1) - 1 = n
            BY <1>1, <1>4, <3>1, <5>1 DEF N
          <6> QED
            BY ONLY <6>1, SubSeqRecursiveSecond
        <5> QED
          BY <4>3, <5>2, <5>3, <5>4
      <4>5. CASE ~(n + 1 <= N)
        <5>1. found[n + 1] = <<>> /\ upto(n + 1) = path
          BY <1>11, <4>1, <4>5
        <5>2. n = N \/ ~(n <= N)
          BY <1>1, <3>1, <4>5 DEF N
        <5>3. SubSeq(path, 1, N) = path
          BY <1>1 DEF N
        <5>4. upto(n) = path
          BY <5>2, <5>3
        <5>5. path \o <<>> = path
          BY <1>1
        <5> QED
          BY <4>3, <5>1, <5>4, <5>5
      <4> QED
        BY <4>4, <4>5
    <3> QED
      BY <3>2, <3>3
  <2>5. U = Nat
    <3>1. U \in SUBSET Nat
      OBVIOUS
    <3> HIDE DEF U
    <3> QED
      BY <2>3, <2>4, <3>1, InductionOnNat
  <2>6. flat[M] = upto(M)
    BY <1>4, <2>5
  <2>7. upto(M) = path
    <3>1. SubSeq(path, 1, N) = path
      BY <1>1 DEF N
    <3>2. M = N \/ ~(M <= N)
      BY <1>1, <1>4 DEF N
    <3> QED
      BY <3>1, <3>2
  <2> QED
    BY <2>2, <2>6, <2>7
<1> QED
  BY <1>3, <1>12

\* What is typed to run a command: the path to it and the arguments it asks for.
TypedFor(path) ==
  [i \in DOMAIN path |-> path[i].name] \o [i \in 1..(Last(path).min - 1) |-> <<Star>>]

\* A leaf of accepted tables is run by its path.
LEMMA LeafDispatched ==
  ASSUME NEW tables \in Seq(Seq(Command)), NEW builtins \in BOOLEAN,
         AcceptsSets(tables, builtins),
         NEW at \in DOMAIN tables, NEW path, IsWay(tables[at], path), Len(path) <= MaxDepth,
         Last(path).handler, ~IsParent(Last(path))
  PROVE  Dispatch(tables, builtins, TypedFor(path)) = Run(path)
<1> DEFINE N == Len(path)
           cmd == Last(path)
           root == tables[at]
           names == [i \in 1..N |-> path[i].name]
           stars == [i \in 1..(cmd.min - 1) |-> <<Star>>]
           words == names \o stars
           S == {path[i].name : i \in 1..N} \cup {<<Star>>}
<1>1. /\ N \in Nat /\ N # 0 /\ path \in Seq(Command) /\ DOMAIN path = 1..N
      /\ path # <<>> /\ root \in Seq(Command)
  BY ElementOfSeq, LenProperties, EmptySeq DEF IsWay
<1>2. /\ IsTable(root, IF builtins THEN ReservedNames ELSE {})
      /\ path[N] \in ToSet(TableOf(root, path, N))
      /\ N # 1 => IsTable(TableOf(root, path, N), {})
  <2>1. IsTree(root, builtins)
    BY DEF AcceptsSets
  <2>2. N \in 1..Len(path)
    BY <1>1
  <2> QED
    BY <1>1, <2>1, <2>2, TablesChecked
<1>3. cmd = path[N] /\ cmd \in Command /\ cmd.min \in Nat /\ cmd.max \in Nat
  <2>1. path[N] \in Command
    BY <1>1, ElementOfSeq
  <2> QED
    BY <2>1, TablesAssumption DEF Last
<1>4. cmd.min >= 1 /\ cmd.min <= cmd.max
  <2>1. \E reserved : IsTable(TableOf(root, path, N), reserved)
    BY <1>2 DEF TableOf
  <2> QED
    BY <1>2, <1>3, <2>1 DEF IsTable, ToSet
<1>5. /\ names \in Seq(S) /\ Len(names) = N /\ \A i \in 1..N : names[i] = path[i].name
      /\ stars \in Seq(S) /\ Len(stars) = cmd.min - 1
      /\ \A i \in 1..(cmd.min - 1) : stars[i] = <<Star>>
  <2>1. \A i \in 1..N : path[i].name \in S
    OBVIOUS
  <2>2. <<Star>> \in S
    OBVIOUS
  <2> HIDE DEF S
  <2>3. names \in Seq(S) /\ Len(names) = N
    BY <1>1, <2>1, IsASeq
  <2>4. stars \in Seq(S) /\ Len(stars) = cmd.min - 1
    <3> DEFINE n == cmd.min - 1
    <3>1. n \in Nat
      BY <1>3, <1>4
    <3> HIDE DEF n
    <3>2. [i \in 1..n |-> <<Star>>] \in Seq(S) /\ Len([i \in 1..n |-> <<Star>>]) = n
      BY ONLY <2>2, <3>1, IsASeq
    <3> QED
      BY ONLY <3>2 DEF n
  <2> QED
    BY <2>3, <2>4
<1>6. TypedFor(path) = words
  BY <1>1 DEF TypedFor
<1> HIDE DEF names, stars, cmd, S, N
<1>7. /\ words \in Seq(S) /\ Len(words) = N + (cmd.min - 1)
      /\ \A i \in 1..N : words[i] = path[i].name
      /\ \A i \in 1..(cmd.min - 1) : words[N + i] = <<Star>>
  <2>1. words \in Seq(S) /\ Len(words) = Len(names) + Len(stars)
    BY <1>5, ConcatProperties
  <2>2. /\ \A i \in 1..Len(names) : words[i] = names[i]
        /\ \A i \in 1..Len(stars) : words[Len(names) + i] = stars[i]
    <3>1. names \in Seq(S) /\ stars \in Seq(S)
      BY <1>5
    <3> QED
      BY ONLY <3>1
  <2> QED
    BY ONLY <1>5, <2>1, <2>2
<1> HIDE DEF words
<1>8. /\ N \in Nat /\ N # 0 /\ cmd.min \in Nat /\ cmd.max \in Nat /\ cmd.min >= 1
       /\ cmd.min <= cmd.max /\ Len(words) = N + (cmd.min - 1)
  BY <1>1, <1>3, <1>4, <1>7
<1>9. ResolvedPath(tables, words) = path
  <2>1. Len(words) \in Nat /\ Len(words) >= N
    BY ONLY <1>8
  <2> QED
    BY <1>7, <2>1, PathResolved DEF N
<1>10. words # <<>> /\ words[1] = path[1].name
  <2>1. Len(words) # 0 /\ 1 \in 1..N
    BY ONLY <1>8
  <2> QED
    BY <1>7, <2>1, EmptySeq
<1>11. builtins => words[1] \notin ReservedNames
  BY <1>2, <1>10 DEF IsTable, IsWay, ToSet
<1>12. N < Len(words) => words[N + 1] \notin HelpWords
  <2> SUFFICES ASSUME N < Len(words) PROVE words[N + 1] = <<Star>>
    BY WordAssumption
  <2>1. 1 \in 1..(cmd.min - 1)
    BY ONLY <1>8, N < Len(words)
  <2> QED
    BY ONLY <1>7, <2>1
<1>13. Len(words) - N + 1 = cmd.min /\ ~(cmd.min < cmd.min) /\ ~(cmd.min > cmd.max)
  BY ONLY <1>8
<1>14. Application(tables, words) = Run(path)
  <2>1. cmd = Last(path) /\ cmd.handler /\ ~IsParent(cmd)
    BY DEF cmd
  <2> QED
    BY <1>1, <1>9, <1>12, <1>13, <2>1 DEF Application, N
<1>15. Dispatch(tables, builtins, words) = Application(tables, words)
  BY <1>10, <1>11 DEF Dispatch, ReservedNames
<1> QED
  BY <1>6, <1>14, <1>15

\* The tables were accepted, or none were registered.
Registered ==
  /\ cfg.builtins \in BOOLEAN
  /\ roots \in Seq(Seq(Command)) /\ AcceptsSets(roots, cfg.builtins)

LEMMA StepRegistered == Registered /\ [SessionNext]_sessionVars => Registered'
<1> SUFFICES ASSUME Registered, [SessionNext]_sessionVars PROVE Registered'
  OBVIOUS
<1>1. ASSUME UNCHANGED <<cfg, roots>> PROVE Registered'
  BY <1>1 DEF Registered
<1>2. CASE \E tables \in Tables : Register(tables)
  <2>1. PICK tables \in Tables : Register(tables)
    BY <1>2
  <2>2. UNCHANGED cfg /\ roots' = IF AcceptsSets(tables, cfg.builtins) THEN tables ELSE roots
    BY <2>1 DEF Register
  <2>3. tables \in Seq(Seq(Command))
    BY TablesAssumption
  <2> QED
    BY <2>2, <2>3 DEF Registered
<1>3. CASE ExecuteLine \/ Scan \/ NothingToDo \/ \E st \in HandlerStatus : HandlerReturns(st)
  BY <1>1, <1>3 DEF ExecuteLine, Scan, NothingToDo, HandlerReturns, commandVars
<1>4. CASE DispatchLine
  BY <1>1, <1>4 DEF DispatchLine
<1>5. CASE (\E words \in Vector : ExecuteArgv(words)) \/ ForwardArguments
  BY <1>1, <1>5 DEF ExecuteArgv, ForwardArguments, DispatchVector
<1>6. CASE UNCHANGED sessionVars
  BY <1>1, <1>6 DEF sessionVars, commandVars
<1>7. \/ \E tables \in Tables : Register(tables)
      \/ ExecuteLine \/ Scan \/ NothingToDo \/ (\E st \in HandlerStatus : HandlerReturns(st))
      \/ DispatchLine
      \/ (\E words \in Vector : ExecuteArgv(words)) \/ ForwardArguments
      \/ UNCHANGED sessionVars
  BY ONLY [SessionNext]_sessionVars DEF SessionNext
<1> QED
  BY ONLY <1>2, <1>3, <1>4, <1>5, <1>6, <1>7

\* In every session, over tables of every depth and size, and whatever tables were
\* refused before or since, a leaf command with a handler runs when its path is
\* typed with the arguments it asks for.
THEOREM SessionEveryLeafReachable == SessionSpec => []EveryLeafReachable
<1>1. SessionInit => Registered
  <2> SUFFICES ASSUME SessionInit PROVE Registered
    OBVIOUS
  <2>1. roots = <<>> /\ cfg.builtins \in BOOLEAN
    BY DEF SessionInit
  <2>2. <<>> \in Seq(Seq(Command)) /\ DOMAIN <<>> = {}
    OBVIOUS
  <2> QED
    BY <2>1, <2>2 DEF Registered, AcceptsSets
<1>2. ASSUME Registered PROVE EveryLeafReachable
  <2> SUFFICES ASSUME NEW path \in Paths(roots), Last(path).handler, ~IsParent(Last(path))
               PROVE  Dispatch(roots, cfg.builtins, TypedFor(path)) = Run(path)
    BY DEF EveryLeafReachable, TypedFor
  <2>1. Len(path) <= MaxDepth /\ \E i \in DOMAIN roots : IsWay(roots[i], path)
    BY <1>2, PathsAreWays DEF Registered
  <2> QED
    BY <1>2, <2>1, LeafDispatched DEF Registered
<1> QED
  BY <1>1, <1>2, StepRegistered, PTL DEF SessionSpec

-----------------------------------------------------------------------------
\* In a line that the echo follows the readers go through the line together.
LEMMA ReadersTogether ==
  ASSUME NEW line \in Seq(1..255), IsFollowed(line)
  PROVE  /\ \A n \in 1..Len(line) :
              LET s == Readings(line, Capacity)[n - 1]
                  t == Readings(line, Capacity)[n]
              IN /\ s \in Reader /\ t \in Reader
                 /\ ~t.open <=> IsSpace(line[n]) /\ RawReadings(line)[n - 1] = RawStart
                 /\ t.open => t.words = s.words
                 /\ ~t.open /\ s.open => Len(t.words) = Len(s.words) + 1
                 /\ ~t.open /\ ~s.open => t.words = s.words
         /\ Settled(Reading(line, Capacity))
         /\ UnmatchedQuote(line) = Reading(line, Capacity).quote
<1> DEFINE N == Len(line)
           r == Readings(line, Capacity)
           raw == RawReadings(line)
<1>1. N \in Nat /\ \A n \in 1..N : line[n] \in 1..255
  BY ElementOfSeq, LenProperties
<1>2. /\ r \in [0..N -> Reader] /\ r[0] = Unread
      /\ \A n \in 1..N : r[n] = Reads(r[n - 1], line[n], Capacity)
  <2>1. \A n \in 1..Len(line) : line[n] \in Octet
    BY <1>1 DEF Octet
  <2> QED
    BY <1>1, <2>1, ReadingsDef
<1>3. /\ raw \in [0..N -> RawReader] /\ raw[0] = RawStart
      /\ \A n \in 1..N : raw[n] = RawByte(raw[n - 1], line[n])
  BY <1>1, RawReadingsDef
<1>4. \A n \in 0..N : ~r[n].full
  <2>1. ~Reading(line, Capacity).full
    BY DEF IsFollowed, Reading
  <2> QED
    BY <1>1, <2>1, FullForGood
<1>5. \A n \in 1..N : line[n] = Backslash => r[n - 1].quote # SingleQuote
  BY <1>1, LenProperties DEF IsFollowed
<1> HIDE DEF r, raw, N
<1> DEFINE Stepped(s, t, n) == /\ s \in Reader /\ t \in Reader
                               /\ ~t.open <=> IsSpace(line[n]) /\ raw[n - 1] = RawStart
                               /\ t.open => t.words = s.words
                               /\ ~t.open /\ s.open => Len(t.words) = Len(s.words) + 1
                               /\ ~t.open /\ ~s.open => t.words = s.words
           Same(n) == Settled(r[n]) /\ SameReading(r[n], raw[n])
<1>6. ASSUME NEW n \in 1..N, Same(n - 1)
      PROVE  Same(n) /\ Stepped(r[n - 1], r[n], n)
  <2> DEFINE s == r[n - 1]
             old == raw[n - 1]
             byte == line[n]
  <2>1. /\ s \in Reader /\ old \in RawReader /\ byte \in 1..255
        /\ Settled(s) /\ SameReading(s, old)
        /\ byte = Backslash => s.quote # SingleQuote
        /\ ~Reads(s, byte, Capacity).full /\ r[n] \in Reader
        /\ r[n] = Reads(s, byte, Capacity) /\ raw[n] = RawByte(old, byte)
    <3>1. n - 1 \in 0..N /\ n \in 0..N
      BY <1>1
    <3> QED
      BY <1>1, <1>2, <1>3, <1>4, <1>5, <1>6, <3>1
  <2> HIDE DEF s, old, byte
  <2>2. Together(s, Reads(s, byte, Capacity), old, byte)
    BY ONLY <2>1, ReadTogether
  <2>3. /\ Settled(r[n]) /\ SameReading(r[n], raw[n])
        /\ ~r[n].open <=> IsSpace(byte) /\ old = RawStart
        /\ r[n].open => r[n].words = s.words
        /\ ~r[n].open /\ s.open => Len(r[n].words) = Len(s.words) + 1
        /\ ~r[n].open /\ ~s.open => r[n].words = s.words
    BY ONLY <2>1, <2>2 DEF Together
  <2> QED
    BY <2>1, <2>3 DEF s, old, byte
<1>7. Same(0)
  BY <1>2, <1>3 DEF Settled, SameReading, Unread, RawStart
<1> HIDE DEF Same, Stepped
<1> DEFINE T == {n \in Nat : n <= N => Same(n)}
<1>8. 0 \in T
  BY <1>7
<1>9. ASSUME NEW n \in T PROVE n + 1 \in T
  <2> SUFFICES ASSUME n + 1 <= N PROVE Same(n + 1)
    OBVIOUS
  <2>1. n + 1 \in 1..N /\ (n + 1) - 1 = n /\ Same(n)
    BY <1>1
  <2> QED
    BY <1>6, <2>1
<1>10. T = Nat
  <2>1. T \in SUBSET Nat
    OBVIOUS
  <2> HIDE DEF T
  <2> QED
    BY <1>8, <1>9, <2>1, InductionOnNat
<1>11. \A n \in 1..N : Stepped(r[n - 1], r[n], n)
  <2> SUFFICES ASSUME NEW n \in 1..N PROVE Stepped(r[n - 1], r[n], n)
    OBVIOUS
  <2>1. n - 1 \in Nat /\ n - 1 <= N
    BY <1>1
  <2> QED
    BY <1>6, <1>10, <2>1
<1>12. Same(N)
  BY <1>1, <1>10
<1>13. Settled(Reading(line, Capacity)) /\ UnmatchedQuote(line) = Reading(line, Capacity).quote
  BY <1>12 DEF Same, SameReading, Reading, UnmatchedQuote, r, raw, N
<1> QED
  BY <1>11, <1>13 DEF Stepped, r, raw, N

\* There are no more words in a line than bytes: read with a place for each of them,
\* it says the same.
LEMMA RoomForAll ==
  ASSUME NEW line \in Seq(1..255), IsFollowed(line)
  PROVE  \A n \in 0..Len(line) : Readings(line, Len(line))[n] = Readings(line, Capacity)[n]
<1> DEFINE N == Len(line)
           r == Readings(line, Capacity)
           w == Readings(line, Len(line))
<1>1. N \in Nat /\ \A n \in 1..N : line[n] \in Octet
  <2>1. \A n \in 1..Len(line) : line[n] \in 1..255
    BY ElementOfSeq
  <2> QED
    BY <2>1, LenProperties DEF Octet
<1>2. /\ r[0] = Unread /\ \A n \in 1..N : r[n] = Reads(r[n - 1], line[n], Capacity)
      /\ w[0] = Unread /\ \A n \in 1..N : w[n] = Reads(w[n - 1], line[n], N)
  BY <1>1, ReadingsDef
<1>3. \A n \in 1..N :
        /\ r[n - 1] \in Reader /\ r[n] \in Reader
        /\ r[n].open => r[n].words = r[n - 1].words
        /\ ~r[n].open /\ r[n - 1].open => Len(r[n].words) = Len(r[n - 1].words) + 1
        /\ ~r[n].open /\ ~r[n - 1].open => r[n].words = r[n - 1].words
  BY ReadersTogether
<1>4. \A n \in 1..N : ~r[n].full
  <2>1. ~Reading(line, Capacity).full
    BY DEF IsFollowed, Reading
  <2> QED
    BY <1>1, <2>1, FullForGood
<1> HIDE DEF r, w, N
<1> DEFINE Few(state, n) == Len(state.words) <= n /\ (state.open => Len(state.words) < n)
           Same(n) == w[n] = r[n] /\ Few(r[n], n)
<1>5. Same(0)
  BY <1>2 DEF Unread
<1>6. ASSUME NEW n \in Nat, n + 1 <= N, Same(n) PROVE Same(n + 1)
  <2> DEFINE s == r[n]
             t == r[n + 1]
             byte == line[n + 1]
  <2>1. n + 1 \in 1..N /\ (n + 1) - 1 = n /\ w[n] = s /\ Few(s, n)
    BY <1>1, <1>6
  <2>2. /\ s \in Reader /\ t \in Reader
        /\ t.open => t.words = s.words
        /\ ~t.open /\ s.open => Len(t.words) = Len(s.words) + 1
        /\ ~t.open /\ ~s.open => t.words = s.words
        /\ t = Reads(s, byte, Capacity) /\ w[n + 1] = Reads(s, byte, N) /\ ~t.full
    BY <1>2, <1>3, <1>4, <2>1
  <2>3. Len(s.words) \in Nat /\ Len(t.words) \in Nat
    BY <2>2, LenProperties DEF Reader
  <2> HIDE DEF s, t, byte
  <2>4. s.open \/ Len(s.words) # N
    BY <1>1, <2>1, <2>3
  <2>5. Few(t, n + 1)
    <3>1. CASE t.open /\ s.open
      BY ONLY <2>1, <2>2, <2>3, <3>1, n \in Nat
    <3>2. CASE t.open /\ ~s.open
      BY ONLY <2>1, <2>2, <2>3, <3>2, n \in Nat
    <3>3. CASE ~t.open /\ s.open
      BY ONLY <2>1, <2>2, <2>3, <3>3, n \in Nat
    <3>4. CASE ~t.open /\ ~s.open
      BY ONLY <2>1, <2>2, <2>3, <3>4, n \in Nat
    <3> QED
      BY <3>1, <3>2, <3>3, <3>4
  <2>6. Reads(s, byte, N) = Reads(s, byte, Capacity)
    <3>1. CASE s.full \/ (~s.open /\ IsSpace(byte))
      BY <3>1 DEF Reads
    <3>2. CASE ~(s.full \/ (~s.open /\ IsSpace(byte)))
      <4>1. ~(~s.open /\ Len(s.words) = Capacity)
        BY <2>2, <3>2 DEF Reads, Reader
      <4> QED
        BY <2>4, <3>2, <4>1 DEF Reads
    <3> QED
      BY <3>1, <3>2
  <2> HIDE DEF Few
  <2> QED
    BY <2>2, <2>5, <2>6 DEF t
<1> HIDE DEF Same
<1> DEFINE T == {n \in Nat : n <= N => Same(n)}
<1>7. 0 \in T
  BY <1>5
<1>8. ASSUME NEW n \in T PROVE n + 1 \in T
  <2> SUFFICES ASSUME n + 1 <= N PROVE Same(n + 1)
    OBVIOUS
  <2>1. n \in Nat /\ n <= N /\ Same(n)
    BY <1>1
  <2> QED
    BY <1>6, <2>1
<1>9. T = Nat
  <2>1. T \in SUBSET Nat
    OBVIOUS
  <2> HIDE DEF T
  <2> QED
    BY <1>7, <1>8, <2>1, InductionOnNat
<1>10. ASSUME NEW n \in 0..N PROVE Same(n)
  <2>1. n \in Nat /\ n <= N
    BY <1>1
  <2> QED
    BY <1>9, <2>1
<1> QED
  BY <1>10 DEF Same, r, w, N

\* The places the echo takes for a word are those of the word.
LEMMA SpansAreWords ==
  ASSUME NEW line \in Seq(1..255), IsFollowed(line), NEW index \in Int
  PROVE  RawTokenSpan(line, index) = WordPlaces(line, index)
<1> DEFINE N == Len(line)
           r == Readings(line, Capacity)
           gap(p) == IsSpace(line[p]) /\ RawReadings(line)[p - 1] = RawStart
           starts == {p \in 1..N : ~gap(p) /\ (p = 1 \/ gap(p - 1))}
           upto(n) == {s \in starts : s <= n}
           begun(n) == Len(r[n].words) + (IF r[n].open THEN 1 ELSE 0)
<1>1. N \in Nat /\ DOMAIN line = 1..N
  BY LenProperties
<1>2. \A n \in 1..N :
        /\ r[n - 1] \in Reader /\ r[n] \in Reader
        /\ ~r[n].open <=> gap(n)
        /\ r[n].open => r[n].words = r[n - 1].words
        /\ ~r[n].open /\ r[n - 1].open => Len(r[n].words) = Len(r[n - 1].words) + 1
        /\ ~r[n].open /\ ~r[n - 1].open => r[n].words = r[n - 1].words
  BY ReadersTogether
<1>3. r[0] = Unread
  <2>1. \A n \in 1..N : line[n] \in Octet
    BY ElementOfSeq DEF Octet
  <2> QED
    BY <1>1, <2>1, ReadingsDef
<1> HIDE DEF r, gap, N
<1>4. \A n \in 1..N : n \in starts <=> r[n].open /\ ~r[n - 1].open
  <2> SUFFICES ASSUME NEW n \in 1..N PROVE n \in starts <=> r[n].open /\ ~r[n - 1].open
    OBVIOUS
  <2>1. CASE n = 1
    BY <1>2, <1>3, <2>1 DEF Unread
  <2>2. CASE n # 1
    <3>1. n - 1 \in 1..N
      BY <1>1, <2>2
    <3> QED
      BY <1>2, <2>2, <3>1
  <2> QED
    BY <2>1, <2>2
<1>5. starts \subseteq 1..N
  OBVIOUS
<1> HIDE DEF starts
<1> DEFINE Counted(n) == n <= N => IsFiniteSet(upto(n)) /\ Cardinality(upto(n)) = begun(n)
<1>6. Counted(0)
  <2>1. \A s \in starts : ~(s <= 0)
    BY <1>5
  <2>2. upto(0) = {}
    BY <2>1
  <2>3. begun(0) = 0
    BY <1>3 DEF Unread
  <2> HIDE DEF upto, begun
  <2> QED
    BY <2>2, <2>3, FS_EmptySet
<1>7. ASSUME NEW n \in Nat, Counted(n) PROVE Counted(n + 1)
  <2> SUFFICES ASSUME n + 1 <= N
               PROVE  IsFiniteSet(upto(n + 1)) /\ Cardinality(upto(n + 1)) = begun(n + 1)
    OBVIOUS
  <2>1. n + 1 \in 1..N /\ (n + 1) - 1 = n /\ n <= N
    BY <1>1
  <2> DEFINE s == r[n]
             t == r[n + 1]
  <2>2. /\ s \in Reader /\ t \in Reader
        /\ t.open => t.words = s.words
        /\ ~t.open /\ s.open => Len(t.words) = Len(s.words) + 1
        /\ ~t.open /\ ~s.open => t.words = s.words
        /\ n + 1 \in starts <=> t.open /\ ~s.open
    BY <1>2, <1>4, <2>1
  <2>3. upto(n + 1) = IF n + 1 \in starts THEN upto(n) \cup {n + 1} ELSE upto(n)
    <3>1. \A x \in starts : x <= n + 1 <=> x <= n \/ x = n + 1
      BY <1>1, <1>5
    <3> QED
      BY ONLY <3>1
  <2>4. n + 1 \notin upto(n)
    OBVIOUS
  <2>5. Len(s.words) \in Nat /\ Len(t.words) \in Nat
    BY <2>2, LenProperties DEF Reader
  <2>6. /\ begun(n) = Len(s.words) + (IF s.open THEN 1 ELSE 0)
        /\ begun(n + 1) = Len(t.words) + (IF t.open THEN 1 ELSE 0)
    OBVIOUS
  <2>9. IsFiniteSet(upto(n)) /\ Cardinality(upto(n)) = begun(n)
    BY <1>7, <2>1
  <2> HIDE DEF upto, begun, s, t, Counted
  <2>7. CASE t.open /\ ~s.open
    <3>1. IsFiniteSet(upto(n) \cup {n + 1})
          /\ Cardinality(upto(n) \cup {n + 1}) = Cardinality(upto(n)) + 1
      BY ONLY <2>4, <2>9, FS_AddElement
    <3>2. begun(n + 1) = begun(n) + 1
      BY ONLY <2>2, <2>5, <2>6, <2>7
    <3> QED
      BY ONLY <2>9, <2>2, <2>3, <2>7, <3>1, <3>2
  <2>8. CASE ~(t.open /\ ~s.open)
    <3>1. begun(n + 1) = begun(n)
      <4>1. CASE t.open
        BY ONLY <2>2, <2>6, <2>8, <4>1
      <4>2. CASE ~t.open /\ s.open
        BY ONLY <2>2, <2>5, <2>6, <4>2
      <4>3. CASE ~t.open /\ ~s.open
        BY ONLY <2>2, <2>6, <4>3
      <4> QED
        BY ONLY <4>1, <4>2, <4>3
    <3> QED
      BY ONLY <2>2, <2>3, <2>8, <2>9, <3>1
  <2> QED
    BY ONLY <2>7, <2>8
<1>8. \A n \in Nat : Counted(n)
  <2> DEFINE T == {n \in Nat : Counted(n)}
  <2> HIDE DEF Counted
  <2>1. 0 \in T /\ \A n \in T : n + 1 \in T
    BY <1>6, <1>7
  <2>2. T \in SUBSET Nat
    OBVIOUS
  <2>3. T = Nat
    <3> HIDE DEF T
    <3> QED
      BY <2>1, <2>2, InductionOnNat
  <2> QED
    BY <2>3
<1>9. ASSUME NEW p \in 1..N
      PROVE  ~gap(p) /\ Cardinality(upto(p)) = index <=> r[p].open /\ Len(r[p].words) = index - 1
  <2>1. Cardinality(upto(p)) = begun(p)
    <3>1. p \in Nat /\ p <= N
      BY <1>1
    <3> HIDE DEF upto, begun
    <3> QED
      BY <1>8, <3>1
  <2>2. Len(r[p].words) \in Nat
    BY <1>2, LenProperties DEF Reader
  <2>3. r[p].open <=> ~gap(p)
    BY <1>2
  <2>4. r[p].open => begun(p) = Len(r[p].words) + 1
    OBVIOUS
  <2> HIDE DEF upto, begun
  <2> QED
    BY ONLY <2>1, <2>2, <2>3, <2>4, index \in Int
<1>10. RawTokenSpan(line, index) = {p \in 1..N : ~gap(p) /\ Cardinality(upto(p)) = index}
  BY <1>1 DEF RawTokenSpan, gap, starts
<1>11. WordPlaces(line, index) = {p \in 1..N : r[p].open /\ Len(r[p].words) = index - 1}
  <2>1. \A p \in 1..N : Readings(line, Len(line))[p] = r[p]
    BY <1>1, RoomForAll DEF r, N
  <2> QED
    BY <1>1, <2>1 DEF WordPlaces
<1> QED
  BY ONLY <1>9, <1>10, <1>11

\* The words the echo hides are the words of the line so far, counted from 1: closing
\* an open quote ends the word begun, and nothing else.
LEMMA DisplayedWords ==
  ASSUME NEW line \in Seq(1..255), IsFollowed(line)
  PROVE  /\ DisplayWords(line, Capacity).words = TypedWords(line)
         /\ DOMAIN TypedWords(line) \subseteq Int
<1> DEFINE end == Reading(line, Capacity)
           mark == UnmatchedQuote(line)
           typed == IF end.open THEN Append(end.words, end.word) ELSE end.words
<1>1. line \in Seq(Octet)
  <2>1. 1..255 \subseteq Octet
    BY DEF Octet
  <2> QED
    BY <2>1, SeqMonotone
<1>2. end \in Reader
  <2>1. NUL \in Octet
    BY DEF NUL, Octet
  <2> QED
    BY <1>1, <2>1, ReadingAppend
<1>3. ~end.full /\ ~end.escaped
  BY DEF IsFollowed, Reading
<1>4. Settled(end) /\ mark = end.quote
  BY ReadersTogether
<1>5. TypedWords(line) = typed
  <2>1. Reading(line, Len(line)) = end
    <3>1. Len(line) \in 0..Len(line)
      BY LenProperties
    <3> QED
      BY <3>1, RoomForAll DEF Reading
  <2> HIDE DEF end
  <2> QED
    BY <2>1 DEF TypedWords
<1>6. DOMAIN typed \subseteq Int
  <2>1. typed \in Seq(Seq(Octet))
    BY <1>2, AppendProperties DEF Reader
  <2> HIDE DEF typed
  <2> QED
    BY <2>1, LenProperties
<1>7. CASE end.quote = NUL
  <2>1. Tokens(line, Capacity) = [status |-> "SH_OK", words |-> typed]
    <3>1. StatusAt(end) = "SH_OK"
      BY <1>3, <1>7 DEF StatusAt
    <3> QED
      BY <3>1 DEF Tokens, Outcome, WordsAt
  <2> HIDE DEF end, mark, typed
  <2>2. DisplayWords(line, Capacity) = Tokens(line, Capacity)
    BY <2>1 DEF DisplayWords
  <2> QED
    BY <1>5, <1>6, <2>1, <2>2
<1>8. CASE end.quote # NUL
  <2>1. Tokens(line, Capacity).status = "SH_ERR_UNTERMINATED_QUOTE"
    <3>1. StatusAt(end) = "SH_ERR_UNTERMINATED_QUOTE"
      BY <1>3, <1>8 DEF StatusAt
    <3> QED
      BY <3>1 DEF Tokens, Outcome
  <2>2. end.open /\ mark \in Octet /\ mark \in Quotes
    <3>1. RawReadings(line)[Len(line)] \in RawReader
      <4>1. Len(line) \in Nat
        BY LenProperties
      <4> QED
        BY <4>1, RawReadingsDef
    <3>2. mark \in {NUL} \cup Quotes
      BY <3>1 DEF RawReader, UnmatchedQuote
    <3> QED
      BY <1>2, <1>4, <1>8, <3>2 DEF Settled, Reader
  <2> DEFINE last == Reading(Append(line, mark), Capacity)
  <2>3. last = Reads(end, mark, Capacity)
    BY <1>1, <2>2, ReadingAppend
  <2>4. /\ last.open /\ last.quote = NUL /\ ~last.escaped /\ ~last.full
        /\ last.words = end.words /\ last.word = end.word
    <3>1. mark # Backslash /\ mark = end.quote /\ end.open
      BY <1>4, <2>2 DEF Quotes, SingleQuote, DoubleQuote, Backslash
    <3> HIDE DEF mark, end, last
    <3> QED
      BY <1>2, <1>3, <1>8, <2>3, <3>1 DEF Reads, Within, Reader
  <2> HIDE DEF last
  <2>5. Tokens(Append(line, mark), Capacity).words = Append(end.words, end.word)
    <3>1. StatusAt(last) = "SH_OK"
      BY <2>4 DEF StatusAt
    <3> QED
      BY <2>4, <3>1 DEF Tokens, Outcome, WordsAt, last
  <2>6. DisplayWords(line, Capacity) = Tokens(Append(line, mark), Capacity)
    BY <1>4, <1>8, <2>1 DEF DisplayWords
  <2> QED
    BY <1>5, <1>6, <2>2, <2>5, <2>6
<1> QED
  BY <1>7, <1>8

\* For every tree, masking policy and line that the echo follows, as far as it is typed
\* (the argument vector has room, no backslash stands in single quotes or is the last
\* byte): a masked argument shows nothing but stars and quotes, whatever else the line
\* holds, and everything else shows as typed.
THEOREM SessionEchoFollowsLine == SessionSpec => []EchoFollowsLine
<1>1. ASSUME SInv PROVE EchoFollowsLine
  <2> DEFINE masked == MaskedArgs(roots, TypedWords(text))
             shown == DisplayLine(roots, text, Capacity)
             covered == UNION {RawTokenSpan(text, i) : i \in masked}
  <2> SUFFICES ASSUME IsFollowed(text)
               PROVE  /\ \A p \in SecretPlaces(text) : shown[p] \in Quotes \cup {Star}
                      /\ \A p \in DOMAIN text \ SecretPlaces(text) : shown[p] = text[p]
    BY DEF EchoFollowsLine, HidesSecrets
  <2>1. text \in Seq(1..255)
    BY <1>1 DEF SInv, DInv, IInv, Typed
  <2>2. /\ DisplayWords(text, Capacity).words = TypedWords(text)
        /\ DOMAIN TypedWords(text) \subseteq Int
    BY <2>1, DisplayedWords
  <2>3. masked \subseteq DOMAIN TypedWords(text)
    BY DEF MaskedArgs
  <2>4. shown = [x \in DOMAIN text |->
                   IF x \in covered /\ text[x] \notin Quotes THEN Star ELSE text[x]]
    BY <2>2 DEF DisplayLine
  <2>5. covered = SecretPlaces(text)
    <3> HIDE DEF masked
    <3>1. \A i \in masked : RawTokenSpan(text, i) = WordPlaces(text, i)
      BY <2>1, <2>2, <2>3, SpansAreWords
    <3> QED
      BY <3>1 DEF SecretPlaces, masked
  <2>6. SecretPlaces(text) \subseteq DOMAIN text
    BY DEF SecretPlaces, WordPlaces
  <2>7. \A p \in DOMAIN text :
          shown[p] = IF p \in SecretPlaces(text) /\ text[p] \notin Quotes THEN Star ELSE text[p]
    <3> HIDE DEF shown, covered
    <3> QED
      BY <2>4, <2>5
  <2> HIDE DEF shown, covered, masked
  <2> QED
    BY <2>6, <2>7
<1> QED
  BY <1>1, SessionInvariant, PTL

=============================================================================
