----------------------------- MODULE Tokenizer -----------------------------
(***************************************************************************)
(* sh_tokenize: the words of a line are compacted into the buffer they are *)
(* read from, by a reader that runs ahead of a writer, and the argument    *)
(* vector is filled with pointers into it. A step is one turn of a loop.   *)
(***************************************************************************)
EXTENDS LineSyntax

CONSTANTS
  Line,     \* the lines given to it: no NUL in them
  Capacity  \* argv_capacity

ASSUME LineAssumption == Line \subseteq Seq(1..255)
ASSUME CapacityAssumption == Capacity \in Nat \ {0}

VARIABLES
  text,        \* the line as it came
  buf,         \* the buffer, its terminator included
  read, write, \* the two pointers, as positions in buf
  quote,       \* the quote the reader is in, or NUL
  argv,        \* the caller's vector: positions in a buffer, named by level
  argc,        \* entries of it in use
  level,       \* which buffer this call works on
  phase        \* "gap" or "word" while reading, the status afterwards

scanVars == <<text, buf, read, write, quote, argc>>
tokenizerVars == <<scanVars, argv, level, phase>>

-----------------------------------------------------------------------------
\* What a vector entry holds before it is set, and after it is cleared.
Null == [level |-> 0, at |-> 0]

At == buf[read]

\* The call on a copy of line t, which is buffer number n.
Begin(t, n) ==
  /\ text' = t /\ buf' = Append(t, NUL)
  /\ read' = 1 /\ write' = 1 /\ quote' = NUL
  /\ argc' = 0 /\ level' = n
  /\ phase' = "gap"

Finish(status) == phase' = status /\ UNCHANGED <<scanVars, argv, level>>

\* *write++ = byte, n bytes after they were read.
Put(byte, n) ==
  /\ buf' = [buf EXCEPT ![write] = byte]
  /\ write' = write + 1 /\ read' = read + n

\* The loop over the spaces between words.
SkipSpace ==
  /\ phase = "gap" /\ IsSpace(At)
  /\ read' = read + 1
  /\ UNCHANGED <<text, buf, write, quote, argv, argc, level, phase>>

EndOfLine == phase = "gap" /\ At = NUL /\ Finish("SH_OK")

\* Fault: the vector is checked after it was written.
FaultyBeginWord ==
  /\ phase = "gap" /\ At # NUL /\ ~IsSpace(At)
  /\ IF argc > Capacity THEN Finish("SH_ERR_TOO_MANY_ARGS")
     ELSE /\ argv' = [i \in DOMAIN argv \cup {argc + 1} |->
                        IF i = argc + 1 THEN [level |-> level, at |-> write] ELSE argv[i]]
          /\ argc' = argc + 1
          /\ phase' = "word" /\ quote' = NUL
          /\ UNCHANGED <<text, buf, read, write, level>>

\* A word begins, unless the vector is full.
BeginWord ==
  /\ phase = "gap" /\ At # NUL /\ ~IsSpace(At)
  /\ IF argc >= Capacity THEN Finish("SH_ERR_TOO_MANY_ARGS")
     ELSE /\ argv' = [argv EXCEPT ![argc + 1] = [level |-> level, at |-> write]]
          /\ argc' = argc + 1
          /\ phase' = "word" /\ quote' = NUL
          /\ UNCHANGED <<text, buf, read, write, level>>

\* A word ends at a space outside quotes, which is skipped, or at the end.
EndWord ==
  /\ phase = "word"
  /\ \/ At = NUL /\ quote = NUL /\ Put(NUL, 0)
     \/ IsSpace(At) /\ quote = NUL /\ Put(NUL, 1)
  /\ phase' = "gap"
  /\ UNCHANGED <<text, quote, argv, argc, level>>

Unterminated ==
  phase = "word" /\ At = NUL /\ quote # NUL /\ Finish("SH_ERR_UNTERMINATED_QUOTE")

\* Fault: a backslash escapes inside single quotes too.
FaultyEscapes == At = Backslash

\* A backslash, outside single quotes, makes the next byte an ordinary one.
Escapes == At = Backslash /\ quote # SingleQuote

Escape ==
  /\ phase = "word" /\ Escapes
  /\ IF buf[read + 1] = NUL THEN Finish("SH_ERR_INVALID_ARG")
     ELSE Put(buf[read + 1], 2) /\ UNCHANGED <<text, quote, argv, argc, level, phase>>

OpenQuote == quote = NUL /\ At \in Quotes
CloseQuote == quote # NUL /\ At = quote

Requote ==
  /\ phase = "word" /\ ~Escapes
  /\ \/ OpenQuote /\ quote' = At
     \/ CloseQuote /\ quote' = NUL
  /\ read' = read + 1
  /\ UNCHANGED <<text, buf, write, argv, argc, level, phase>>

\* Any other byte belongs to the word.
Character ==
  /\ phase = "word" /\ At # NUL /\ ~(IsSpace(At) /\ quote = NUL)
  /\ ~Escapes /\ ~OpenQuote /\ ~CloseQuote
  /\ Put(At, 1)
  /\ UNCHANGED <<text, quote, argv, argc, level, phase>>

Step ==
  \/ SkipSpace \/ EndOfLine \/ BeginWord \/ EndWord \/ Unterminated
  \/ Escape \/ Requote \/ Character

Scanning == phase \in {"gap", "word"}

Statuses == {"SH_OK", "SH_ERR_TOO_MANY_ARGS", "SH_ERR_INVALID_ARG",
             "SH_ERR_UNTERMINATED_QUOTE"}

Init ==
  /\ text \in Line /\ buf = Append(text, NUL)
  /\ read = 1 /\ write = 1 /\ quote = NUL
  /\ argc = 0 /\ argv = [i \in 1..Capacity |-> Null]
  /\ level = 1 /\ phase = "gap"

Spec == Init /\ [][Step]_tokenizerVars

-----------------------------------------------------------------------------
\* The C string that begins at a position of a buffer.
StringAt(buffer, position) ==
  LET end == CHOOSE p \in position..Len(buffer) :
               /\ buffer[p] = NUL
               /\ \A q \in position..(p - 1) : buffer[q] # NUL
  IN SubSeq(buffer, position, end - 1)

\* The words sh_tokenize leaves in the buffer.
Words == [i \in 1..argc |-> StringAt(buf, argv[i].at)]

\* Compacting in place never runs over text that is still to be read: the
\* writer does not pass the reader, what lies ahead of the reader is the line as
\* it came, and neither the buffer nor the vector is left; every argument points
\* into the line's own bytes.
InPlaceIsSafe ==
  /\ Len(buf) = Len(text) + 1
  /\ argc <= Capacity /\ DOMAIN argv = 1..Capacity
  /\ Scanning => \A i \in 1..argc : argv[i].at \in 1..Len(text)
  /\ Scanning =>
       /\ read \in 1..Len(buf)
       /\ \A p \in read..Len(buf) : buf[p] = Append(text, NUL)[p]
       /\ write <= read \/ (phase = "gap" /\ read = Len(buf) /\ write = read + 1)

\* When it is done, buffer, vector and status are what the header documents for
\* the line: quoting, escapes, empty words, a full vector.
TokensAsDocumented ==
  phase \in Statuses =>
    LET promised == Tokens(text, Capacity)
    IN /\ phase = promised.status
       /\ phase = "SH_OK" => Words = promised.words
=============================================================================
