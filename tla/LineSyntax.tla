----------------------------- MODULE LineSyntax -----------------------------
(***************************************************************************)
(* What a command line means: its words, the places they occupy in the     *)
(* line, and a line written back from words. These are functions of the    *)
(* line; Tokenizer shows how sh_tokenize gets the words in place.          *)
(***************************************************************************)
EXTENDS Integers, SequencesExt

NUL == 0
HT == 9
Space == 32
DoubleQuote == 34
SingleQuote == 39
Star == 42
Backslash == 92
Quotes == {DoubleQuote, SingleQuote}

\* isspace: what separates words and arguments.
IsSpace(byte) == byte \in 9..13 \cup {Space}

\* A loop over s that passes over what is not in T.
Only(s, T) ==
  LET kept[n \in 0..Len(s)] ==
        IF n = 0 THEN <<>>
        ELSE IF s[n] \in T THEN Append(kept[n - 1], s[n]) ELSE kept[n - 1]
  IN kept[Len(s)]

-----------------------------------------------------------------------------
\* The meaning of one byte of a word. `quote` is the quote it stands in or NUL.
Within(s, byte) ==
  IF s.escaped THEN [s EXCEPT !.word = Append(@, byte), !.escaped = FALSE]
  ELSE IF s.quote = NUL /\ IsSpace(byte)
  THEN [s EXCEPT !.open = FALSE, !.words = Append(@, s.word), !.word = <<>>]
  ELSE IF byte = Backslash /\ s.quote # SingleQuote THEN [s EXCEPT !.escaped = TRUE]
  ELSE IF byte \in Quotes /\ s.quote = NUL THEN [s EXCEPT !.quote = byte]
  ELSE IF byte = s.quote THEN [s EXCEPT !.quote = NUL]
  ELSE [s EXCEPT !.word = Append(@, byte)]

\* One byte for a reader of the line; `full` once a word came that the argument
\* vector has no room for.
Reads(s, byte, capacity) ==
  IF s.full \/ (~s.open /\ IsSpace(byte)) THEN s
  ELSE IF ~s.open /\ Len(s.words) = capacity THEN [s EXCEPT !.full = TRUE]
  ELSE Within([s EXCEPT !.open = TRUE], byte)

Unread == [words |-> <<>>, word |-> <<>>, open |-> FALSE,
           quote |-> NUL, escaped |-> FALSE, full |-> FALSE]

\* Where the reader is after the first n bytes.
Readings(line, capacity) ==
  LET at[n \in 0..Len(line)] ==
        IF n = 0 THEN Unread ELSE Reads(at[n - 1], line[n], capacity)
  IN at

Reading(line, capacity) == Readings(line, capacity)[Len(line)]

\* What is made of where the reader is at the end of the line.
StatusAt(end) ==
  IF end.full THEN "SH_ERR_TOO_MANY_ARGS"
  ELSE IF end.escaped THEN "SH_ERR_INVALID_ARG"
  ELSE IF end.quote # NUL THEN "SH_ERR_UNTERMINATED_QUOTE"
  ELSE "SH_OK"

WordsAt(end) ==
  IF StatusAt(end) # "SH_OK" THEN <<>>
  ELSE IF end.open THEN Append(end.words, end.word) ELSE end.words

Outcome(end) == [status |-> StatusAt(end), words |-> WordsAt(end)]

\* The status and the words sh_tokenize documents for a line.
Tokens(line, capacity) == Outcome(Reading(line, capacity))

-----------------------------------------------------------------------------
\* Fault: an escape is not looked at.
FaultyRawByte(s, byte) ==
  IF s.quote # NUL THEN [s EXCEPT !.quote = IF byte = @ THEN NUL ELSE @]
  ELSE IF byte \in Quotes THEN [s EXCEPT !.quote = byte]
  ELSE s

\* The scanner of an unparsed line that the echo uses: unlike sh_tokenize it
\* takes a backslash for an escape inside single quotes too.
RawByte(s, byte) ==
  IF s.escaped THEN [s EXCEPT !.escaped = FALSE]
  ELSE IF byte = Backslash THEN [s EXCEPT !.escaped = TRUE]
  ELSE IF s.quote # NUL THEN [s EXCEPT !.quote = IF byte = @ THEN NUL ELSE @]
  ELSE IF byte \in Quotes THEN [s EXCEPT !.quote = byte]
  ELSE s

RawStart == [quote |-> NUL, escaped |-> FALSE]

\* Where it is after the first n bytes.
RawReadings(line) ==
  LET at[n \in 0..Len(line)] ==
        IF n = 0 THEN RawStart ELSE RawByte(at[n - 1], line[n])
  IN at

\* unmatched_quote.
UnmatchedQuote(line) == RawReadings(line)[Len(line)].quote

\* raw_token_span: the places of the bytes of the index-th word, counted from 1.
RawTokenSpan(line, index) ==
  LET raw == RawReadings(line)
      gap(p) == IsSpace(line[p]) /\ raw[p - 1] = RawStart
      starts == {p \in DOMAIN line : ~gap(p) /\ (p = 1 \/ gap(p - 1))}
  IN {p \in DOMAIN line : ~gap(p) /\ Cardinality({s \in starts : s <= p}) = index}

-----------------------------------------------------------------------------
\* Fault: only words with spaces are quoted.
FaultyNeedsQuotes(word) == \E i \in DOMAIN word : word[i] = Space

\* token_needs_quotes.
NeedsQuotes(word) ==
  word = <<>> \/ \E i \in DOMAIN word : word[i] \in {Space, HT, Backslash} \cup Quotes

\* Every blank in the word is one that makes token_needs_quotes quote it.
Quotable(word) == \A p \in DOMAIN word : IsSpace(word[p]) => word[p] \in {Space, HT}

\* append_token: one word more at the end of a history line, after a space if it
\* is not the first.
WithToken(line, word) ==
  LET quoted == NeedsQuotes(word)
      spaced == IF line = <<>> THEN line ELSE Append(line, Space)
      opened == IF quoted THEN Append(spaced, DoubleQuote) ELSE spaced
      with[n \in 0..Len(word)] ==
        IF n = 0 THEN opened
        ELSE Append(IF word[n] \in {DoubleQuote, Backslash}
                    THEN Append(with[n - 1], Backslash) ELSE with[n - 1], word[n])
  IN IF quoted THEN Append(with[Len(word)], DoubleQuote) ELSE with[Len(word)]

\* build_history_line's loop over the words.
Rewritten(words) ==
  LET with[n \in 0..Len(words)] ==
        IF n = 0 THEN <<>> ELSE WithToken(with[n - 1], words[n])
  IN with[Len(words)]
=============================================================================
