------------------------------ MODULE Masking ------------------------------
(***************************************************************************)
(* Which arguments of a line are secret, and what is shown and remembered  *)
(* of such a line. The two readers differ: history is written from the     *)
(* words, the echo covers places of the raw line.                          *)
(***************************************************************************)
EXTENDS CommandTree

CONSTANTS
  HiddenWord, \* "<hidden>"
  Secret,     \* when cfg.should_mask_arg says yes: names of a path, index, word
  HistoryMax  \* the longest line build_history_line makes

ASSUME HistoryMaxAssumption == HistoryMax \in Nat \ {0}
ASSUME HiddenAssumption == HiddenWord \in Seq(33..126)

\* The arguments of a sensitive command, and those the callback names; it is asked
\* about every word, the names of the path included.
MaskedArgs(roots, words) ==
  LET path == ResolvedPath(roots, words)
      names == [i \in DOMAIN path |-> path[i].name]
      sensitive == path # <<>> /\ Flag(Last(path), "SENSITIVE")
  IN {i \in DOMAIN words :
        (sensitive /\ i > Len(path)) \/ <<names, i, words[i]>> \in Secret}

MaskedWords(roots, words) ==
  [i \in DOMAIN words |-> IF i \in MaskedArgs(roots, words) THEN HiddenWord ELSE words[i]]

\* build_history_line makes no line for a command marked NO_HISTORY.
IsRemembered(roots, words) ==
  LET path == ResolvedPath(roots, words)
  IN path = <<>> \/ ~Flag(Last(path), "NO_HISTORY")

\* build_history_line: the line as typed, or written anew from the words; what
\* does not fit is dropped from its end.
HistoryLine(roots, line, words) ==
  LET rebuilt == Rewritten(MaskedWords(roots, words))
  IN IF MaskedArgs(roots, words) = {} THEN line
     ELSE IF Len(rebuilt) > HistoryMax THEN SubSeq(rebuilt, 1, HistoryMax) ELSE rebuilt

\* Fault: a line with an open quote has no words yet.
FaultyDisplayWords(line, capacity) == Tokens(line, capacity)

\* The words build_display_line sees: those of the line with its quote closed.
DisplayWords(line, capacity) ==
  LET whole == Tokens(line, capacity)
      quote == UnmatchedQuote(line)
  IN IF whole.status = "SH_ERR_UNTERMINATED_QUOTE" /\ quote # NUL
     THEN Tokens(Append(line, quote), capacity) ELSE whole

\* build_display_line: stars over the masked words, quotes left visible.
DisplayLine(roots, line, capacity) ==
  LET words == DisplayWords(line, capacity).words
      covered == UNION {RawTokenSpan(line, i) : i \in MaskedArgs(roots, words)}
  IN [p \in DOMAIN line |->
        IF p \in covered /\ line[p] \notin Quotes THEN Star ELSE line[p]]
=============================================================================
