----------------------------- MODULE Completion -----------------------------
(***************************************************************************)
(* The choice sh_complete_line_internal makes: which names could stand at  *)
(* the cursor, what they have in common, and the line with it. Completion  *)
(* walks the tables by itself, next to the dispatcher, and cuts the line   *)
(* at spaces, next to the tokenizer.                                       *)
(***************************************************************************)
EXTENDS CommandTree

CONSTANTS
  ScanMax  \* SH_COMPLETION_PROVIDER_MAX_ITEMS

ASSUME ScanMaxAssumption == ScanMax \in Nat

Bare(name, sub) ==
  [name |-> name, sub |-> sub, agrees |-> TRUE, handler |-> FALSE,
   min |-> 1, max |-> 1, flags |-> {}, offers |-> <<>>]

\* The tables that stand for the built-ins here.
BuiltinCommands ==
  LET Leaves(names) == [i \in DOMAIN names |-> Bare(names[i], <<>>)]
  IN <<Bare(Word.clear, <<>>), Bare(Word.help, <<>>),
       Bare(Word.history, Leaves(<<Word.clear, Word.status>>)),
       Bare(Word.echo, Leaves(<<Word.off, Word.on, Word.status>>))>>

\* A level of the walk: the table to look the next word up in, and the names that
\* may stand there.
Level(table) == [table |-> table, names |-> Visible(table)]

\* The level of a provider, which ends the walk: what it offers for an argument.
Provider(cmd, arg) ==
  [table |-> <<>>,
   names |-> IF arg \in DOMAIN cmd.offers
             THEN SubSeq(cmd.offers[arg], 1, Min({ScanMax, Len(cmd.offers[arg])}))
             ELSE <<>>]

Below(cmd, arg) ==
  IF IsParent(cmd) THEN Level(cmd.sub)
  ELSE IF cmd.offers # <<>> /\ ~Flag(cmd, "SENSITIVE") THEN Provider(cmd, arg)
  ELSE Level(<<>>)

\* One word of the walk.
Descend(level, word, arg) ==
  IF level.table = <<>> THEN level
  ELSE LET exact == Child(level.table, word)
       IN IF exact = <<>> THEN Level(<<>>) ELSE Below(exact[1], arg)

RootTable(roots, builtins) ==
  FlattenSeq(roots) \o (IF builtins THEN BuiltinCommands ELSE <<>>)

\* The candidates after `words`, in order: a walk down the tables that ends at
\* the subcommands of a parent, at the provider of a leaf, or nowhere.
Candidates(roots, builtins, words) ==
  LET n == Len(words)
      at[i \in 0..n] == IF i = 0 THEN Level(RootTable(roots, builtins))
                        ELSE Descend(at[i - 1], words[i], n - i + 1)
  IN at[n].names

\* Fault: only the second match is compared with the first.
FaultyCommonLen(matches) ==
  Max({k \in 0..Len(matches[1]) : IsPrefix(SubSeq(matches[1], 1, k), matches[2])})

\* common_prefix_len of the first match and each of the others.
CommonLen(matches) ==
  Max({k \in 0..Len(matches[1]) :
         \A i \in DOMAIN matches : IsPrefix(SubSeq(matches[1], 1, k), matches[i])})

\* The place around the cursor without a space in it.
TokenStart(line, cursor) == Max({s \in 0..cursor : s = 0 \/ IsSpace(line[s])})
TokenEnd(line, cursor) ==
  Min({e \in cursor..Len(line) : e = Len(line) \/ IsSpace(line[e + 1])})

Unchanged(line, cursor) == [line |-> line, cursor |-> cursor, replaced |-> FALSE]

\* replace_token: with a space after a unique match; refused when the line would
\* not fit its buffer.
ReplaceToken(line, cursor, word, unique, lineMax) ==
  LET start == TokenStart(line, cursor)
      end == TokenEnd(line, cursor)
      space == IF unique /\ (end = Len(line) \/ ~IsSpace(line[end + 1]))
               THEN <<Space>> ELSE <<>>
      text == SubSeq(line, 1, start) \o word \o space \o SubSeq(line, end + 1, Len(line))
  IN IF Len(text) > lineMax THEN Unchanged(line, cursor)
     ELSE [line |-> text, cursor |-> start + Len(word \o space), replaced |-> TRUE]

\* What the names that begin with the prefix do to the line; several with nothing
\* more in common are only printed.
Matched(matches, prefix, line, cursor, lineMax) ==
  IF matches = <<>> THEN Unchanged(line, cursor)
  ELSE IF Len(matches) = 1
  THEN ReplaceToken(line, cursor, matches[1], TRUE, lineMax)
  ELSE IF CommonLen(matches) > Len(prefix)
  THEN ReplaceToken(line, cursor, SubSeq(matches[1], 1, CommonLen(matches)), FALSE, lineMax)
  ELSE Unchanged(line, cursor)

\* The words before the one at the cursor.
Before(words, prefix) == IF prefix # <<>> /\ words # <<>> THEN Front(words) ELSE words

Matching(names, prefix) == Only(names, {name \in ToSet(names) : IsPrefix(prefix, name)})

CompletedAfter(left, prefix, roots, builtins, line, cursor, lineMax) ==
  IF left.status # "SH_OK" THEN Unchanged(line, cursor)
  ELSE Matched(Matching(Candidates(roots, builtins, Before(left.words, prefix)), prefix),
               prefix, line, cursor, lineMax)

\* sh_complete_line_internal.
Completed(roots, builtins, capacity, line, cursor, lineMax) ==
  CompletedAfter(Tokens(SubSeq(line, 1, cursor), capacity),
                 SubSeq(line, TokenStart(line, cursor) + 1, cursor),
                 roots, builtins, line, cursor, lineMax)

-----------------------------------------------------------------------------
\* Where maximal runs of bytes that are no spaces begin, in order.
RunStarts(text) ==
  Only([i \in DOMAIN text |-> i],
       {i \in DOMAIN text : ~IsSpace(text[i]) /\ (i = 1 \/ IsSpace(text[i - 1]))})

\* The words of text without quotes and escapes: these runs.
PlainWords(text) ==
  LET first == RunStarts(text)
  IN [k \in DOMAIN first |-> SubSeq(text, first[k], TokenEnd(text, first[k]))]
=============================================================================
