-------------------------- MODULE MCCommandSession --------------------------
(***************************************************************************)
(* Small instance of CommandSession: every line of up to four letters,     *)
(* blanks, quotes and backslashes, and lines of names. One letter stands   *)
(* for each name: a, b and c are commands, h help, H history, e echo,      *)
(* C clear.                                                                *)
(***************************************************************************)
EXTENDS CommandSession

MCWord == [help |-> <<104>>, history |-> <<72>>, echo |-> <<101>>, clear |-> <<67>>,
           on |-> <<49>>, off |-> <<48>>, status |-> <<115>>,
           dashHelp |-> <<45, 104>>, dashH |-> <<45>>]
MCHidden == <<60>>
\* c is secret as the first argument of a or of b a, and where no command is named.
MCSecret == {<<<<<<97>>>>, 2, <<99>>>>, <<<<<<98>>, <<97>>>>, 3, <<99>>>>,
             <<<<>>, 1, <<99>>>>}

a == 97
b == 98
c == 99
h == 104
LF == 10

Letter == {a, Space, DoubleQuote, SingleQuote, Backslash}
MCLine ==
  BoundedSeq(Letter, 4)
    \cup {<<c, Space>> \o rest : rest \in BoundedSeq(Letter, 3)}
    \cup {<<72, Space, 67>>, <<101, Space, 48>>, <<101, Space, a>>, <<67>>,
          <<h, Space, b, Space, a>>, <<b, Space, h>>, <<b>>, <<b, Space, a>>,
          <<a, a, a, a, a, a, a, a, a>>, <<b, Space, c>>, <<b, Space, a, Space, c>>,
          <<a, Space, b, Space, c, Space, h>>,
          <<c, LF, a>>, <<c, Space, DoubleQuote, LF, DoubleQuote>>}
\* Lines with arguments, one of which the tokenizer and the echo read differently.
MCSecretLine ==
  {<<a, Space, a>> \o rest : rest \in BoundedSeq(Letter, 3)}
    \cup {<<a, Space, SingleQuote, Backslash, SingleQuote, SingleQuote, Space, b, SingleQuote>>}
MCNested == {<<a, Space, c>>, <<b, DoubleQuote>>}
MCStatus == {"FAILED"}
MCVector == {<<<<a>>, <<c>>>>, <<<<a>>, <<a>>, <<a>>, <<a>>>>}

AnyCount == 9  \* SH_ARGS_ANY
Leaf(name, min, max, flags) ==
  [name |-> name, sub |-> <<>>, agrees |-> TRUE, handler |-> TRUE,
   min |-> min, max |-> max, flags |-> flags, offers |-> <<>>]
Parent(name, sub) ==
  [Leaf(name, 1, 1, {}) EXCEPT !.sub = sub, !.handler = FALSE]

A == Leaf(<<a>>, 1, AnyCount, {})
SecretA == Leaf(<<a>>, 1, AnyCount, {"SENSITIVE"})
B == Parent(<<b>>, <<Leaf(<<a>>, 2, 2, {"NO_HISTORY"}), Leaf(<<c>>, 1, 1, {"HIDDEN"})>>)
MCTables == {
  <<<<A, B>>>>,                            \* a flat table
  <<<<B>>, <<SecretA>>>>,                  \* two sets
  <<<<A>>, <<B, SecretA>>>>,               \* the same root in two sets
  <<<<A, SecretA>>>>,                      \* and in one
  <<<<Leaf(<<104>>, 1, 1, {}), A>>>>,      \* the name of a built-in
  <<<<Parent(<<b>>, <<B>>)>>>>,            \* too deep
  <<<<[A EXCEPT !.handler = FALSE]>>>>,    \* nothing to run
  <<<<[B EXCEPT !.agrees = FALSE]>>>>,
  <<<<Leaf(<<a, Space>>, 1, 1, {})>>>>,
  <<<<Leaf(<<a>>, 2, 1, {})>>>> }

WithSubcommands(cmds) == cmds \cup UNION {ToSet(cmd.sub) : cmd \in cmds}
MCCommand ==
  LET top == UNION {UNION {ToSet(table) : table \in ToSet(tables)} : tables \in MCTables}
  IN WithSubcommands(WithSubcommands(top))
=============================================================================
