---------------------------- MODULE CommandTree ----------------------------
(***************************************************************************)
(* The command tables: what a registered tree must look like, which        *)
(* command the words of a line name, and what the dispatcher makes of      *)
(* them. A table is a sequence of commands, the roots are a sequence of    *)
(* tables (one for a flat table, one per set otherwise).                   *)
(*                                                                         *)
(* A command is a record: name, sub (its table of subcommands), agrees     *)
(* (whether the table pointer and its count agree), handler, min and max   *)
(* (its arguments, its own name included), flags, and offers (the          *)
(* candidates its completion provider enumerates, by argument).            *)
(***************************************************************************)
EXTENDS LineSyntax

CONSTANTS
  Word,     \* how the names the shell itself knows are spelled
  MaxDepth  \* SH_MAX_CMD_DEPTH

ASSUME MaxDepthAssumption == MaxDepth \in Nat \ {0}

\* A root name of an enabled built-in.
ReservedNames == {Word.clear, Word.echo, Word.help, Word.history}
HelpWords == {Word.help, Word.dashHelp, Word.dashH}

Flag(cmd, flag) == flag \in cmd.flags
IsParent(cmd) == cmd.sub # <<>>

-----------------------------------------------------------------------------
\* is_valid_command_name: something, and nothing but printable bytes.
IsName(name) ==
  /\ name # <<>>
  /\ \A i \in DOMAIN name : ~IsSpace(name[i]) /\ name[i] >= 33 /\ name[i] # 127

\* Every table of a tree, by its depth; the roots are at depth 1.
TablesAt(roots) ==
  LET at[depth \in 1..(MaxDepth + 1)] ==
        IF depth = 1 THEN {roots}
        ELSE {cmd.sub : cmd \in {c \in UNION {ToSet(table) : table \in at[depth - 1]} :
                                   IsParent(c)}}
  IN at

\* One level of validate_command_level.
IsTable(table, reserved) ==
  /\ \A i \in DOMAIN table :
       LET cmd == table[i]
       IN /\ IsName(cmd.name) /\ cmd.name \notin reserved
          /\ cmd.agrees
          /\ cmd.handler => cmd.min >= 1 /\ cmd.min <= cmd.max
  /\ \A i, j \in DOMAIN table : i # j => table[i].name # table[j].name

\* validate_command_level on a root table: no table is below the deepest level.
IsTree(table, builtins) ==
  LET at == TablesAt(table)
  IN /\ IsTable(table, IF builtins THEN ReservedNames ELSE {})
     /\ \A depth \in 2..MaxDepth : \A t \in at[depth] : IsTable(t, {})
     /\ at[MaxDepth + 1] = {}

\* Fault: sets are only checked one by one.
FaultyAcceptsSets(sets, builtins) == \A i \in DOMAIN sets : IsTree(sets[i], builtins)

\* sh_register_command_sets (and sh_register_commands, for one table): each
\* table is a tree, and no two define the same root.
AcceptsSets(sets, builtins) ==
  /\ \A i \in DOMAIN sets : IsTree(sets[i], builtins)
  /\ \A i, j \in DOMAIN sets : i # j =>
       \A a \in DOMAIN sets[i], b \in DOMAIN sets[j] : sets[i][a].name # sets[j][b].name

-----------------------------------------------------------------------------
\* find_child: the first command of that name, as a sequence of one or none.
Child(table, name) ==
  LET i == SelectInSeq(table, LAMBDA cmd : cmd.name = name)
  IN IF i = 0 THEN <<>> ELSE <<table[i]>>

\* sh_resolve_command_internal: the longest path of commands the words begin
\* with. Sets are searched in their order.
ResolvedPath(roots, words) ==
  LET at[i \in 1..Len(words)] ==
        IF i = 1 THEN Child(FlattenSeq(roots), words[1])
        ELSE IF at[i - 1] = <<>> THEN <<>> ELSE Child(at[i - 1][1].sub, words[i])
  IN FlattenSeq(at)

\* The names of the visible commands, in order: what help and completion list.
Visible(table) ==
  LET shown == Only(table, {cmd \in ToSet(table) : ~Flag(cmd, "HIDDEN")})
  IN [i \in DOMAIN shown |-> shown[i].name]

-----------------------------------------------------------------------------
\* What becomes of the words of a line: a status without a handler, or the
\* command whose handler gets the words from its own name on.
Refuse(status) == [status |-> status, runs |-> <<>>, first |-> 0]
Run(path) == [status |-> "SH_OK", runs |-> <<Last(path)>>, first |-> Len(path)]

\* builtin_history and builtin_echo: their own argument checks.
Builtin(words) ==
  LET argument == IF Len(words) = 2 THEN words[2] ELSE <<>>
      known == IF words[1] = Word.history THEN {Word.clear, Word.status}
               ELSE {Word.status, Word.on, Word.off}
  IN Refuse(IF Len(words) = 1 \/ argument \in known
            THEN "SH_OK" ELSE "SH_ERR_INVALID_ARG")

\* help and the path after it.
HelpTopic(roots, words) ==
  Refuse(IF Len(ResolvedPath(roots, Tail(words))) = Len(words) - 1
         THEN "SH_OK" ELSE "SH_ERR_UNKNOWN_COMMAND")

\* The dispatch to an application command.
Application(roots, words) ==
  LET path == ResolvedPath(roots, words)
      consumed == Len(path)
      cmd == Last(path)
      args == Len(words) - consumed + 1
  IN IF path = <<>> THEN Refuse("SH_ERR_UNKNOWN_COMMAND")
     ELSE IF consumed < Len(words) /\ words[consumed + 1] \in HelpWords
     THEN Refuse("SH_OK")
     ELSE IF IsParent(cmd)
     THEN Refuse(IF consumed < Len(words) THEN "SH_ERR_UNKNOWN_COMMAND" ELSE "SH_OK")
     ELSE IF ~cmd.handler THEN Refuse("SH_ERR_INCOMPLETE_COMMAND")
     ELSE IF args < cmd.min \/ args > cmd.max THEN Refuse("SH_ERR_INVALID_ARG")
     ELSE Run(path)

\* sh_command_dispatch_internal.
Dispatch(roots, builtins, words) ==
  IF words = <<>> \/ (builtins /\ words[1] = Word.clear) THEN Refuse("SH_OK")
  ELSE IF builtins /\ words[1] = Word.help THEN HelpTopic(roots, words)
  ELSE IF builtins /\ words[1] \in {Word.history, Word.echo} THEN Builtin(words)
  ELSE Application(roots, words)
=============================================================================
