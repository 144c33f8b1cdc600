---------------------------- MODULE MCLineEditor ----------------------------
(***************************************************************************)
(* Small instances of LineEditor: one for the keys that edit a line, one   *)
(* for history recall with an application that runs lines meanwhile.       *)
(* Escape bytes are offered only where they mean something: 91 opens a     *)
(* sequence after ESC (27), 65 to 72 are final bytes, 51 126 is delete.    *)
(***************************************************************************)
EXTENDS LineEditor

a == 97
b == 98
c == 99

\* Every editing key, with words of two letters, spaces, a quote and Tab.
MCEditing ==
  [IDLE   |-> {a, b, Space, DoubleQuote, 27, 8, CtrlU, CtrlW, CtrlC, CtrlL, Tab, CR, LF},
   ESCAPE |-> {27, 91, 97},
   CSI    |-> {67, 68, 70, 72, 51, 126, CR, 27}]

\* Names of one to three letters that share prefixes: a parent with a hidden
\* child, a command with completed arguments, one whose provider offers more than
\* it takes, and a sensitive one.
MCWord == [help |-> <<b, b>>, history |-> <<b>>, echo |-> <<b, a, a>>, clear |-> <<c>>,
           on |-> <<a, a>>, off |-> <<a, b>>, status |-> <<b>>,
           dashHelp |-> <<45, 104>>, dashH |-> <<45>>]
Command(name, sub, min, max, flags, offers) ==
  [name |-> name, sub |-> sub, agrees |-> TRUE, handler |-> sub = <<>>,
   min |-> min, max |-> max, flags |-> flags, offers |-> offers]
Named(name, flags) == Command(name, <<>>, 1, 1, flags, <<>>)
MCRoots ==
  << <<Command(<<a>>, <<>>, 2, 3, {},
               << <<<<a, a, a>>, <<a, a>>, <<a, b>>, <<b>>>>, <<<<b>>, <<b, a>>>> >>),
       Command(<<a, a>>, <<>>, 1, 1, {}, <<<<<<b>>>>>>)>>,
     <<Command(<<a, b>>, <<Named(<<a, a, b>>, {}), Named(<<a, a, a>>, {}),
                           Named(<<a, b>>, {"HIDDEN"}), Named(<<b>>, {})>>, 1, 1, {}, <<>>),
       Command(<<b, a, b>>, <<>>, 2, 2, {"SENSITIVE"}, <<<<<<a>>>>>>)>> >>
MCNoRoots == <<>>

\* Lines typed, recalled, edited, cancelled and entered.
MCRecalling ==
  [IDLE   |-> {97, 27, 127, CtrlU, CtrlC, CR, LF},
   ESCAPE |-> {91},
   CSI    |-> {65, 66, 68}]
\* What a line with a hidden argument is recorded as: longer than LineMax.
MCRebuilt == {<<97, 60, 60>>}

\* No name is offered twice, and all are words; every leaf has a handler.
ASSUME MCOffers == PlainOffers /\ LeavesRun

MCNoLines == {}
MCAppLines == {<<98>>, <<Space>>}
=============================================================================
