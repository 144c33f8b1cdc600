-------------------------- MODULE LineEditorProofs --------------------------
(***************************************************************************)
(* Theorems about the line editor and about the lines a polled terminal    *)
(* executes, for every length of line and history, every command tree and  *)
(* every stream of bytes.                                                  *)
(***************************************************************************)
EXTENDS PolledLines, LineSyntaxProofs

\* The bytes of a line, and lines.
CharCode == 1..255
Text == Seq(CharCode)

-----------------------------------------------------------------------------
\* Every command completion can meet: the application's and the built-ins.
Leaves == {Bare(word, <<>>) : word \in ReservedNames \cup {Word.on, Word.off, Word.status}}
Known ==
  Commands \cup (IF Builtins THEN Leaves \cup ToSet(BuiltinCommands) ELSE {})

\* Names and candidates are lines, and no table leads out of these commands.
LEMMA KnownCommands ==
  /\ RootTable(Roots, Builtins) \in Seq(Known)
  /\ \A cmd \in Known : /\ cmd.name \in Text /\ cmd.sub \in Seq(Known)
                        /\ cmd.offers \in Seq(Seq(Text))
<1>1. String \subseteq Text
  BY DEF String, Text, CharCode
<1>2. \A cmd \in Commands : /\ cmd.name \in Text /\ cmd.sub \in Seq(Commands)
                            /\ cmd.offers \in Seq(Seq(Text))
  BY <1>1, RootsAssumption
<1>3. \A T : Seq(Commands) \subseteq Seq(Commands \cup T)
  OBVIOUS
<1>4. FlattenSeq(Roots) \in Seq(Commands)
  BY RootsAssumption, Flattened
<1>5. CASE ~Builtins
  <2>1. Known = Commands /\ RootTable(Roots, Builtins) = FlattenSeq(Roots) \o <<>>
    BY <1>5 DEF Known, RootTable
  <2> QED
    BY <1>2, <1>4, <2>1, ConcatEmptySeq
<1>6. CASE Builtins
  <2> DEFINE history == Bare(Word.history, [i \in DOMAIN <<Word.clear, Word.status>> |->
                               Bare(<<Word.clear, Word.status>>[i], <<>>)])
             echo == Bare(Word.echo, [i \in DOMAIN <<Word.off, Word.on, Word.status>> |->
                               Bare(<<Word.off, Word.on, Word.status>>[i], <<>>)])
             own == <<Bare(Word.clear, <<>>), Bare(Word.help, <<>>), history, echo>>
  <2>1. BuiltinCommands = own
    BY DEF BuiltinCommands
  <2>2. \A word, sub : /\ Bare(word, sub).name = word /\ Bare(word, sub).sub = sub
                       /\ Bare(word, sub).offers = <<>>
    BY DEF Bare
  <2>3. /\ history.sub = <<Bare(Word.clear, <<>>), Bare(Word.status, <<>>)>>
        /\ echo.sub = <<Bare(Word.off, <<>>), Bare(Word.on, <<>>), Bare(Word.status, <<>>)>>
    BY <2>2
  <2>4. /\ Bare(Word.clear, <<>>) \in Leaves /\ Bare(Word.help, <<>>) \in Leaves
        /\ Bare(Word.off, <<>>) \in Leaves /\ Bare(Word.on, <<>>) \in Leaves
        /\ Bare(Word.status, <<>>) \in Leaves
    BY DEF Leaves, ReservedNames
  <2>5. Known = Commands \cup Leaves \cup {history, echo}
    <3>1. ToSet(own) = {Bare(Word.clear, <<>>), Bare(Word.help, <<>>), history, echo}
      <4> HIDE DEF history, echo
      <4> QED
        BY DEF ToSet
    <3> HIDE DEF history, echo
    <3> QED
      BY <1>6, <2>1, <2>4, <3>1 DEF Known
  <2>6. history.sub \in Seq(Leaves) /\ echo.sub \in Seq(Leaves)
    <3> HIDE DEF history, echo
    <3> QED
      BY <2>3, <2>4
  <2>7. /\ Word.history \in Text /\ Word.echo \in Text
        /\ \A word \in ReservedNames \cup {Word.on, Word.off, Word.status} : word \in Text
    BY <1>1, <1>6, WordAssumption DEF ReservedNames
  <2>8. \A cmd \in Leaves : cmd.name \in Text /\ cmd.sub = <<>> /\ cmd.offers = <<>>
    BY <2>2, <2>7 DEF Leaves
  <2>9. /\ history.name \in Text /\ echo.name \in Text
        /\ history.offers = <<>> /\ echo.offers = <<>>
    BY <2>2, <2>7
  <2> HIDE DEF history, echo
  <2>10. <<>> \in Seq(Known) /\ <<>> \in Seq(Seq(Text))
    OBVIOUS
  <2>11. Seq(Leaves) \subseteq Seq(Known) /\ Seq(Commands) \subseteq Seq(Known)
    BY <2>5
  <2>12. own \in Seq(Known)
    BY <2>4, <2>5
  <2>13. RootTable(Roots, Builtins) \in Seq(Known)
    <3>1. FlattenSeq(Roots) \in Seq(Known)
      BY <1>4, <2>11
    <3>2. FlattenSeq(Roots) \o own \in Seq(Known)
      BY <2>12, <3>1, ConcatProperties
    <3> QED
      BY <1>6, <2>1, <3>2 DEF RootTable
  <2>14. ASSUME NEW cmd \in Known
         PROVE  /\ cmd.name \in Text /\ cmd.sub \in Seq(Known)
                /\ cmd.offers \in Seq(Seq(Text))
    BY <1>2, <2>5, <2>6, <2>8, <2>9, <2>10, <2>11
  <2> QED
    BY <2>13, <2>14
<1> QED
  BY <1>5, <1>6

\* The names of a table of them are lines.
LEMMA VisibleNames ==
  ASSUME NEW table \in Seq(Known)
  PROVE  Visible(table) \in Seq(Text)
<1> DEFINE shown == Only(table, {cmd \in ToSet(table) : ~Flag(cmd, "HIDDEN")})
<1>1. shown \in Seq(Known)
  <2>1. shown \in Seq(Known \cap {cmd \in ToSet(table) : ~Flag(cmd, "HIDDEN")})
    BY OnlyType
  <2> HIDE DEF shown
  <2> QED
    BY <2>1
<1>2. Visible(table) = [i \in DOMAIN shown |-> shown[i].name]
  BY DEF Visible
<1> HIDE DEF shown
<1>3. Len(shown) \in Nat /\ DOMAIN shown = 1..Len(shown)
  BY <1>1, LenProperties
<1>4. \A i \in 1..Len(shown) : shown[i].name \in Text
  BY <1>1, ElementOfSeq, KnownCommands
<1> HIDE DEF Text
<1> QED
  BY <1>2, <1>3, <1>4

-----------------------------------------------------------------------------
\* The levels of the walk.
Levels == [table : Seq(Known), names : Seq(Text)]

LEMMA LevelType ==
  /\ \A table \in Seq(Known) : Level(table) \in Levels
  /\ Level(<<>>) \in Levels
<1>1. <<>> \in Seq(Known)
  OBVIOUS
<1> QED
  BY <1>1, VisibleNames DEF Level, Levels

\* A provider's names are lines, cut to the scan limit.
LEMMA ProviderType ==
  ASSUME NEW cmd \in Known, NEW arg
  PROVE  Provider(cmd, arg) \in Levels
<1>1. <<>> \in Seq(Known) /\ <<>> \in Seq(Text)
  OBVIOUS
<1>2. CASE arg \notin DOMAIN cmd.offers
  BY <1>1, <1>2 DEF Provider, Levels
<1>3. CASE arg \in DOMAIN cmd.offers
  <2> DEFINE names == cmd.offers[arg]
  <2>1. names \in Seq(Text)
    <3>1. cmd.offers \in Seq(Seq(Text))
      BY KnownCommands
    <3>2. arg \in 1..Len(cmd.offers)
      BY <1>3, <3>1, LenProperties
    <3> QED
      BY <3>1, <3>2, ElementOfSeq
  <2> HIDE DEF names
  <2>2. Len(names) \in Nat /\ \A i \in 1..Len(names) : names[i] \in Text
    BY <2>1, ElementOfSeq, LenProperties
  <2>3. Min({ScanMax, Len(names)}) \in 0..Len(names)
    <3>1. ScanMax \in Nat
      BY ScanMaxAssumption
    <3>2. PICK n \in Nat : ScanMax <= n /\ Len(names) <= n
      BY <2>2, <3>1
    <3>3. {ScanMax, Len(names)} \in SUBSET (0..n)
      BY <2>2, <3>1, <3>2
    <3>4. /\ Min({ScanMax, Len(names)}) \in {ScanMax, Len(names)}
          /\ \A y \in {ScanMax, Len(names)} : Min({ScanMax, Len(names)}) <= y
      BY <3>2, <3>3, LastAndFirst
    <3> QED
      BY <2>2, <3>1, <3>4
  <2>4. SubSeq(names, 1, Min({ScanMax, Len(names)})) \in Seq(Text)
    <3>1. \A i \in 1..Min({ScanMax, Len(names)}) : names[i] \in Text
      BY <2>2, <2>3
    <3>2. 1 \in Int /\ Min({ScanMax, Len(names)}) \in Int
      BY <2>3
    <3> QED
      BY <3>1, <3>2, SubSeqProperties
  <2> QED
    BY <1>1, <1>3, <2>4 DEF Provider, Levels, names
<1> QED
  BY <1>2, <1>3

LEMMA DescendType ==
  ASSUME NEW level \in Levels, NEW word, NEW arg
  PROVE  Descend(level, word, arg) \in Levels
<1>1. level.table \in Seq(Known)
  BY DEF Levels
<1>2. ASSUME NEW cmd \in Known PROVE Below(cmd, arg) \in Levels
  BY LevelType, KnownCommands, ProviderType DEF Below
<1>3. CASE Child(level.table, word) = <<>>
  BY <1>3, LevelType DEF Descend
<1>4. CASE Child(level.table, word) # <<>>
  <2>1. PICK cmd \in Known : Child(level.table, word) = <<cmd>>
    BY <1>1, <1>4, ChildFacts
  <2>2. Child(level.table, word)[1] = cmd
    BY <2>1
  <2> QED
    BY <1>2, <1>4, <2>2 DEF Descend
<1> QED
  BY <1>3, <1>4

\* Completion walks from the root table, one word after the other.
LEMMA CandidatesWalk ==
  ASSUME NEW words, Len(words) \in Nat
  PROVE  \E at :
           /\ at[0] = Level(RootTable(Roots, Builtins))
           /\ \A i \in 1..Len(words) :
                at[i] = Descend(at[i - 1], words[i], Len(words) - i + 1)
           /\ \A i \in 0..Len(words) : at[i] \in Levels
           /\ Candidates(Roots, Builtins, words) = at[Len(words)].names
<1> DEFINE n == Len(words)
           root == Level(RootTable(Roots, Builtins))
           Step(level, i) == Descend(level, words[i], n - i + 1)
           step == [i \in 1..n |-> [level \in Levels |-> Step(level, i)]]
           Walks(f) == f = [i \in 0..n |-> IF i = 0 THEN root ELSE Step(f[i - 1], i)]
           at == CHOOSE f : Walks(f)
<1>1. n \in Nat /\ root \in Levels
  BY KnownCommands, LevelType
<1>2. \A i \in 1..n : \A level \in Levels : step[i][level] = Step(level, i)
                                              /\ step[i][level] \in Levels
  BY DescendType
<1>3. Candidates(Roots, Builtins, words) = at[n].names
  BY DEF Candidates
<1> HIDE DEF root, Step, n
<1>4. PICK g : Walk(g, root, step, n, Levels)
  <2>1. StepsOn(step, n, Levels)
    BY <1>2 DEF StepsOn
  <2> HIDE DEF step
  <2> QED
    BY ONLY <1>1, <2>1, StepsCompose, Zenon
<1> HIDE DEF step
<1> DEFINE f == [i \in 0..n |-> g[i]]
<1>5. Walks(f)
  <2>1. ASSUME NEW i \in 0..n PROVE f[i] = IF i = 0 THEN root ELSE Step(f[i - 1], i)
    <3>1. CASE i = 0
      BY <1>4, <3>1 DEF Walk
    <3>2. CASE i # 0
      <4>1. i \in 1..n /\ i - 1 \in 0..n /\ f[i - 1] = g[i - 1]
        BY <1>1, <3>2
      <4> QED
        BY <1>2, <1>4, <3>2, <4>1 DEF Walk
    <3> QED
      BY <3>1, <3>2
  <2> HIDE DEF f
  <2>2. f = [i \in 0..n |-> f[i]]
    BY DEF f
  <2> QED
    BY <2>1, <2>2
<1>6. Walks(at)
  <2> HIDE DEF Walks, f
  <2> QED
    BY <1>5
<1> HIDE DEF at
<1>7. \A i \in 0..n : at[i] = IF i = 0 THEN root ELSE Step(at[i - 1], i)
  BY <1>6
<1> DEFINE T == {i \in Nat : i <= n => at[i] \in Levels}
<1>8. 0 \in T
  BY <1>1, <1>7
<1>9. ASSUME NEW i \in T PROVE i + 1 \in T
  <2> SUFFICES ASSUME i + 1 <= n PROVE at[i + 1] \in Levels
    OBVIOUS
  <2>1. i \in Nat /\ i + 1 \in 1..n /\ (i + 1) - 1 = i /\ at[i] \in Levels
    BY <1>1
  <2>2. at[i + 1] = Step(at[i], i + 1)
    BY <1>7, <2>1
  <2> QED
    BY <1>2, <2>1, <2>2
<1>10. T = Nat
  <2>1. T \in SUBSET Nat
    OBVIOUS
  <2> HIDE DEF T
  <2> QED
    BY <1>8, <1>9, <2>1, InductionOnNat
<1>11. \A i \in 0..n : at[i] \in Levels
  BY <1>1, <1>10
<1>12. at[0] = root /\ \A i \in 1..n : at[i] = Step(at[i - 1], i)
  BY <1>1, <1>7
<1> QED
  BY <1>3, <1>11, <1>12 DEF root, Step, n

\* Whatever the words, the candidates are lines.
LEMMA CandidatesType ==
  ASSUME NEW words, Len(words) \in Nat
  PROVE  Candidates(Roots, Builtins, words) \in Seq(Text)
<1>1. PICK at : /\ \A i \in 0..Len(words) : at[i] \in Levels
                /\ Candidates(Roots, Builtins, words) = at[Len(words)].names
  BY CandidatesWalk
<1>2. at[Len(words)] \in Levels
  BY <1>1
<1> QED
  BY <1>1, <1>2 DEF Levels

-----------------------------------------------------------------------------
\* Part of a line is a line.
LEMMA PartOfLine ==
  ASSUME NEW t \in Text, NEW m \in Nat \ {0}, NEW n \in Nat, n <= Len(t)
  PROVE  /\ SubSeq(t, m, n) \in Text
         /\ Len(SubSeq(t, m, n)) = IF m <= n THEN n - m + 1 ELSE 0
         /\ \A i \in 1..(n - m + 1) : SubSeq(t, m, n)[i] = t[m + i - 1]
<1>1. Len(t) \in Nat /\ \A i \in 1..Len(t) : t[i] \in CharCode
  BY ElementOfSeq, LenProperties DEF Text
<1>2. \A i \in m..n : t[i] \in CharCode
  BY <1>1
<1>3. m \in Int /\ n \in Int
  OBVIOUS
<1> QED
  BY <1>2, <1>3, SubSeqProperties DEF Text

\* A line cut at a place is what stands on both sides of it.
LEMMA CutLine ==
  ASSUME NEW t \in Text, NEW n \in 0..Len(t)
  PROVE  /\ SubSeq(t, 1, n) \in Text /\ Len(SubSeq(t, 1, n)) = n
         /\ SubSeq(t, n + 1, Len(t)) \in Text
         /\ Len(SubSeq(t, n + 1, Len(t))) = Len(t) - n
         /\ \A i \in 1..n : SubSeq(t, 1, n)[i] = t[i]
         /\ \A i \in 1..(Len(t) - n) : SubSeq(t, n + 1, Len(t))[i] = t[n + i]
         /\ SubSeq(t, 1, n) \o SubSeq(t, n + 1, Len(t)) = t
<1>0. Len(t) \in Nat /\ n \in Nat /\ n <= Len(t)
  BY LenProperties DEF Text
<1> DEFINE a == SubSeq(t, 1, n)
           b == SubSeq(t, n + 1, Len(t))
<1>1. a \in Text /\ Len(a) = n /\ \A i \in 1..n : a[i] = t[i]
  BY <1>0, PartOfLine
<1>2. /\ b \in Text /\ Len(b) = Len(t) - n
      /\ \A i \in 1..(Len(t) - n) : b[i] = t[n + i]
  <2>1. n + 1 \in Nat \ {0}
    BY <1>0
  <2>2. /\ b \in Text /\ Len(b) = IF n + 1 <= Len(t) THEN Len(t) - (n + 1) + 1 ELSE 0
        /\ \A i \in 1..(Len(t) - (n + 1) + 1) : b[i] = t[(n + 1) + i - 1]
    BY <1>0, <2>1, PartOfLine
  <2> HIDE DEF b
  <2>3. /\ Len(t) - (n + 1) + 1 = Len(t) - n
        /\ (IF n + 1 <= Len(t) THEN Len(t) - (n + 1) + 1 ELSE 0) = Len(t) - n
    BY <1>0
  <2>4. Len(b) = Len(t) - n
    BY <2>2, <2>3
  <2>5. ASSUME NEW i \in 1..(Len(t) - n) PROVE b[i] = t[n + i]
    <3>1. (n + 1) + i - 1 = n + i
      BY <1>0
    <3> QED
      BY <2>2, <2>3, <3>1
  <2> QED
    BY <2>2, <2>4, <2>5
<1> HIDE DEF a, b
<1>3. /\ a \o b \in Text /\ Len(a \o b) = Len(t)
      /\ \A i \in 1..Len(t) : (a \o b)[i] = IF i <= n THEN a[i] ELSE b[i - n]
  <2>1. /\ a \o b \in Seq(CharCode) /\ Len(a \o b) = Len(a) + Len(b)
        /\ \A i \in 1..(Len(a) + Len(b)) : (a \o b)[i] = IF i <= Len(a) THEN a[i]
                                                       ELSE b[i - Len(a)]
    BY <1>1, <1>2, ConcatProperties DEF Text
  <2>2. Len(a) + Len(b) = Len(t)
    BY <1>0, <1>1, <1>2
  <2> QED
    BY <1>1, <2>1, <2>2 DEF Text
<1>4. \A i \in 1..Len(t) : (a \o b)[i] = t[i]
  <2> SUFFICES ASSUME NEW i \in 1..Len(t) PROVE (a \o b)[i] = t[i]
    OBVIOUS
  <2>1. CASE i <= n
    BY <1>0, <1>1, <1>3, <2>1
  <2>2. CASE i > n
    <3>1. i - n \in 1..(Len(t) - n) /\ n + (i - n) = i
      BY <1>0, <2>2
    <3>2. (a \o b)[i] = b[i - n]
      BY <1>0, <1>3, <2>2
    <3>3. b[i - n] = t[n + (i - n)]
      BY <1>2, <3>1
    <3> QED
      BY <3>1, <3>2, <3>3
  <2>3. i <= n \/ i > n
    BY <1>0
  <2> QED
    BY <2>1, <2>2, <2>3
<1>5. a \o b = t
  BY <1>3, <1>4, SeqEqual DEF Text
<1> QED
  BY <1>1, <1>2, <1>5 DEF a, b

\* Two lines in a row are found again on both sides of the place between them.
LEMMA JoinLines ==
  ASSUME NEW a \in Text, NEW b \in Text
  PROVE  /\ a \o b \in Text /\ Len(a \o b) = Len(a) + Len(b)
         /\ Len(a) \in 0..Len(a \o b)
         /\ \A i \in 1..Len(a) : (a \o b)[i] = a[i]
         /\ SubSeq(a \o b, 1, Len(a)) = a
         /\ SubSeq(a \o b, Len(a) + 1, Len(a \o b)) = b
<1> DEFINE t == a \o b
<1>0. Len(a) \in Nat /\ Len(b) \in Nat
  BY LenProperties DEF Text
<1>1. /\ t \in Text /\ Len(t) = Len(a) + Len(b)
      /\ \A i \in 1..(Len(a) + Len(b)) : t[i] = IF i <= Len(a) THEN a[i] ELSE b[i - Len(a)]
  BY ConcatProperties DEF Text
<1> HIDE DEF t
<1>2. Len(a) \in 0..Len(t) /\ \A i \in 1..Len(a) : t[i] = a[i]
  BY <1>0, <1>1
<1>3. /\ SubSeq(t, 1, Len(a)) \in Text /\ Len(SubSeq(t, 1, Len(a))) = Len(a)
      /\ SubSeq(t, Len(a) + 1, Len(t)) \in Text
      /\ Len(SubSeq(t, Len(a) + 1, Len(t))) = Len(t) - Len(a)
      /\ \A i \in 1..Len(a) : SubSeq(t, 1, Len(a))[i] = t[i]
      /\ \A i \in 1..(Len(t) - Len(a)) : SubSeq(t, Len(a) + 1, Len(t))[i] = t[Len(a) + i]
  BY <1>1, <1>2, CutLine
<1>4. SubSeq(t, 1, Len(a)) = a
  BY <1>2, <1>3, SeqEqual DEF Text
<1>5. SubSeq(t, Len(a) + 1, Len(t)) = b
  <2>1. Len(t) - Len(a) = Len(b)
    BY <1>0, <1>1
  <2>2. \A i \in 1..Len(b) : t[Len(a) + i] = b[i]
    <3> SUFFICES ASSUME NEW i \in 1..Len(b) PROVE t[Len(a) + i] = b[i]
      OBVIOUS
    <3>1. /\ Len(a) + i \in 1..(Len(a) + Len(b)) /\ ~(Len(a) + i <= Len(a))
          /\ (Len(a) + i) - Len(a) = i
      BY <1>0
    <3> QED
      BY <1>1, <3>1
  <2> QED
    BY <1>3, <2>1, <2>2, SeqEqual DEF Text
<1> QED
  BY <1>1, <1>2, <1>4, <1>5 DEF t

-----------------------------------------------------------------------------
\* The words completion goes by, whatever the line.
LEMMA WordsBefore ==
  ASSUME NEW t \in Text, NEW prefix
  PROVE  /\ Before(Tokens(t, Capacity).words, prefix) \in Seq(Text)
         /\ Len(Before(Tokens(t, Capacity).words, prefix)) \in Nat
<1> DEFINE words == Tokens(t, Capacity).words
<1>1. words \in Seq(Text)
  <2>1. t \in Seq(1..255) /\ Capacity \in Nat
    BY CapacityAssumption DEF Text, CharCode
  <2> QED
    BY <2>1, WordsAreText DEF Text, CharCode
<1> HIDE DEF words
<1>2. Len(words) \in Nat /\ \A i \in 1..Len(words) : words[i] \in Text
  BY <1>1, ElementOfSeq, LenProperties
<1>3. CASE prefix # <<>> /\ words # <<>>
  <2>1. Len(words) # 0
    BY <1>1, <1>3, EmptySeq
  <2>2. 1 \in Int /\ Len(words) - 1 \in Nat /\ \A i \in 1..(Len(words) - 1) : words[i] \in Text
    BY <1>2, <2>1
  <2>3. SubSeq(words, 1, Len(words) - 1) \in Seq(Text)
    BY <2>2, SubSeqProperties
  <2>4. Before(words, prefix) = SubSeq(words, 1, Len(words) - 1)
    BY <1>3 DEF Before, Front
  <2> QED
    BY <2>3, <2>4, LenProperties DEF words
<1>4. CASE ~(prefix # <<>> /\ words # <<>>)
  BY <1>1, <1>2, <1>4 DEF Before, words
<1> QED
  BY <1>3, <1>4

\* The place around the cursor.
LEMMA TokenPlace ==
  ASSUME NEW t \in Text, NEW at \in 0..Len(t)
  PROVE  /\ TokenStart(t, at) \in 0..at
         /\ TokenEnd(t, at) \in at..Len(t)
         /\ \A i \in (at + 1)..TokenEnd(t, at) : ~IsSpace(t[i])
         /\ TokenEnd(t, at) < Len(t) => IsSpace(t[TokenEnd(t, at) + 1])
<1>0. Len(t) \in Nat /\ at \in Nat /\ at <= Len(t)
  BY LenProperties DEF Text
<1> DEFINE S == {s \in 0..at : s = 0 \/ IsSpace(t[s])}
           E == {e \in at..Len(t) : e = Len(t) \/ IsSpace(t[e + 1])}
<1>1. TokenStart(t, at) \in S
  <2>1. S \in SUBSET (0..at) /\ 0 \in S
    BY <1>0
  <2> HIDE DEF S
  <2>2. Max(S) \in S
    BY <1>0, <2>1, LastAndFirst
  <2> QED
    BY <2>2 DEF TokenStart, S
<1>2. /\ TokenEnd(t, at) \in E
      /\ \A e \in E : TokenEnd(t, at) <= e
  <2>1. E \in SUBSET (0..Len(t)) /\ Len(t) \in E
    BY <1>0
  <2> HIDE DEF E
  <2>2. Min(E) \in E /\ \A e \in E : Min(E) <= e
    BY <1>0, <2>1, LastAndFirst
  <2> QED
    BY <2>2 DEF TokenEnd, E
<1> DEFINE end == TokenEnd(t, at)
<1>3. end \in at..Len(t) /\ (end = Len(t) \/ IsSpace(t[end + 1])) /\ end \in Nat
  BY <1>0, <1>2
<1> HIDE DEF end
<1>4. ASSUME NEW i \in (at + 1)..end PROVE ~IsSpace(t[i])
  <2> SUFFICES ASSUME IsSpace(t[i]) PROVE FALSE
    OBVIOUS
  <2>1. i - 1 \in at..Len(t) /\ (i - 1) + 1 = i /\ ~(end <= i - 1)
    BY <1>0, <1>3
  <2>2. i - 1 \in E
    BY <2>1
  <2> QED
    BY <1>2, <2>1, <2>2 DEF end
<1> QED
  BY <1>0, <1>1, <1>3, <1>4 DEF end

\* A line in the place of t that keeps what is left of the cursor, replaces the
\* rest of the word there and keeps what follows it.
Extends(text, n, t, at) ==
  /\ text \in Text /\ n \in at..Len(text)
  /\ SubSeq(text, 1, at) = SubSeq(t, 1, at)
  /\ \E end \in at..Len(t) :
       /\ \A i \in (at + 1)..end : ~IsSpace(t[i])
       /\ end < Len(t) => IsSpace(t[end + 1])
       /\ SubSeq(text, n + 1, Len(text)) = SubSeq(t, end + 1, Len(t))

\* A word that begins with what is typed of it is put in so.
LEMMA Replaces ==
  ASSUME NEW t \in Text, NEW at \in 0..Len(t), NEW word \in Text, NEW unique, NEW limit,
         IsPrefix(SubSeq(t, TokenStart(t, at) + 1, at), word),
         NEW r, r = ReplaceToken(t, at, word, unique, limit), r.replaced, limit \in Nat
  PROVE  Extends(r.line, r.cursor, t, at) /\ Len(r.line) <= limit
<1> DEFINE start == TokenStart(t, at)
           end == TokenEnd(t, at)
           space == IF unique /\ (end = Len(t) \/ ~IsSpace(t[end + 1])) THEN <<Space>> ELSE <<>>
           a == SubSeq(t, 1, start)
           z == SubSeq(t, end + 1, Len(t))
           typed == SubSeq(t, start + 1, at)
           text == a \o word \o space \o z
<1>0. space \in Text
  <2>1. <<>> \in Text /\ <<Space>> \in Text
    <3>1. Space \in CharCode
      BY DEF Space, CharCode
    <3> QED
      BY <3>1 DEF Text
  <2> QED
    BY <2>1
<1>1. /\ Len(t) \in Nat /\ at \in Nat /\ at <= Len(t)
      /\ start \in Nat /\ start <= at
      /\ end \in at..Len(t)
      /\ \A i \in (at + 1)..end : ~IsSpace(t[i])
      /\ end < Len(t) => IsSpace(t[end + 1])
  BY TokenPlace, LenProperties DEF Text
<1>2. r.line = text /\ r.cursor = start + Len(word \o space) /\ Len(text) <= limit
  <2>1. r = IF Len(text) > limit THEN Unchanged(t, at)
            ELSE [line |-> text, cursor |-> start + Len(word \o space), replaced |-> TRUE]
    BY DEF ReplaceToken
  <2> HIDE DEF text, space, start
  <2>2. CASE Len(text) > limit
    BY <2>1, <2>2 DEF Unchanged
  <2>3. CASE ~(Len(text) > limit)
    <3>1. r = [line |-> text, cursor |-> start + Len(word \o space), replaced |-> TRUE]
      BY <2>1, <2>3
    <3>2. Len(text) \in Nat
      <4>1. a \in Text /\ z \in Text
        <5>1. start \in 0..Len(t) /\ end \in 0..Len(t)
          BY <1>1
        <5> HIDE DEF end
        <5> QED
          BY <5>1, CutLine
      <4> HIDE DEF a, z
      <4>2. text \in Text
        BY <1>0, <4>1, JoinLines DEF text
      <4> QED
        BY <4>2, LenProperties DEF Text
    <3> QED
      BY <2>3, <3>1, <3>2
  <2> QED
    BY <2>2, <2>3
<1>3. IsPrefix(typed, word)
  OBVIOUS
<1> HIDE DEF start, end
<1>4. /\ a \in Text /\ Len(a) = start /\ z \in Text
      /\ \A i \in 1..start : a[i] = t[i]
  <2>1. start \in 0..Len(t) /\ end \in 0..Len(t)
    BY <1>1
  <2> QED
    BY <2>1, CutLine
<1>5. /\ Len(typed) = at - start
      /\ \A i \in 1..(at - start) : typed[i] = t[start + i]
  <2>1. start + 1 \in Nat \ {0}
    BY <1>1
  <2>2. /\ Len(typed) = IF start + 1 <= at THEN at - (start + 1) + 1 ELSE 0
        /\ \A i \in 1..(at - (start + 1) + 1) : typed[i] = t[(start + 1) + i - 1]
    BY <1>1, <2>1, PartOfLine
  <2>3. /\ (IF start + 1 <= at THEN at - (start + 1) + 1 ELSE 0) = at - start
        /\ at - (start + 1) + 1 = at - start
    BY <1>1
  <2>4. ASSUME NEW i \in 1..(at - start) PROVE typed[i] = t[start + i]
    <3>1. (start + 1) + i - 1 = start + i
      BY <1>1
    <3> QED
      BY <2>2, <2>3, <3>1
  <2> QED
    BY <2>2, <2>3, <2>4
<1>6. /\ Len(word) \in Nat /\ at - start <= Len(word)
      /\ \A i \in 1..(at - start) : word[i] = t[start + i]
  <2> HIDE DEF typed
  <2>1. Len(word) \in Nat
    BY LenProperties DEF Text
  <2>2. Len(typed) <= Len(word) /\ SubSeq(typed, 1, Len(typed)) = SubSeq(word, 1, Len(typed))
    BY <1>3 DEF IsPrefix
  <2>3. typed \in Text
    <3>1. start + 1 \in Nat \ {0}
      BY <1>1
    <3> QED
      BY <1>1, <3>1, PartOfLine DEF typed
  <2>4. at - start \in 0..Len(typed) /\ at - start \in 0..Len(word)
    BY <1>1, <1>5, <2>1, <2>2
  <2>5. \A i \in 1..(at - start) : /\ SubSeq(typed, 1, at - start)[i] = typed[i]
                                   /\ SubSeq(word, 1, at - start)[i] = word[i]
    BY <2>3, <2>4, CutLine
  <2> QED
    BY <1>5, <2>1, <2>2, <2>5
<1> HIDE DEF a, z, typed, space
<1> DEFINE w == word \o space
           head == (a \o word) \o space
<1>8. /\ w \in Text /\ Len(w) = Len(word) + Len(space) /\ Len(space) \in Nat
      /\ a \o word \in Text /\ Len(a \o word) = start + Len(word)
      /\ \A i \in 1..start : (a \o word)[i] = a[i]
      /\ \A i \in 1..Len(word) : (a \o word)[start + i] = word[i]
  <2>1. w \in Text /\ Len(w) = Len(word) + Len(space) /\ Len(space) \in Nat
    BY <1>0, JoinLines, LenProperties DEF Text
  <2>2. /\ a \o word \in Text /\ Len(a \o word) = start + Len(word)
        /\ \A i \in 1..start : (a \o word)[i] = a[i]
    BY <1>4, JoinLines
  <2>3. ASSUME NEW i \in 1..Len(word) PROVE (a \o word)[start + i] = word[i]
    <3>1. \A j \in 1..(Len(a) + Len(word)) : (a \o word)[j] = IF j <= Len(a) THEN a[j]
                                                              ELSE word[j - Len(a)]
      BY <1>4, ConcatProperties DEF Text
    <3>2. /\ start + i \in 1..(Len(a) + Len(word)) /\ ~(start + i <= Len(a))
          /\ (start + i) - Len(a) = i
      BY <1>1, <1>4, <1>6
    <3> QED
      BY <3>1, <3>2
  <2> QED
    BY <2>1, <2>2, <2>3
<1>9. /\ head \in Text /\ Len(head) = r.cursor /\ text = head \o z
      /\ \A i \in 1..(start + Len(word)) : head[i] = (a \o word)[i]
  <2>1. head \in Text /\ Len(head) = Len(a \o word) + Len(space)
    BY <1>0, <1>8, JoinLines
  <2>2. \A i \in 1..Len(a \o word) : head[i] = (a \o word)[i]
    BY <1>0, <1>8, JoinLines
  <2>3. Len(a \o word) + Len(space) = start + Len(w)
    BY <1>1, <1>6, <1>8
  <2> QED
    BY <1>2, <1>8, <2>1, <2>2, <2>3
<1> HIDE DEF w
<1>10. \A i \in 1..at : head[i] = t[i]
  <2> SUFFICES ASSUME NEW i \in 1..at PROVE head[i] = t[i]
    OBVIOUS
  <2> HIDE DEF head
  <2>1. CASE i <= start
    <3>1. i \in 1..start /\ i \in 1..(start + Len(word))
      BY <1>1, <1>6, <2>1
    <3> QED
      BY <1>4, <1>8, <1>9, <3>1
  <2>2. CASE i > start
    <3>1. /\ i - start \in 1..(at - start) /\ i - start \in 1..Len(word)
          /\ i \in 1..(start + Len(word)) /\ start + (i - start) = i
      BY <1>1, <1>6, <2>2
    <3>2. word[i - start] = t[i] /\ (a \o word)[i] = word[i - start]
      BY <1>6, <1>8, <3>1
    <3> QED
      BY <1>9, <3>1, <3>2
  <2>3. i <= start \/ i > start
    BY <1>1
  <2> QED
    BY <2>1, <2>2, <2>3
<1> HIDE DEF head, text
<1>11. /\ text \in Text /\ Len(head) \in 0..Len(text) /\ Len(head) \in at..Len(text)
       /\ \A i \in 1..Len(head) : text[i] = head[i]
       /\ SubSeq(text, Len(head) + 1, Len(text)) = z
  <2>1. /\ text \in Text /\ Len(head) \in 0..Len(text)
        /\ \A i \in 1..Len(head) : text[i] = head[i]
        /\ SubSeq(text, Len(head) + 1, Len(text)) = z
    BY <1>4, <1>9, JoinLines, ZenonT(40)
  <2>2. Len(head) >= at
    BY <1>1, <1>2, <1>6, <1>8, <1>9 DEF w
  <2> QED
    BY <1>1, <2>1, <2>2, SMTT(20)
<1>12. SubSeq(text, 1, at) = SubSeq(t, 1, at)
  <2>1. Len(text) \in Nat /\ at \in 0..Len(text) /\ at \in 0..Len(t)
    BY <1>1, <1>11, LenProperties DEF Text
  <2>2. /\ SubSeq(text, 1, at) \in Text /\ Len(SubSeq(text, 1, at)) = at
        /\ \A i \in 1..at : SubSeq(text, 1, at)[i] = text[i]
        /\ SubSeq(t, 1, at) \in Text /\ Len(SubSeq(t, 1, at)) = at
        /\ \A i \in 1..at : SubSeq(t, 1, at)[i] = t[i]
    BY <1>11, <2>1, CutLine
  <2>3. \A i \in 1..at : text[i] = t[i]
    <3>1. \A i \in 1..at : i \in 1..Len(head)
      BY <1>1, <1>11
    <3> QED
      BY <1>10, <1>11, <3>1
  <2> QED
    BY <2>2, <2>3, SeqEqual DEF Text
<1> QED
  BY <1>1, <1>2, <1>9, <1>11, <1>12 DEF Extends, z

\* What completion puts in the line continues the word at the cursor.
LEMMA CompletedExtends ==
  ASSUME NEW t \in Text, NEW at \in 0..Len(t), NEW limit \in Nat,
         NEW r, r = Completed(Roots, Builtins, Capacity, t, at, limit), r.replaced
  PROVE  Extends(r.line, r.cursor, t, at) /\ Len(r.line) <= limit
<1> DEFINE left == Tokens(SubSeq(t, 1, at), Capacity)
           prefix == SubSeq(t, TokenStart(t, at) + 1, at)
           names == Candidates(Roots, Builtins, Before(left.words, prefix))
           matches == Matching(names, prefix)
           S == {name \in Text : IsPrefix(prefix, name)}
<1>1. prefix \in Text
  <2>0. Len(t) \in Nat /\ TokenStart(t, at) \in 0..at
    BY TokenPlace, LenProperties DEF Text
  <2>1. /\ TokenStart(t, at) + 1 \in Nat \ {0} /\ at \in Nat /\ at <= Len(t)
    BY <2>0
  <2> QED
    BY <2>1, PartOfLine
<1>2. names \in Seq(Text)
  <2>1. SubSeq(t, 1, at) \in Text
    BY CutLine
  <2> HIDE DEF prefix
  <2>2. Len(Before(left.words, prefix)) \in Nat
    BY <2>1, WordsBefore
  <2> HIDE DEF left
  <2> QED
    BY <2>2, CandidatesType
<1>3. r = Matched(matches, prefix, t, at, limit)
  <2>1. r = CompletedAfter(left, prefix, Roots, Builtins, t, at, limit)
    BY DEF Completed
  <2> HIDE DEF left, prefix
  <2>2. ~Unchanged(t, at).replaced
    BY DEF Unchanged
  <2> QED
    BY <2>1, <2>2 DEF CompletedAfter
<1> HIDE DEF prefix, names
<1>4. Len(matches) \in Nat /\ \A i \in 1..Len(matches) : matches[i] \in S
  <2>1. matches \in Seq(Text \cap {name \in ToSet(names) : IsPrefix(prefix, name)})
    BY <1>2, OnlyType DEF Matching
  <2>2. Text \cap {name \in ToSet(names) : IsPrefix(prefix, name)} \subseteq S
    OBVIOUS
  <2> HIDE DEF matches, S
  <2>3. matches \in Seq(S)
    BY <2>1, <2>2, SeqMonotonic
  <2> QED
    BY <2>3, ElementOfSeq, LenProperties
<1>5. matches # <<>> /\ ~Unchanged(t, at).replaced
  <2>1. ~Unchanged(t, at).replaced
    BY DEF Unchanged
  <2> HIDE DEF matches
  <2> QED
    BY <1>3, <2>1 DEF Matched
<1>6. Len(matches) # 0
  <2>1. matches \in Seq(Text \cap {name \in ToSet(names) : IsPrefix(prefix, name)})
    BY <1>2, OnlyType DEF Matching
  <2> HIDE DEF matches
  <2> QED
    BY <1>5, <2>1, EmptySeq
<1> HIDE DEF matches
<1>7. matches[1] \in Text /\ IsPrefix(prefix, matches[1])
  <2>1. 1 \in 1..Len(matches)
    BY <1>4, <1>6
  <2> QED
    BY <1>4, <2>1
<1>8. CASE Len(matches) = 1
  <2>1. r = ReplaceToken(t, at, matches[1], TRUE, limit)
    BY <1>3, <1>5, <1>8 DEF Matched
  <2> QED
    BY <1>7, <2>1, Replaces DEF prefix
<1>9. CASE Len(matches) # 1
  <2> DEFINE k == CommonLen(matches)
             word == SubSeq(matches[1], 1, k)
  <2>1. k > Len(prefix) /\ r = ReplaceToken(t, at, word, FALSE, limit)
    BY <1>3, <1>5, <1>9 DEF Matched
  <2>2. k \in 0..Len(matches[1]) /\ Len(matches[1]) \in Nat
    <3> DEFINE K == {j \in 0..Len(matches[1]) :
                       \A i \in DOMAIN matches : IsPrefix(SubSeq(matches[1], 1, j), matches[i])}
    <3>1. Len(matches[1]) \in Nat
      BY <1>7, LenProperties DEF Text
    <3>2. 0 \in K
      <4>1. /\ SubSeq(matches[1], 1, 0) = <<>>
            /\ \A i \in DOMAIN matches : Len(matches[i]) \in Nat
        <5>1. 1 \in Int /\ 0 \in Int /\ 0 < 1
          OBVIOUS
        <5>2. SubSeq(matches[1], 1, 0) = <<>>
          BY <5>1, SubSeqEmpty
        <5>3. DOMAIN matches = 1..Len(matches)
          <6>1. matches \in Seq(Text \cap {name \in ToSet(names) : IsPrefix(prefix, name)})
            BY <1>2, OnlyType DEF Matching, matches
          <6> QED
            BY <6>1, LenProperties
        <5>4. \A i \in 1..Len(matches) : Len(matches[i]) \in Nat
          BY <1>4, LenProperties DEF Text
        <5> QED
          BY <5>2, <5>3, <5>4
      <4>2. \A i \in DOMAIN matches : IsPrefix(<<>>, matches[i])
        <5> SUFFICES ASSUME NEW i \in DOMAIN matches PROVE IsPrefix(<<>>, matches[i])
          OBVIOUS
        <5>1. Len(<<>>) = 0 /\ 0 <= Len(matches[i])
          BY <4>1
        <5>2. SubSeq(<<>>, 1, 0) = <<>> /\ SubSeq(matches[i], 1, 0) = <<>>
          <6>1. 1 \in Int /\ 0 \in Int /\ 0 < 1
            OBVIOUS
          <6> QED
            BY <6>1, SubSeqEmpty
        <5> QED
          BY <5>1, <5>2 DEF IsPrefix
      <4>3. \A i \in DOMAIN matches : IsPrefix(SubSeq(matches[1], 1, 0), matches[i])
        BY ONLY <4>1, <4>2, Zenon
      <4>4. 0 \in 0..Len(matches[1])
        BY <3>1
      <4> QED
        BY <4>3, <4>4, Zenon
    <3>3. K \in SUBSET (0..Len(matches[1]))
      OBVIOUS
    <3> HIDE DEF K
    <3>4. Max(K) \in K
      BY <3>1, <3>2, <3>3, LastAndFirst
    <3>5. k = Max(K)
      BY DEF CommonLen, K
    <3> QED
      BY <3>1, <3>3, <3>4, <3>5
  <2> HIDE DEF k
  <2>3. /\ word \in Text /\ Len(word) = k
        /\ \A i \in 1..k : word[i] = matches[1][i]
    BY <1>7, <2>2, CutLine
  <2> HIDE DEF word
  <2>4. IsPrefix(prefix, word)
    <3>1. Len(prefix) \in Nat /\ Len(prefix) <= Len(word) /\ Len(prefix) \in 0..Len(word)
          /\ Len(prefix) \in 0..Len(matches[1])
      BY <1>1, <2>1, <2>2, <2>3, LenProperties DEF Text
    <3>2. /\ SubSeq(word, 1, Len(prefix)) \in Text
          /\ Len(SubSeq(word, 1, Len(prefix))) = Len(prefix)
          /\ SubSeq(matches[1], 1, Len(prefix)) \in Text
          /\ Len(SubSeq(matches[1], 1, Len(prefix))) = Len(prefix)
          /\ \A i \in 1..Len(prefix) : /\ SubSeq(word, 1, Len(prefix))[i] = word[i]
                                       /\ SubSeq(matches[1], 1, Len(prefix))[i] = matches[1][i]
      BY <1>7, <2>3, <3>1, CutLine
    <3>3. \A i \in 1..Len(prefix) : i \in 1..k
      BY <2>3, <3>1
    <3>4. SubSeq(word, 1, Len(prefix)) = SubSeq(matches[1], 1, Len(prefix))
      BY <2>3, <3>2, <3>3, SeqEqual DEF Text
    <3> QED
      BY <1>7, <3>1, <3>4 DEF IsPrefix
  <2> QED
    BY <2>1, <2>3, <2>4, Replaces DEF prefix
<1> QED
  BY <1>8, <1>9

-----------------------------------------------------------------------------
\* The last byte of the text is part of a word.
LastOpen(t) == t # <<>> /\ ~IsSpace(t[Len(t)])

\* One more byte at the end of a line.
LEMMA OneMore ==
  ASSUME NEW t \in Text, NEW b \in CharCode
  PROVE  /\ Append(t, b) \in Text /\ Len(t) \in Nat /\ Len(Append(t, b)) = Len(t) + 1
         /\ DOMAIN t = 1..Len(t) /\ DOMAIN Append(t, b) = 1..(Len(t) + 1)
         /\ \A i \in 1..Len(t) : Append(t, b)[i] = t[i]
         /\ Append(t, b)[Len(t) + 1] = b
         /\ (t = <<>> <=> Len(t) = 0)
         /\ LastOpen(Append(t, b)) <=> ~IsSpace(b)
<1>1. /\ Append(t, b) \in Text /\ Len(t) \in Nat /\ Len(Append(t, b)) = Len(t) + 1
      /\ \A i \in 1..Len(t) : Append(t, b)[i] = t[i]
      /\ Append(t, b)[Len(t) + 1] = b /\ Append(t, b) # <<>>
  BY AppendProperties, LenProperties DEF Text
<1>2. DOMAIN t = 1..Len(t) /\ DOMAIN Append(t, b) = 1..(Len(t) + 1)
  <2>1. DOMAIN Append(t, b) = 1..Len(Append(t, b))
    BY <1>1, LenProperties DEF Text
  <2> QED
    BY <1>1, <2>1, LenProperties DEF Text
<1>3. t = <<>> <=> Len(t) = 0
  <2>1. Len(<<>>) = 0
    OBVIOUS
  <2> QED
    BY <2>1, EmptySeq DEF Text
<1>4. LastOpen(Append(t, b)) <=> ~IsSpace(b)
  BY <1>1 DEF LastOpen
<1> QED
  BY <1>1, <1>2, <1>3, <1>4

\* A run begins at a byte that is no space and does not continue one.
LEMMA StartsAppend ==
  ASSUME NEW t \in Text, NEW b \in CharCode
  PROVE  /\ RunStarts(<<>>) = <<>> /\ RunStarts(t) \in Seq(1..Len(t))
         /\ RunStarts(Append(t, b))
              = IF ~IsSpace(b) /\ ~LastOpen(t) THEN Append(RunStarts(t), Len(t) + 1)
                ELSE RunStarts(t)
<1> DEFINE N == Len(t)
           u == Append(t, b)
           Kt == {i \in DOMAIN t : ~IsSpace(t[i]) /\ (i = 1 \/ IsSpace(t[i - 1]))}
           Ku == {i \in DOMAIN u : ~IsSpace(u[i]) /\ (i = 1 \/ IsSpace(u[i - 1]))}
           f == [i \in 1..N |-> i]
           g == [i \in 1..(N + 1) |-> i]
<1>1. /\ N \in Nat /\ u \in Text /\ DOMAIN t = 1..N /\ DOMAIN u = 1..(N + 1)
      /\ \A i \in 1..N : u[i] = t[i]
      /\ u[N + 1] = b /\ (t = <<>> <=> N = 0)
  BY OneMore
<1>2. RunStarts(t) = Only(f, Kt) /\ RunStarts(u) = Only(g, Ku)
  BY <1>1 DEF RunStarts
<1>3. RunStarts(<<>>) = <<>>
  <2>1. [i \in DOMAIN <<>> |-> i] = <<>>
    OBVIOUS
  <2>2. PICK K : RunStarts(<<>>) = Only(<<>>, K)
    BY <2>1 DEF RunStarts
  <2>3. Len(<<>>) = 0 /\ 0 \in Nat
    OBVIOUS
  <2> QED
    BY <2>2, <2>3, OnlyKept
<1> HIDE DEF u, N
<1>4. /\ f \in Seq(1..N) /\ Len(f) = N /\ f \in Seq(Nat)
      /\ g \in Seq(Nat) /\ Len(g) = N + 1
  <2>1. f \in Seq(1..N) /\ Len(f) = N
    <3>1. f = [i \in 1..N |-> f[i]] /\ \A i \in 1..N : f[i] \in 1..N
      OBVIOUS
    <3> HIDE DEF f
    <3> QED
      BY <1>1, <3>1, SequenceOf
  <2>2. g \in Seq(Nat) /\ Len(g) = N + 1
    <3>1. /\ g = [i \in 1..(N + 1) |-> g[i]] /\ \A i \in 1..(N + 1) : g[i] \in Nat
          /\ N + 1 \in Nat
      BY <1>1
    <3> HIDE DEF g
    <3> QED
      BY <3>1, SequenceOf
  <2>3. f \in Seq(Nat)
    <3>1. 1..N \subseteq Nat
      BY <1>1
    <3> HIDE DEF f
    <3> QED
      BY <2>1, <3>1, SeqMonotonic
  <2> HIDE DEF f, g
  <2> QED
    BY <2>1, <2>2, <2>3
<1>5. g = Append(f, N + 1)
  <2>1. /\ Append(f, N + 1) \in Seq(Nat) /\ Len(Append(f, N + 1)) = N + 1
        /\ \A i \in 1..N : Append(f, N + 1)[i] = f[i]
        /\ Append(f, N + 1)[N + 1] = N + 1
    <3>1. N + 1 \in Nat
      BY <1>1
    <3> HIDE DEF f
    <3> QED
      BY <1>4, <3>1, AppendProperties
  <2>2. \A i \in 1..(N + 1) : g[i] = i /\ (i = N + 1 \/ i \in 1..N)
    BY <1>1
  <2>3. \A i \in 1..N : f[i] = i
    OBVIOUS
  <2> HIDE DEF f, g
  <2>4. \A i \in 1..(N + 1) : g[i] = Append(f, N + 1)[i]
    BY <2>1, <2>2, <2>3
  <2> QED
    BY <1>4, <2>1, <2>4, SeqEqual
<1>6. RunStarts(t) \in Seq(1..N)
  <2>1. (1..N) \cap Kt \subseteq 1..N
    OBVIOUS
  <2> HIDE DEF f, Kt, Ku
  <2>2. Only(f, Kt) \in Seq((1..N) \cap Kt)
    BY <1>4, OnlyType
  <2> QED
    BY <1>2, <2>1, <2>2, SeqMonotonic
<1>7. (1..N) \cap Kt = (1..N) \cap Ku
  <2>1. \A i \in 1..N : i # 1 => i - 1 \in 1..N
    BY <1>1
  <2>2. 1..N \subseteq 1..(N + 1)
    BY <1>1
  <2> QED
    BY <1>1, <2>1, <2>2
<1>8. N + 1 \in Ku <=> ~IsSpace(b) /\ ~LastOpen(t)
  <2>1. N + 1 \in 1..(N + 1) /\ (N + 1) - 1 = N /\ (N + 1 = 1 <=> N = 0)
    BY <1>1
  <2>2. N # 0 => N \in 1..N
    BY <1>1
  <2> QED
    BY <1>1, <2>1, <2>2 DEF LastOpen, N
<1>9. Only(f, Ku) = Only(f, Kt)
  <2> DEFINE I == 1..N
  <2>1. f \in Seq(I) /\ I \cap Ku = I \cap Kt
    BY <1>4, <1>7
  <2> HIDE DEF f, Kt, Ku, I
  <2> QED
    BY ONLY <2>1, OnlyAgrees
<1>10. Only(g, Ku) = IF N + 1 \in Ku THEN Append(Only(f, Ku), N + 1)
                        ELSE Only(f, Ku)
  <2>1. N + 1 \in Nat
    BY <1>1
  <2> DEFINE e == N + 1
             S == Nat
  <2>2. f \in Seq(S) /\ e \in S
    BY <1>4, <2>1
  <2>3. g = Append(f, e)
    BY <1>5
  <2> HIDE DEF f, g, Kt, Ku, e, S
  <2>4. Only(Append(f, e), Ku) = IF e \in Ku THEN Append(Only(f, Ku), e) ELSE Only(f, Ku)
    BY ONLY <2>2, OnlyAppend
  <2> QED
    BY <2>3, <2>4 DEF e
<1> HIDE DEF f, g, Kt, Ku
<1> QED
  BY <1>2, <1>3, <1>6, <1>8, <1>9, <1>10 DEF N, u

\* Where the word at a place ends.
LEMMA EndIs ==
  ASSUME NEW t \in Text, NEW at \in 0..Len(t), NEW e \in at..Len(t),
         \A i \in (at + 1)..e : ~IsSpace(t[i]), e < Len(t) => IsSpace(t[e + 1])
  PROVE  TokenEnd(t, at) = e
<1> DEFINE d == TokenEnd(t, at)
<1>1. /\ d \in at..Len(t) /\ \A i \in (at + 1)..d : ~IsSpace(t[i])
      /\ d < Len(t) => IsSpace(t[d + 1])
  BY TokenPlace
<1> HIDE DEF d
<1>2. Len(t) \in Nat /\ at \in Nat /\ d \in Nat /\ e \in Nat
  BY <1>1, LenProperties DEF Text
<1>3. ~(d < e)
  <2> SUFFICES ASSUME d < e PROVE FALSE
    OBVIOUS
  <2>1. d + 1 \in (at + 1)..e /\ d < Len(t)
    BY <1>1, <1>2
  <2> QED
    BY <1>1, <2>1
<1>4. ~(e < d)
  <2> SUFFICES ASSUME e < d PROVE FALSE
    OBVIOUS
  <2>1. e + 1 \in (at + 1)..d /\ e < Len(t)
    BY <1>1, <1>2
  <2> QED
    BY <1>1, <2>1
<1> QED
  BY <1>2, <1>3, <1>4 DEF d

LEMMA EndAppend ==
  ASSUME NEW t \in Text, NEW b \in CharCode, NEW at \in 0..Len(t)
  PROVE  TokenEnd(Append(t, b), at)
           = IF TokenEnd(t, at) = Len(t) /\ ~IsSpace(b) THEN Len(t) + 1 ELSE TokenEnd(t, at)
<1> DEFINE N == Len(t)
           u == Append(t, b)
           d == TokenEnd(t, at)
           e == IF d = N /\ ~IsSpace(b) THEN N + 1 ELSE d
<1>1. /\ N \in Nat /\ u \in Text /\ Len(u) = N + 1
      /\ \A i \in 1..N : u[i] = t[i]
      /\ u[N + 1] = b
  BY OneMore
<1>2. /\ d \in at..N /\ \A i \in (at + 1)..d : ~IsSpace(t[i])
      /\ d < N => IsSpace(t[d + 1])
  BY TokenPlace
<1> HIDE DEF u, d
<1>3. at \in Nat /\ at <= N /\ d \in Nat /\ d <= N /\ at <= d
  BY <1>1, <1>2
<1>4. at \in 0..Len(u) /\ e \in at..Len(u)
  BY <1>1, <1>3
<1>5. ASSUME NEW i \in (at + 1)..e PROVE ~IsSpace(u[i])
  <2>1. CASE i <= d
    <3>1. i \in 1..N /\ i \in (at + 1)..d
      BY <1>3, <2>1
    <3> QED
      BY <1>1, <1>2, <3>1
  <2>2. CASE ~(i <= d)
    <3>1. i = N + 1 /\ ~IsSpace(b)
      BY <1>3, <2>2
    <3> QED
      BY <1>1, <3>1
  <2> QED
    BY <2>1, <2>2
<1>6. ASSUME e < Len(u) PROVE IsSpace(u[e + 1])
  <2>1. CASE d = N
    <3>1. IsSpace(b) /\ e = N
      BY <1>1, <1>6, <2>1
    <3> QED
      BY <1>1, <3>1
  <2>2. CASE d # N
    <3>1. e = d /\ d < N /\ d + 1 \in 1..N
      BY <1>3, <2>2
    <3> QED
      BY <1>1, <1>2, <3>1
  <2> QED
    BY <2>1, <2>2
<1> HIDE DEF e
<1>7. TokenEnd(u, at) = e
  BY <1>1, <1>4, <1>5, <1>6, EndIs
<1> QED
  BY <1>7 DEF e, d, u, N

-----------------------------------------------------------------------------
\* Every run ends before the end of the text but the last, if the text ends in it.
RunsEnd(t) ==
  /\ \A k \in 1..Len(RunStarts(t)) :
       /\ RunStarts(t)[k] \in 1..Len(t)
       /\ TokenEnd(t, RunStarts(t)[k]) \in RunStarts(t)[k]..Len(t)
       /\ TokenEnd(t, RunStarts(t)[k]) = Len(t) => k = Len(RunStarts(t)) /\ LastOpen(t)
  /\ LastOpen(t) => /\ Len(RunStarts(t)) # 0
                    /\ TokenEnd(t, RunStarts(t)[Len(RunStarts(t))]) = Len(t)

LEMMA RunsEndAppend ==
  ASSUME NEW t \in Text, RunsEnd(t), NEW b \in CharCode
  PROVE  RunsEnd(Append(t, b))
<1> DEFINE N == Len(t)
           u == Append(t, b)
           f == RunStarts(t)
           g == RunStarts(u)
           n == Len(f)
<1>1. /\ N \in Nat /\ u \in Text /\ Len(u) = N + 1 /\ u[N + 1] = b
      /\ (LastOpen(u) <=> ~IsSpace(b))
  BY OneMore
<1>2. /\ f \in Seq(1..N) /\ g = IF ~IsSpace(b) /\ ~LastOpen(t) THEN Append(f, N + 1) ELSE f
  BY StartsAppend
<1>3. n \in Nat /\ \A k \in 1..n : f[k] \in 1..N
  BY <1>2, ElementOfSeq, LenProperties
<1>4. /\ \A k \in 1..n : /\ TokenEnd(t, f[k]) \in f[k]..N
                         /\ TokenEnd(t, f[k]) = N => k = n /\ LastOpen(t)
      /\ LastOpen(t) => n # 0 /\ TokenEnd(t, f[n]) = N
  BY DEF RunsEnd
<1>5. \A k \in 1..n : TokenEnd(u, f[k])
        = IF TokenEnd(t, f[k]) = N /\ ~IsSpace(b) THEN N + 1 ELSE TokenEnd(t, f[k])
  <2>1. \A k \in 1..n : f[k] \in 0..N
    BY <1>1, <1>3
  <2> HIDE DEF f
  <2> QED
    BY <2>1, EndAppend
<1> HIDE DEF N, u, f, g
<1> SUFFICES /\ \A k \in 1..Len(g) :
                  /\ g[k] \in 1..(N + 1) /\ TokenEnd(u, g[k]) \in g[k]..(N + 1)
                  /\ TokenEnd(u, g[k]) = N + 1 => k = Len(g) /\ ~IsSpace(b)
             /\ ~IsSpace(b) => Len(g) # 0 /\ TokenEnd(u, g[Len(g)]) = N + 1
  BY <1>1 DEF RunsEnd, g, u
<1>6. CASE IsSpace(b)
  <2>1. g = f
    BY <1>2, <1>6
  <2>2. ASSUME NEW k \in 1..n
        PROVE  /\ f[k] \in 1..(N + 1) /\ TokenEnd(u, f[k]) \in f[k]..(N + 1)
               /\ TokenEnd(u, f[k]) # N + 1
    <3>1. f[k] \in 1..N /\ TokenEnd(u, f[k]) = TokenEnd(t, f[k]) /\ TokenEnd(t, f[k]) \in f[k]..N
      BY <1>3, <1>4, <1>5, <1>6
    <3> QED
      BY <1>1, <3>1
  <2> QED
    BY <1>6, <2>1, <2>2
<1>7. CASE ~IsSpace(b) /\ LastOpen(t)
  <2>1. g = f /\ n # 0 /\ TokenEnd(t, f[n]) = N /\ n \in 1..n
    BY <1>2, <1>3, <1>4, <1>7
  <2>2. ASSUME NEW k \in 1..n
        PROVE  /\ f[k] \in 1..(N + 1) /\ TokenEnd(u, f[k]) \in f[k]..(N + 1)
               /\ TokenEnd(u, f[k]) = N + 1 => k = n
    <3>1. f[k] \in 1..N /\ TokenEnd(t, f[k]) \in f[k]..N
      BY <1>3, <1>4
    <3>2. TokenEnd(u, f[k]) = N + 1 \/ TokenEnd(u, f[k]) = TokenEnd(t, f[k])
      BY <1>5
    <3>3. TokenEnd(t, f[k]) # N => TokenEnd(u, f[k]) = TokenEnd(t, f[k])
      BY <1>5
    <3> QED
      BY <1>1, <1>4, <3>1, <3>2, <3>3
  <2>3. TokenEnd(u, f[n]) = N + 1
    BY <1>5, <1>7, <2>1
  <2> QED
    BY ONLY <1>7, <2>1, <2>2, <2>3
<1>8. CASE ~IsSpace(b) /\ ~LastOpen(t)
  <2>1. g = Append(f, N + 1)
    BY <1>2, <1>8
  <2>2. Len(g) = n + 1 /\ g[n + 1] = N + 1 /\ \A k \in 1..n : g[k] = f[k]
    <3>1. f \in Seq(Nat) /\ N + 1 \in Nat
      <4>1. 1..N \subseteq Nat /\ N + 1 \in Nat
        BY <1>1
      <4> QED
        BY <1>2, <4>1, SeqMonotonic
    <3> QED
      BY <2>1, <3>1, AppendProperties
  <2>3. TokenEnd(u, N + 1) = N + 1
    <3>1. N + 1 \in 0..Len(u) /\ (N + 1)..Len(u) = {N + 1}
      BY <1>1
    <3> QED
      BY <1>1, <3>1, TokenPlace
  <2>4. ASSUME NEW k \in 1..(n + 1)
        PROVE  /\ g[k] \in 1..(N + 1) /\ TokenEnd(u, g[k]) \in g[k]..(N + 1)
               /\ TokenEnd(u, g[k]) = N + 1 => k = n + 1
    <3>1. CASE k = n + 1
      BY <1>1, <2>2, <2>3, <3>1
    <3>2. CASE k # n + 1
      <4>1. k \in 1..n /\ g[k] = f[k]
        BY <1>3, <2>2, <3>2
      <4>2. f[k] \in 1..N /\ TokenEnd(t, f[k]) \in f[k]..N /\ TokenEnd(t, f[k]) # N
        BY <1>3, <1>4, <1>8, <4>1
      <4>3. TokenEnd(u, f[k]) = TokenEnd(t, f[k])
        BY <1>5, <4>1, <4>2
      <4> QED
        BY <1>1, <4>1, <4>2, <4>3
    <3> QED
      BY <3>1, <3>2
  <2>5. n + 1 \in Nat /\ n + 1 # 0
    BY <1>3
  <2> QED
    BY ONLY <1>8, <2>2, <2>3, <2>4, <2>5
<1> QED
  BY <1>6, <1>7, <1>8

LEMMA AllRunsEnd == ASSUME NEW t \in Text PROVE RunsEnd(t)
<1> DEFINE T == {s \in Text : RunsEnd(s)}
<1>1. <<>> \in T
  <2>1. <<>> \in Text /\ RunStarts(<<>>) = <<>> /\ ~LastOpen(<<>>) /\ Len(<<>>) = 0
    <3>1. 1 \in CharCode /\ <<>> \in Text
      BY DEF Text, CharCode
    <3> QED
      BY <3>1, StartsAppend DEF LastOpen
  <2> QED
    BY <2>1 DEF RunsEnd
<1>2. ASSUME NEW s \in Seq(CharCode), s \in T, NEW b \in CharCode PROVE Append(s, b) \in T
  <2>1. Append(s, b) \in Text
    BY OneMore DEF Text
  <2> QED
    BY <1>2, <2>1, RunsEndAppend DEF Text
<1>3. Seq(CharCode) \subseteq T
  <2> HIDE DEF T
  <2> QED
    BY <1>1, <1>2, InductionOnSeq
<1> QED
  BY <1>3 DEF Text

\* Part of a line with a byte more is part of the line, or ends in that byte.
LEMMA PartAppend ==
  ASSUME NEW t \in Text, NEW b \in CharCode, NEW m \in 1..(Len(t) + 1), NEW n \in 0..Len(t)
  PROVE  /\ SubSeq(Append(t, b), m, n) = SubSeq(t, m, n) /\ SubSeq(t, m, n) \in Text
         /\ SubSeq(Append(t, b), m, Len(t) + 1) = Append(SubSeq(t, m, Len(t)), b)
<1> DEFINE N == Len(t)
           u == Append(t, b)
<1>1. /\ N \in Nat /\ u \in Text /\ Len(u) = N + 1 /\ u[N + 1] = b
      /\ \A i \in 1..N : u[i] = t[i]
  BY OneMore
<1> HIDE DEF N, u
<1>2. m \in Nat \ {0} /\ n \in Nat /\ n <= N /\ m <= N + 1
  BY <1>1 DEF N
<1>3. SubSeq(t, m, n) \in Text /\ SubSeq(t, m, N) \in Text
  BY <1>1, <1>2, PartOfLine DEF N
<1>4. ASSUME NEW k \in 0..N PROVE SubSeq(u, m, k) = SubSeq(t, m, k)
  <2>0. k \in Nat /\ k <= N /\ k <= Len(u)
    BY <1>1
  <2>1. /\ SubSeq(t, m, k) \in Text /\ SubSeq(u, m, k) \in Text
        /\ Len(SubSeq(t, m, k)) = IF m <= k THEN k - m + 1 ELSE 0
        /\ Len(SubSeq(u, m, k)) = IF m <= k THEN k - m + 1 ELSE 0
        /\ \A i \in 1..(k - m + 1) : SubSeq(t, m, k)[i] = t[m + i - 1]
        /\ \A i \in 1..(k - m + 1) : SubSeq(u, m, k)[i] = u[m + i - 1]
    BY <1>1, <1>2, <2>0, PartOfLine DEF N
  <2>2. \A i \in 1..(k - m + 1) : m + i - 1 \in 1..N
    BY <1>1, <1>2, <2>0
  <2>3. \A i \in 1..Len(SubSeq(t, m, k)) : i \in 1..(k - m + 1)
    BY <1>2, <2>0, <2>1
  <2>4. \A i \in 1..Len(SubSeq(t, m, k)) : SubSeq(t, m, k)[i] = SubSeq(u, m, k)[i]
    BY <1>1, <2>1, <2>2, <2>3
  <2> QED
    BY <2>1, <2>4, SeqEqual DEF Text
<1>5. SubSeq(u, m, N + 1) = Append(SubSeq(t, m, N), b)
  <2>1. m \in 1..Len(u) /\ Len(u) \in m..Len(u) /\ Len(u) - 1 = N /\ N \in 0..N
    BY <1>1, <1>2
  <2>2. SubSeq(u, m, Len(u)) = SubSeq(u, m, Len(u) - 1) \o <<u[Len(u)]>>
    BY <1>1, <2>1, SubSeqRecursiveSecond DEF Text
  <2>3. SubSeq(u, m, N + 1) = SubSeq(t, m, N) \o <<b>>
    BY <1>1, <1>4, <2>1, <2>2
  <2> QED
    BY <1>3, <2>3, AppendIsConcat DEF Text
<1> QED
  BY <1>3, <1>4, <1>5 DEF N, u

\* How the words of a text grow with it.
LEMMA PlainAppend ==
  ASSUME NEW t \in Text, NEW b \in CharCode
  PROVE  /\ PlainWords(<<>>) = <<>> /\ PlainWords(t) \in Seq(Text)
         /\ LastOpen(t) => PlainWords(t) # <<>>
         /\ IsSpace(b) => PlainWords(Append(t, b)) = PlainWords(t)
         /\ ~IsSpace(b) /\ ~LastOpen(t) =>
              PlainWords(Append(t, b)) = Append(PlainWords(t), Append(<<>>, b))
         /\ ~IsSpace(b) /\ LastOpen(t) =>
              \A ws \in Seq(Text), w \in Text : PlainWords(t) = Append(ws, w) =>
                PlainWords(Append(t, b)) = Append(ws, Append(w, b))
<1> DEFINE N == Len(t)
           u == Append(t, b)
           f == RunStarts(t)
           g == RunStarts(u)
           n == Len(f)
           p == PlainWords(t)
           q == PlainWords(u)
<1>1. /\ N \in Nat /\ u \in Text /\ Len(u) = N + 1 /\ u[N + 1] = b
      /\ (LastOpen(u) <=> ~IsSpace(b))
  BY OneMore
<1>2. /\ RunStarts(<<>>) = <<>> /\ f \in Seq(1..N)
      /\ g = IF ~IsSpace(b) /\ ~LastOpen(t) THEN Append(f, N + 1) ELSE f
  BY StartsAppend
<1>3. n \in Nat /\ DOMAIN f = 1..n /\ \A k \in 1..n : f[k] \in 1..N
  BY <1>2, ElementOfSeq, LenProperties
<1>4. /\ \A k \in 1..n : /\ TokenEnd(t, f[k]) \in f[k]..N
                         /\ TokenEnd(t, f[k]) = N => k = n /\ LastOpen(t)
      /\ LastOpen(t) => n # 0 /\ TokenEnd(t, f[n]) = N
  BY AllRunsEnd DEF RunsEnd
<1>5. \A k \in 1..n : TokenEnd(u, f[k])
        = IF TokenEnd(t, f[k]) = N /\ ~IsSpace(b) THEN N + 1 ELSE TokenEnd(t, f[k])
  <2>1. \A k \in 1..n : f[k] \in 0..N
    BY <1>1, <1>3
  <2> HIDE DEF f
  <2> QED
    BY <2>1, EndAppend
<1>6. /\ p = [k \in 1..n |-> SubSeq(t, f[k], TokenEnd(t, f[k]))]
      /\ q = [k \in DOMAIN g |-> SubSeq(u, g[k], TokenEnd(u, g[k]))]
  BY <1>3 DEF PlainWords
<1>7. PlainWords(<<>>) = <<>>
  BY <1>2 DEF PlainWords
<1> HIDE DEF N, u, f, g, p, q
<1>8. ASSUME NEW k \in 1..n
      PROVE  /\ SubSeq(t, f[k], TokenEnd(t, f[k])) \in Text
             /\ SubSeq(u, f[k], TokenEnd(t, f[k])) = SubSeq(t, f[k], TokenEnd(t, f[k]))
             /\ SubSeq(u, f[k], N + 1) = Append(SubSeq(t, f[k], N), b)
  <2>1. f[k] \in 1..(N + 1) /\ TokenEnd(t, f[k]) \in 0..N
    <3>1. f[k] \in 1..N /\ TokenEnd(t, f[k]) \in f[k]..N
      BY <1>3, <1>4
    <3> QED
      BY ONLY <1>1, <3>1
  <2> QED
    BY <2>1, PartAppend DEF N, u
<1>9. p \in Seq(Text) /\ Len(p) = n
  <2>1. p = [k \in 1..n |-> p[k]] /\ \A k \in 1..n : p[k] \in Text
    BY <1>6, <1>8
  <2> QED
    BY <1>3, <2>1, SequenceOf
<1>10. LastOpen(t) => p # <<>>
  <2>1. Len(<<>>) = 0
    OBVIOUS
  <2> QED
    BY <1>4, <1>9, <2>1
<1>11. ASSUME IsSpace(b) PROVE q = p
  <2>1. g = f
    BY <1>2, <1>11
  <2>2. \A k \in 1..n : TokenEnd(u, f[k]) = TokenEnd(t, f[k])
    BY <1>5, <1>11
  <2>3. q = [k \in 1..n |-> SubSeq(u, f[k], TokenEnd(u, f[k]))]
    BY <1>3, <1>6, <2>1
  <2>4. \A k \in 1..n : SubSeq(u, f[k], TokenEnd(u, f[k])) = SubSeq(t, f[k], TokenEnd(t, f[k]))
    BY <1>8, <2>2
  <2> QED
    BY <1>6, <2>3, <2>4
<1>12. ASSUME ~IsSpace(b), ~LastOpen(t) PROVE q = Append(p, Append(<<>>, b))
  <2> DEFINE word == Append(<<>>, b)
  <2>1. g = Append(f, N + 1)
    BY <1>2, <1>12
  <2>2. DOMAIN g = 1..(n + 1) /\ g[n + 1] = N + 1 /\ \A k \in 1..n : g[k] = f[k]
    <3>1. f \in Seq(Nat) /\ N + 1 \in Nat
      <4>1. 1..N \subseteq Nat /\ N + 1 \in Nat
        BY <1>1
      <4> QED
        BY <1>2, <4>1, SeqMonotonic
    <3>2. g \in Seq(Nat) /\ Len(g) = n + 1
      BY <2>1, <3>1, AppendProperties
    <3> QED
      BY <2>1, <3>1, <3>2, AppendProperties, LenProperties
  <2>3. SubSeq(u, N + 1, TokenEnd(u, N + 1)) = word /\ word \in Text
    <3>1. N + 1 \in 0..Len(u) /\ (N + 1)..Len(u) = {N + 1}
      BY <1>1
    <3>2. TokenEnd(u, N + 1) = N + 1
      BY <1>1, <3>1, TokenPlace
    <3>3. N + 1 \in 1..(N + 1) /\ N \in 0..N
      BY <1>1
    <3>4. SubSeq(u, N + 1, N + 1) = Append(SubSeq(t, N + 1, N), b)
      BY <3>3, PartAppend DEF N, u
    <3>5. SubSeq(t, N + 1, N) = <<>>
      BY <1>1, SubSeqEmpty
    <3>6. word \in Text
      BY AppendProperties DEF Text
    <3> QED
      BY <3>2, <3>4, <3>5, <3>6
  <2> HIDE DEF word
  <2>4. /\ Append(p, word) \in Seq(Text) /\ Len(Append(p, word)) = n + 1
        /\ Append(p, word)[n + 1] = word /\ \A k \in 1..n : Append(p, word)[k] = p[k]
    BY <1>9, <2>3, AppendProperties
  <2>5. /\ q = [k \in 1..(n + 1) |-> q[k]] /\ q[n + 1] = word /\ \A k \in 1..n : q[k] = p[k]
    <3>1. n + 1 \in 1..(n + 1) /\ 1..n \subseteq 1..(n + 1)
      BY <1>3
    <3>2. q = [k \in 1..(n + 1) |-> SubSeq(u, g[k], TokenEnd(u, g[k]))]
      BY <1>6, <2>2
    <3>3. \A k \in 1..n : TokenEnd(u, f[k]) = TokenEnd(t, f[k])
      BY <1>4, <1>5, <1>12
    <3>4. \A k \in 1..n : q[k] = SubSeq(u, f[k], TokenEnd(t, f[k]))
      BY <2>2, <3>1, <3>2, <3>3
    <3>5. \A k \in 1..n : q[k] = p[k]
      BY <1>6, <1>8, <3>4
    <3> QED
      BY <2>2, <2>3, <3>1, <3>2, <3>5
  <2>6. \A k \in 1..(n + 1) : q[k] = Append(p, word)[k] /\ q[k] \in Text
    <3>1. \A k \in 1..(n + 1) : k = n + 1 \/ k \in 1..n
      BY <1>3
    <3>2. \A k \in 1..n : p[k] \in Text
      BY <1>9, ElementOfSeq
    <3> QED
      BY <2>3, <2>4, <2>5, <3>1, <3>2
  <2>7. q \in Seq(Text) /\ Len(q) = n + 1
    <3>1. n + 1 \in Nat
      BY <1>3
    <3> QED
      BY <2>5, <2>6, <3>1, SequenceOf
  <2> QED
    BY <2>4, <2>6, <2>7, SeqEqual DEF word
<1>13. ASSUME ~IsSpace(b), LastOpen(t), NEW ws \in Seq(Text), NEW w \in Text,
              p = Append(ws, w)
       PROVE  q = Append(ws, Append(w, b))
  <2> DEFINE m == Len(ws)
             word == Append(w, b)
  <2>1. m \in Nat /\ n = m + 1 /\ p[m + 1] = w /\ \A k \in 1..m : p[k] = ws[k]
    BY <1>9, <1>13, AppendProperties, LenProperties
  <2>2. word \in Text
    BY AppendProperties DEF Text
  <2> HIDE DEF word
  <2>3. /\ Append(ws, word) \in Seq(Text) /\ Len(Append(ws, word)) = n
        /\ Append(ws, word)[n] = word /\ \A k \in 1..m : Append(ws, word)[k] = ws[k]
    BY <2>1, <2>2, AppendProperties
  <2>4. g = f
    BY <1>2, <1>13
  <2>5. q = [k \in 1..n |-> SubSeq(u, f[k], TokenEnd(u, f[k]))]
    BY <1>3, <1>6, <2>4
  <2> HIDE DEF m
  <2>6. q[n] = word
    <3>1. n \in 1..n
      BY <2>1
    <3>2. TokenEnd(t, f[n]) = N /\ TokenEnd(u, f[n]) = N + 1
      BY <1>4, <1>5, <1>13, <3>1
    <3>3. q[n] = Append(SubSeq(t, f[n], N), b)
      BY <1>8, <2>5, <3>1, <3>2
    <3>4. SubSeq(t, f[n], N) = w
      BY <1>6, <2>1, <3>1, <3>2
    <3> QED
      BY <3>3, <3>4 DEF word
  <2>7. ASSUME NEW k \in 1..m PROVE q[k] = ws[k]
    <3>1. k \in 1..n /\ k # n
      BY <2>1
    <3>2. TokenEnd(u, f[k]) = TokenEnd(t, f[k])
      BY <1>4, <1>5, <3>1
    <3>3. q[k] = SubSeq(t, f[k], TokenEnd(t, f[k]))
      BY <1>8, <2>5, <3>1, <3>2
    <3> QED
      BY <1>6, <2>1, <3>1, <3>3
  <2>8. \A k \in 1..n : q[k] = Append(ws, word)[k] /\ q[k] \in Text
    <3>1. \A k \in 1..n : k = n \/ k \in 1..m
      BY <2>1
    <3>2. \A k \in 1..m : ws[k] \in Text
      BY ElementOfSeq DEF m
    <3> QED
      BY <2>2, <2>3, <2>6, <2>7, <3>1, <3>2
  <2>9. q \in Seq(Text) /\ Len(q) = n
    <3>1. q = [k \in 1..n |-> q[k]]
      BY <2>5
    <3> QED
      BY <1>3, <2>8, <3>1, SequenceOf
  <2> QED
    BY <2>3, <2>8, <2>9, SeqEqual DEF word
<1> QED
  BY <1>7, <1>9, <1>10, <1>11, <1>12, <1>13 DEF p, q, u

-----------------------------------------------------------------------------
\* Text without quotes and escapes.
Plain(t) == \A i \in 1..Len(t) : t[i] \notin Quotes \cup {Backslash}

\* A reader of such text finds its words, or more than it has room for.
ReadPlainly(t, s, capacity) ==
  IF s.full THEN Len(PlainWords(t)) > capacity
  ELSE /\ ~s.escaped /\ s.quote = NUL /\ (s.open <=> LastOpen(t))
       /\ IF s.open THEN PlainWords(t) = Append(s.words, s.word)
          ELSE s.word = <<>> /\ PlainWords(t) = s.words

LEMMA ReadPlainlyAppend ==
  ASSUME NEW t \in Text, NEW b \in CharCode, b \notin Quotes \cup {Backslash},
         NEW capacity \in Nat, NEW s \in ReaderOf(CharCode), s \in Reader,
         ReadPlainly(t, s, capacity)
  PROVE  ReadPlainly(Append(t, b), Reads(s, b, capacity), capacity)
<1> DEFINE u == Append(t, b)
           p == PlainWords(t)
           q == PlainWords(u)
           r == Reads(s, b, capacity)
<1>1. /\ p \in Seq(Text) /\ (LastOpen(t) => p # <<>>)
      /\ IsSpace(b) => q = p
      /\ ~IsSpace(b) /\ ~LastOpen(t) => q = Append(p, Append(<<>>, b))
      /\ ~IsSpace(b) /\ LastOpen(t) =>
           \A ws \in Seq(Text), w \in Text : p = Append(ws, w) => q = Append(ws, Append(w, b))
  BY PlainAppend
<1>2. LastOpen(u) <=> ~IsSpace(b)
  BY OneMore
<1>3. /\ s.words \in Seq(Text) /\ s.word \in Text /\ Append(<<>>, b) \in Text
      /\ Append(s.word, b) \in Text /\ b \in Octet /\ Len(p) \in Nat
  <2>1. s.words \in Seq(Text) /\ s.word \in Text /\ b \in Octet
    BY DEF ReaderOf, Text, CharCode, Octet
  <2>2. <<>> \in Text
    BY DEF Text
  <2>3. Append(<<>>, b) \in Text /\ Append(s.word, b) \in Text
    BY <2>1, <2>2, AppendProperties DEF Text
  <2> QED
    BY <1>1, <2>1, <2>3, LenProperties
<1> HIDE DEF u, p, q
<1>4. CASE s.full
  <2>1. r = s
    BY <1>4 DEF Reads
  <2>2. Len(p) > capacity
    BY <1>4 DEF ReadPlainly, p
  <2>3. Len(q) \in Nat /\ Len(q) >= Len(p)
    <3>1. CASE IsSpace(b)
      BY <1>1, <1>3, <3>1
    <3>2. CASE ~IsSpace(b) /\ ~LastOpen(t)
      BY <1>1, <1>3, <3>2, AppendProperties
    <3>3. CASE ~IsSpace(b) /\ LastOpen(t)
      <4>1. PICK ws \in Seq(Text), w \in Text : p = Append(ws, w)
        BY <1>1, <3>3, SequenceEmptyOrAppend
      <4>2. q = Append(ws, Append(w, b)) /\ Append(w, b) \in Text
        BY <1>1, <3>3, <4>1, AppendProperties DEF Text
      <4>3. Len(p) = Len(ws) + 1 /\ Len(q) = Len(ws) + 1 /\ Len(ws) \in Nat
        BY <4>1, <4>2, AppendProperties, LenProperties
      <4> QED
        BY <4>3
    <3> QED
      BY <3>1, <3>2, <3>3
  <2> QED
    BY <1>3, <1>4, <2>1, <2>2, <2>3 DEF ReadPlainly, q, u
<1>5. CASE ~s.full
  <2>0. /\ ~s.escaped /\ s.quote = NUL /\ (s.open <=> LastOpen(t))
        /\ s.open => p = Append(s.words, s.word)
        /\ ~s.open => s.word = <<>> /\ p = s.words
    BY <1>5 DEF ReadPlainly, p
  <2>1. CASE ~s.open /\ IsSpace(b)
    <3>1. r = s
      BY <2>1 DEF Reads
    <3> HIDE DEF r
    <3> QED
      BY <1>1, <1>2, <1>5, <2>0, <2>1, <3>1 DEF ReadPlainly, q, u, r
  <2>2. CASE ~s.open /\ ~IsSpace(b) /\ Len(s.words) = capacity
    <3>1. r.full
      BY <1>5, <2>2 DEF Reads, Reader
    <3>2. Len(q) = capacity + 1
      BY <1>1, <1>3, <2>0, <2>2, AppendProperties
    <3> QED
      BY <3>1, <3>2 DEF ReadPlainly, q, u
  <2> DEFINE o == [s EXCEPT !.open = TRUE]
  <2>3. /\ o \in Reader /\ o.open /\ o.words = s.words /\ o.word = s.word
        /\ ~o.full /\ ~o.escaped /\ o.quote = NUL
    BY <1>5, <2>0 DEF Reader
  <2> HIDE DEF o
  <2>4. b # Backslash /\ b # NUL /\ b \notin Quotes
    BY DEF NUL, CharCode
  <2>5. CASE ~IsSpace(b) /\ ~(~s.open /\ Len(s.words) = capacity)
    <3>1. r = Within(o, b)
      BY <1>5, <2>5 DEF Reads, o
    <3>2. /\ ~r.full /\ r.words = s.words /\ r.word = Append(s.word, b)
          /\ r.open /\ r.quote = NUL /\ ~r.escaped
      BY <1>3, <2>3, <2>4, <2>5, <3>1, WithinPlain
    <3>3. q = Append(s.words, Append(s.word, b))
      BY <1>1, <1>3, <2>0, <2>5
    <3> HIDE DEF r
    <3> QED
      BY <1>2, <2>5, <3>2, <3>3 DEF ReadPlainly, q, u, r
  <2>6. CASE s.open /\ IsSpace(b)
    <3>1. r = Within(o, b)
      BY <1>5, <2>6 DEF Reads, o
    <3>2. /\ ~r.full /\ r.words = Append(s.words, s.word) /\ r.word = <<>>
          /\ ~r.open /\ r.quote = NUL /\ ~r.escaped
      BY <1>3, <2>3, <2>4, <2>6, <3>1, WithinBlank
    <3>3. q = Append(s.words, s.word)
      BY <1>1, <2>0, <2>6
    <3> HIDE DEF r
    <3> QED
      BY <1>2, <2>6, <3>2, <3>3 DEF ReadPlainly, q, u, r
  <2> QED
    BY <2>1, <2>2, <2>5, <2>6
<1> QED
  BY <1>4, <1>5

\* What the tokenizer makes of text without quotes and escapes: its words, if they fit.
LEMMA PlainTokens ==
  ASSUME NEW t \in Text, Plain(t), NEW capacity \in Nat
  PROVE  IF Tokens(t, capacity).status = "SH_OK" THEN Tokens(t, capacity).words = PlainWords(t)
         ELSE Len(PlainWords(t)) > capacity
<1> DEFINE Good(s) == /\ Reading(s, capacity) \in ReaderOf(CharCode)
                      /\ HasRoom(Reading(s, capacity), capacity)
                      /\ ReadPlainly(s, Reading(s, capacity), capacity)
           T == {s \in Text : Plain(s) => Good(s)}
<1>1. CharCode \subseteq Octet /\ Text \subseteq Seq(Octet)
  <2>1. CharCode \subseteq Octet
    BY DEF CharCode, Octet
  <2> QED
    BY <2>1, SeqMonotonic DEF Text
<1>2. <<>> \in T
  <2>1. <<>> \in Text /\ <<>> \in Seq(CharCode) /\ <<>> \in Seq(Seq(CharCode)) /\ Len(<<>>) = 0
    BY DEF Text
  <2>2. NUL \in Octet /\ 0 \in Octet
    BY DEF NUL, Octet
  <2>3. Reading(<<>>, capacity) = Unread
    BY <1>1, <2>1, <2>2, ReadingAppend
  <2>4. Unread \in ReaderOf(CharCode) /\ HasRoom(Unread, capacity)
    BY <2>1, <2>2 DEF Unread, ReaderOf, HasRoom
  <2>5. PlainWords(<<>>) = <<>> /\ ~LastOpen(<<>>)
    <3>1. 1 \in CharCode
      BY DEF CharCode
    <3> QED
      BY <2>1, <3>1, PlainAppend DEF LastOpen
  <2>6. ReadPlainly(<<>>, Unread, capacity)
    BY <2>5 DEF ReadPlainly, Unread
  <2> QED
    BY <2>1, <2>3, <2>4, <2>6
<1>3. ASSUME NEW s \in Seq(CharCode), s \in T, NEW b \in CharCode PROVE Append(s, b) \in T
  <2>0. s \in Text /\ s \in Seq(Octet) /\ b \in Octet
    BY <1>1 DEF Text
  <2> SUFFICES ASSUME Plain(Append(s, b)) PROVE Append(s, b) \in Text /\ Good(Append(s, b))
    BY <2>0, OneMore
  <2>1. /\ Append(s, b) \in Text /\ Len(s) \in Nat /\ Len(Append(s, b)) = Len(s) + 1
        /\ \A i \in 1..Len(s) : Append(s, b)[i] = s[i]
        /\ Append(s, b)[Len(s) + 1] = b
    BY <2>0, OneMore
  <2>2. Plain(s) /\ b \notin Quotes \cup {Backslash}
    <3>1. Len(s) + 1 \in 1..(Len(s) + 1) /\ 1..Len(s) \subseteq 1..(Len(s) + 1)
      BY <2>1
    <3> QED
      BY <2>1, <3>1 DEF Plain
  <2>3. Good(s)
    BY <1>3, <2>2
  <2>4. /\ Reading(s, capacity) \in Reader
        /\ Reading(Append(s, b), capacity) = Reads(Reading(s, capacity), b, capacity)
    BY <2>0, ReadingAppend
  <2>5. /\ Reads(Reading(s, capacity), b, capacity) \in ReaderOf(CharCode)
        /\ HasRoom(Reads(Reading(s, capacity), b, capacity), capacity)
    BY <2>0, <2>3, ReadsText
  <2>6. ReadPlainly(Append(s, b), Reads(Reading(s, capacity), b, capacity), capacity)
    BY <2>0, <2>2, <2>3, <2>4, ReadPlainlyAppend
  <2> QED
    BY <2>1, <2>4, <2>5, <2>6
<1>4. Seq(CharCode) \subseteq T
  <2> HIDE DEF T
  <2> QED
    BY <1>2, <1>3, InductionOnSeq
<1> DEFINE end == Reading(t, capacity)
<1>5. ReadPlainly(t, end, capacity)
  BY <1>4 DEF Text
<1>6. Tokens(t, capacity).status = StatusAt(end) /\ Tokens(t, capacity).words = WordsAt(end)
  BY DEF Tokens, Outcome
<1> HIDE DEF end
<1> QED
  BY <1>5, <1>6 DEF ReadPlainly, StatusAt, WordsAt

LEMMA ConcatAppend ==
  ASSUME NEW S, NEW s \in Seq(S), NEW t \in Seq(S), NEW e \in S
  PROVE  s \o Append(t, e) = Append(s \o t, e)
<1>1. <<e>> \in Seq(S) /\ s \o t \in Seq(S)
  BY ConcatProperties
<1>2. Append(t, e) = t \o <<e>> /\ Append(s \o t, e) = (s \o t) \o <<e>>
  BY <1>1, AppendIsConcat
<1> QED
  BY <1>1, <1>2, ConcatAssociative

\* A word put at the end of a text is its last word.
LEMMA PlainWord ==
  ASSUME NEW a \in Text, ~LastOpen(a), NEW word \in Text, word # <<>>, NoSpace(word)
  PROVE  PlainWords(a \o word) = Append(PlainWords(a), word) /\ LastOpen(a \o word)
<1> DEFINE Good(w) == PlainWords(a \o w) = Append(PlainWords(a), w) /\ LastOpen(a \o w)
           T == {w \in Text : w # <<>> /\ NoSpace(w) => Good(w)}
<1>1. <<>> \in T
  BY DEF Text
<1>2. ASSUME NEW w \in Seq(CharCode), w \in T, NEW b \in CharCode PROVE Append(w, b) \in T
  <2> DEFINE v == Append(w, b)
  <2>1. /\ w \in Text /\ v \in Text /\ Len(w) \in Nat /\ Len(v) = Len(w) + 1
        /\ v[Len(w) + 1] = b /\ \A i \in 1..Len(w) : v[i] = w[i]
    BY OneMore DEF Text
  <2>2. a \o v = Append(a \o w, b) /\ a \o w \in Text
    BY <2>1, ConcatAppend, ConcatProperties DEF Text
  <2> HIDE DEF v
  <2> SUFFICES ASSUME NoSpace(v) PROVE Good(v)
    BY <2>1 DEF v
  <2>3. ~IsSpace(b) /\ NoSpace(w)
    <3>1. Len(w) + 1 \in 1..(Len(w) + 1) /\ 1..Len(w) \subseteq 1..(Len(w) + 1)
      BY <2>1
    <3> QED
      BY <2>1, <3>1 DEF NoSpace
  <2>4. LastOpen(a \o v)
    BY <2>2, <2>3, OneMore
  <2>5. CASE w = <<>>
    <3>1. a \o w = a
      BY <2>5, ConcatEmptySeq DEF Text
    <3>2. PlainWords(Append(a, b)) = Append(PlainWords(a), Append(<<>>, b))
      BY <2>3, PlainAppend
    <3> QED
      BY <2>2, <2>4, <2>5, <3>1, <3>2 DEF v
  <2>6. CASE w # <<>>
    <3> DEFINE x == a \o w
               ws == PlainWords(a)
    <3>1. x \in Text /\ PlainWords(x) = Append(ws, w) /\ LastOpen(x)
      BY <1>2, <2>2, <2>3, <2>6
    <3>2. ws \in Seq(Text)
      BY PlainAppend
    <3> HIDE DEF x, ws
    <3>3. PlainWords(Append(x, b)) = Append(ws, Append(w, b))
      <4>1. \A vs \in Seq(Text), z \in Text : PlainWords(x) = Append(vs, z) =>
              PlainWords(Append(x, b)) = Append(vs, Append(z, b))
        BY <2>3, <3>1, PlainAppend
      <4> QED
        BY <2>1, <3>1, <3>2, <4>1
    <3>4. PlainWords(Append(a \o w, b)) = Append(PlainWords(a), Append(w, b))
      BY <3>3 DEF x, ws
    <3> QED
      BY <2>2, <2>4, <3>4 DEF v
  <2> QED
    BY <2>5, <2>6
<1>3. Seq(CharCode) \subseteq T
  <2> HIDE DEF T
  <2> QED
    BY <1>1, <1>2, InductionOnSeq
<1> QED
  BY <1>3 DEF Text

-----------------------------------------------------------------------------
\* A prefix, by its bytes.
LEMMA PrefixBytes ==
  ASSUME NEW s \in Text, NEW t \in Text
  PROVE  /\ IsPrefix(s, t) <=> Len(s) <= Len(t) /\ \A i \in 1..Len(s) : s[i] = t[i]
         /\ IsPrefix(s, t) => s = SubSeq(t, 1, Len(s)) /\ Len(s) \in 0..Len(t)
<1>1. Len(s) \in Nat /\ Len(t) \in Nat /\ Len(s) \in 0..Len(s)
  BY LenProperties DEF Text
<1>2. SubSeq(s, 1, Len(s)) = s
  BY SubSeqFull DEF Text
<1>3. CASE Len(s) <= Len(t)
  <2>1. Len(s) \in 0..Len(t)
    BY <1>1, <1>3
  <2>2. /\ SubSeq(t, 1, Len(s)) \in Text /\ Len(SubSeq(t, 1, Len(s))) = Len(s)
        /\ \A i \in 1..Len(s) : SubSeq(t, 1, Len(s))[i] = t[i]
    BY <2>1, CutLine
  <2>3. (\A i \in 1..Len(s) : s[i] = t[i]) => s = SubSeq(t, 1, Len(s))
    BY <2>2, SeqEqual DEF Text
  <2> QED
    BY <1>2, <1>3, <2>1, <2>2, <2>3 DEF IsPrefix
<1>4. CASE ~(Len(s) <= Len(t))
  BY <1>4 DEF IsPrefix
<1> QED
  BY <1>3, <1>4

\* What is to the left of the cursor: the words before, and what is typed of the next.
LEMMA BeforeCursor ==
  ASSUME NEW t \in Text, NEW at \in 0..Len(t)
  PROVE  /\ TokenStart(t, at) \in 0..at
         /\ SubSeq(t, 1, TokenStart(t, at)) \in Text
         /\ SubSeq(t, TokenStart(t, at) + 1, at) \in Text
         /\ Len(SubSeq(t, TokenStart(t, at) + 1, at)) = at - TokenStart(t, at)
         /\ ~LastOpen(SubSeq(t, 1, TokenStart(t, at)))
         /\ NoSpace(SubSeq(t, TokenStart(t, at) + 1, at))
         /\ Before(PlainWords(SubSeq(t, 1, at)), SubSeq(t, TokenStart(t, at) + 1, at))
              = PlainWords(SubSeq(t, 1, TokenStart(t, at)))
<1> DEFINE start == TokenStart(t, at)
           a == SubSeq(t, 1, start)
           prefix == SubSeq(t, start + 1, at)
           left == SubSeq(t, 1, at)
           S == {s \in 0..at : s = 0 \/ IsSpace(t[s])}
<1>1. Len(t) \in Nat /\ at \in Nat /\ at <= Len(t)
  BY LenProperties DEF Text
<1>2. start \in S /\ \A s \in S : s <= start
  <2>1. S \in SUBSET (0..at) /\ 0 \in S
    BY <1>1
  <2> HIDE DEF S
  <2>2. Max(S) \in S /\ \A s \in S : s <= Max(S)
    BY <1>1, <2>1, LastAndFirst
  <2> QED
    BY <2>2 DEF TokenStart, S
<1> HIDE DEF start
<1>3. /\ start \in 0..at /\ start \in Nat /\ (start = 0 \/ IsSpace(t[start]))
      /\ \A i \in (start + 1)..at : ~IsSpace(t[i])
  <2>1. start \in 0..at /\ start \in Nat /\ (start = 0 \/ IsSpace(t[start]))
    BY <1>1, <1>2
  <2>2. ASSUME NEW i \in (start + 1)..at, IsSpace(t[i]) PROVE FALSE
    <3>1. i \in 0..at /\ ~(i <= start)
      BY <2>1
    <3>2. i \in S
      BY <2>2, <3>1
    <3> QED
      BY <1>2, <3>1, <3>2
  <2> QED
    BY <2>1, <2>2
<1>4. /\ a \in Text /\ Len(a) = start /\ \A i \in 1..start : a[i] = t[i]
  <2>1. start \in 0..Len(t)
    BY <1>1, <1>3
  <2> QED
    BY <2>1, CutLine
<1>5. /\ prefix \in Text /\ Len(prefix) = at - start
      /\ \A i \in 1..(at - start) : prefix[i] = t[start + i]
  <2>1. start + 1 \in Nat \ {0}
    BY <1>3
  <2>2. /\ prefix \in Text
        /\ Len(prefix) = IF start + 1 <= at THEN at - (start + 1) + 1 ELSE 0
        /\ \A i \in 1..(at - (start + 1) + 1) : prefix[i] = t[(start + 1) + i - 1]
    BY <1>1, <2>1, PartOfLine
  <2> HIDE DEF prefix
  <2>3. Len(prefix) = at - start /\ at - (start + 1) + 1 = at - start
    BY <1>1, <1>3, <2>2
  <2>4. ASSUME NEW i \in 1..(at - start) PROVE prefix[i] = t[start + i]
    <3>1. (start + 1) + i - 1 = start + i
      BY <1>3
    <3> QED
      BY <2>2, <2>3, <3>1
  <2> QED
    BY <2>2, <2>3, <2>4
<1>6. ~LastOpen(a)
  <2>1. Len(<<>>) = 0 /\ (Len(a) = 0 => a = <<>>)
    BY <1>4, EmptySeq DEF Text
  <2>2. start # 0 => start \in 1..start
    BY <1>3
  <2> HIDE DEF a
  <2> QED
    BY <1>3, <1>4, <2>1, <2>2 DEF LastOpen
<1>7. NoSpace(prefix)
  <2> HIDE DEF prefix
  <2>1. \A i \in 1..(at - start) : start + i \in (start + 1)..at
    BY <1>1, <1>3
  <2> QED
    BY <1>3, <1>5, <2>1 DEF NoSpace
<1>8. left = a \o prefix
  <2>1. 1 \in 1..(Len(t) + 1) /\ start \in 0..Len(t) /\ start \in (1 - 1)..Len(t)
        /\ at \in start..Len(t)
    BY <1>1, <1>3
  <2> QED
    BY <2>1, ConcatAdjacentSubSeq DEF Text
<1> HIDE DEF a, prefix, left
<1>9. Before(PlainWords(left), prefix) = PlainWords(a)
  <2>1. CASE prefix = <<>>
    <3>1. left = a
      BY <1>4, <1>8, <2>1, ConcatEmptySeq DEF Text
    <3> QED
      BY <2>1, <3>1 DEF Before
  <2>2. CASE prefix # <<>>
    <3> DEFINE ws == PlainWords(a)
    <3>1. PlainWords(left) = Append(ws, prefix)
      BY <1>4, <1>5, <1>6, <1>7, <1>8, <2>2, PlainWord
    <3>2. ws \in Seq(Text)
      <4>1. 1 \in CharCode
        BY DEF CharCode
      <4> QED
        BY <1>4, <4>1, PlainAppend
    <3> HIDE DEF ws
    <3>3. /\ Append(ws, prefix) # <<>> /\ Len(Append(ws, prefix)) = Len(ws) + 1
          /\ Append(ws, prefix) = ws \o <<prefix>> /\ Len(ws) \in Nat
          /\ <<prefix>> \in Seq(Text)
      BY <1>5, <3>2, AppendProperties, AppendIsConcat, LenProperties
    <3>4. Front(Append(ws, prefix)) = SubSeq(Append(ws, prefix), 1, Len(ws))
      <4>1. Len(Append(ws, prefix)) - 1 = Len(ws)
        BY <3>3
      <4> QED
        BY <4>1 DEF Front
    <3>5. SubSeq(Append(ws, prefix), 1, Len(ws)) = ws
      <4>1. Append(ws, prefix) \in Seq(Text) /\ \A i \in 1..Len(ws) : Append(ws, prefix)[i] = ws[i]
        BY <1>5, <3>2, AppendProperties
      <4>2. \A i \in 1..Len(ws) : ws[i] \in Text /\ 1 + i - 1 = i
        BY <3>2, <3>3, ElementOfSeq
      <4> DEFINE n == Len(ws)
                 z == Append(ws, prefix)
      <4> HIDE DEF n, z
      <4>3. n \in Nat /\ \A i \in 1..n : z[i] \in Text
        BY <3>3, <4>1, <4>2 DEF n, z
      <4>4. 1 \in Int /\ n \in Int /\ n - 1 + 1 = n /\ (IF 1 <= n THEN n ELSE 0) = n
        BY <4>3
      <4>5. /\ SubSeq(z, 1, n) \in Seq(Text) /\ Len(SubSeq(z, 1, n)) = n
            /\ \A i \in 1..n : SubSeq(z, 1, n)[i] = z[1 + i - 1]
        <5>1. /\ SubSeq(z, 1, n) \in Seq(Text)
              /\ Len(SubSeq(z, 1, n)) = IF 1 <= n THEN n - 1 + 1 ELSE 0
              /\ \A i \in 1..(n - 1 + 1) : SubSeq(z, 1, n)[i] = z[1 + i - 1]
          BY ONLY <4>3, <4>4, SubSeqProperties
        <5> QED
          BY <4>4, <5>1
      <4>6. \A i \in 1..n : SubSeq(z, 1, n)[i] = ws[i]
        BY <4>1, <4>2, <4>5 DEF n, z
      <4>7. SubSeq(z, 1, n) = ws
        BY <3>2, <4>5, <4>6, SeqEqual DEF n
      <4> QED
        BY <4>7 DEF n, z
    <3> QED
      BY <2>2, <3>1, <3>3, <3>4, <3>5 DEF Before, ws
  <2> QED
    BY <2>1, <2>2
<1> QED
  BY <1>3, <1>4, <1>5, <1>6, <1>7, <1>9 DEF start, a, prefix, left

-----------------------------------------------------------------------------
\* What names have in common.
LEMMA CommonFacts ==
  ASSUME NEW m \in Seq(Text), m # <<>>
  PROVE  /\ m[1] \in Text /\ CommonLen(m) \in 0..Len(m[1])
         /\ \A i \in 1..Len(m) : IsPrefix(SubSeq(m[1], 1, CommonLen(m)), m[i])
         /\ \A k \in 0..Len(m[1]) :
              (\A i \in 1..Len(m) : IsPrefix(SubSeq(m[1], 1, k), m[i])) => k <= CommonLen(m)
<1>1. /\ Len(m) \in Nat \ {0} /\ DOMAIN m = 1..Len(m) /\ m[1] \in Text /\ Len(m[1]) \in Nat
      /\ \A i \in 1..Len(m) : m[i] \in Text
  <2>1. Len(m) \in Nat \ {0} /\ DOMAIN m = 1..Len(m) /\ \A i \in 1..Len(m) : m[i] \in Text
    BY EmptySeq, ElementOfSeq, LenProperties
  <2>2. m[1] \in Text
    BY <2>1
  <2> QED
    BY <2>1, <2>2, LenProperties DEF Text
<1> DEFINE K == {k \in 0..Len(m[1]) :
                   \A i \in DOMAIN m : IsPrefix(SubSeq(m[1], 1, k), m[i])}
<1>2. K \in SUBSET (0..Len(m[1]))
  OBVIOUS
<1>3. 0 \in K
  <2>1. 0 \in 0..Len(m[1])
    BY <1>1
  <2>2. SubSeq(m[1], 1, 0) \in Text /\ Len(SubSeq(m[1], 1, 0)) = 0
    BY <1>1, <2>1, CutLine
  <2>3. ASSUME NEW i \in 1..Len(m) PROVE IsPrefix(SubSeq(m[1], 1, 0), m[i])
    <3>1. Len(m[i]) \in Nat /\ m[i] \in Text
      BY <1>1, LenProperties DEF Text
    <3>2. 1..0 = {} /\ 0 <= Len(m[i])
      BY <3>1
    <3> QED
      BY <2>2, <3>1, <3>2, PrefixBytes
  <2> QED
    BY <1>1, <2>1, <2>3
<1>4. CommonLen(m) = Max(K)
  BY DEF CommonLen
<1>5. Max(K) \in K /\ \A k \in K : k <= Max(K)
  <2> HIDE DEF K
  <2> QED
    BY <1>1, <1>2, <1>3, LastAndFirst
<1> QED
  BY <1>1, <1>4, <1>5

LEMMA LongestCommon ==
  ASSUME NEW m \in Seq(Text), m # <<>>
  PROVE  LongestCommonPrefix(ToSet(m)) = SubSeq(m[1], 1, CommonLen(m))
<1> DEFINE c == CommonLen(m)
           first == m[1]
           common == SubSeq(first, 1, c)
           CP == CommonPrefixes(ToSet(m))
<1>1. /\ first \in Text /\ c \in 0..Len(first)
      /\ \A i \in 1..Len(m) : IsPrefix(common, m[i])
      /\ \A k \in 0..Len(first) :
           (\A i \in 1..Len(m) : IsPrefix(SubSeq(first, 1, k), m[i])) => k <= c
  BY CommonFacts
<1> HIDE DEF c
<1>2. /\ ToSet(m) = {m[i] : i \in 1..Len(m)} /\ 1 \in 1..Len(m)
      /\ \A i \in 1..Len(m) : m[i] \in Text
  <2>1. Len(m) \in Nat \ {0} /\ DOMAIN m = 1..Len(m)
    BY EmptySeq, LenProperties
  <2> QED
    BY <2>1, ElementOfSeq DEF ToSet
<1>3. common \in Text /\ Len(common) = c /\ c \in Nat
  <2>1. c \in Nat
    BY <1>1
  <2> QED
    BY <1>1, <2>1, CutLine
<1>4. common \in CP
  <2>1. first \in ToSet(m) /\ common \in Prefixes(first)
    BY <1>1, <1>2 DEF Prefixes
  <2> QED
    BY <1>1, <1>2, <2>1 DEF CommonPrefixes
<1>5. ASSUME NEW p \in CP PROVE Len(p) <= c /\ p = SubSeq(first, 1, Len(p)) /\ Len(p) \in Nat
  <2>1. PICK x \in ToSet(m) : p \in Prefixes(x)
    BY DEF CommonPrefixes
  <2>2. PICK k \in 0..Len(x) : p = SubSeq(x, 1, k)
    BY <2>1 DEF Prefixes
  <2>3. x \in Text
    BY <1>2
  <2>4. p \in Text
    BY <2>2, <2>3, CutLine
  <2>5. \A i \in 1..Len(m) : IsPrefix(p, m[i])
    BY <1>2 DEF CommonPrefixes
  <2>6. p = SubSeq(first, 1, Len(p)) /\ Len(p) \in 0..Len(first)
    BY <1>1, <1>2, <2>4, <2>5, PrefixBytes
  <2>7. \A i \in 1..Len(m) : IsPrefix(SubSeq(first, 1, Len(p)), m[i])
    BY <2>5, <2>6
  <2>8. Len(p) <= c
    BY <1>1, <2>6, <2>7
  <2> QED
    BY <2>6, <2>8
<1> DEFINE Longest(p) == \A other \in CP : Len(other) <= Len(p)
           chosen == CHOOSE longest \in CP : Longest(longest)
<1> HIDE DEF CP
<1>6. Longest(common)
  BY <1>3, <1>5
<1>7. chosen \in CP /\ Longest(chosen)
  BY <1>4, <1>6
<1>8. chosen = common
  <2> HIDE DEF chosen
  <2>1. Len(chosen) <= c /\ c <= Len(chosen) /\ Len(chosen) \in Nat
    BY <1>3, <1>4, <1>5, <1>7
  <2>2. Len(chosen) = c
    BY <1>3, <2>1
  <2> QED
    BY <1>5, <1>7, <2>2
<1> QED
  BY <1>8 DEF LongestCommonPrefix, CP, c

\* What is typed is part of it, and all of it if it is no shorter.
LEMMA CommonContinues ==
  ASSUME NEW m \in Seq(Text), m # <<>>, NEW prefix \in Text,
         \A i \in 1..Len(m) : IsPrefix(prefix, m[i])
  PROVE  /\ Len(prefix) <= CommonLen(m)
         /\ CommonLen(m) = Len(prefix) => SubSeq(m[1], 1, CommonLen(m)) = prefix
         /\ Len(m) = 1 => SubSeq(m[1], 1, CommonLen(m)) = m[1]
<1>1. /\ m[1] \in Text /\ CommonLen(m) \in 0..Len(m[1])
      /\ \A k \in 0..Len(m[1]) :
           (\A i \in 1..Len(m) : IsPrefix(SubSeq(m[1], 1, k), m[i])) => k <= CommonLen(m)
  BY CommonFacts
<1>2. 1 \in 1..Len(m) /\ Len(m[1]) \in Nat
  BY <1>1, EmptySeq, LenProperties DEF Text
<1>3. prefix = SubSeq(m[1], 1, Len(prefix)) /\ Len(prefix) \in 0..Len(m[1])
  BY <1>1, <1>2, PrefixBytes
<1>4. \A i \in 1..Len(m) : IsPrefix(SubSeq(m[1], 1, Len(prefix)), m[i])
  BY <1>3
<1>5. Len(prefix) <= CommonLen(m)
  BY <1>1, <1>3, <1>4
<1>6. ASSUME Len(m) = 1 PROVE SubSeq(m[1], 1, CommonLen(m)) = m[1]
  <2>1. SubSeq(m[1], 1, Len(m[1])) = m[1]
    BY <1>1, SubSeqFull DEF Text
  <2>2. IsPrefix(m[1], m[1])
    BY <1>1, <1>2, PrefixBytes
  <2>3. \A i \in 1..Len(m) : IsPrefix(SubSeq(m[1], 1, Len(m[1])), m[i])
    <3>1. \A i \in 1..Len(m) : i = 1
      BY <1>6
    <3> QED
      BY ONLY <2>1, <2>2, <3>1, Zenon
  <2>4. Len(m[1]) <= CommonLen(m)
    BY <1>1, <1>2, <2>3
  <2>5. CommonLen(m) = Len(m[1])
    BY <1>1, <1>2, <2>4
  <2> QED
    BY <2>1, <2>5
<1> QED
  BY <1>3, <1>5, <1>6

\* Distinct names are one name if they are one element.
LEMMA SingleName ==
  ASSUME NEW S, NEW m \in Seq(S), Distinct(m)
  PROVE  /\ Cardinality(ToSet(m)) = 1 <=> Len(m) = 1
         /\ ToSet(m) = {} <=> m = <<>>
<1>1. Len(m) \in Nat /\ ToSet(m) = {m[i] : i \in 1..Len(m)}
  BY LenProperties DEF ToSet
<1>2. IsFiniteSet(ToSet(m))
  <2>1. m \in [1..Len(m) -> ToSet(m)] /\ \A e \in ToSet(m) : \E i \in 1..Len(m) : m[i] = e
    BY <1>1, LenProperties
  <2>2. m \in Surjection(1..Len(m), ToSet(m))
    BY <2>1 DEF Surjection
  <2>3. IsFiniteSet(1..Len(m))
    <3>1. 1 \in Int /\ Len(m) \in Int
      BY <1>1
    <3> QED
      BY <3>1, FS_Interval
  <2> QED
    BY <2>2, <2>3, FS_Surjection
<1>3. ASSUME Len(m) = 1 PROVE Cardinality(ToSet(m)) = 1
  <2>1. ToSet(m) = {m[1]}
    BY <1>1, <1>3
  <2> QED
    BY <2>1, FS_Singleton
<1>4. ASSUME Cardinality(ToSet(m)) = 1 PROVE Len(m) = 1
  <2>1. PICK x : ToSet(m) = {x}
    BY <1>2, <1>4, FS_Singleton
  <2>2. \A i \in 1..Len(m) : m[i] = x
    BY <1>1, <2>1
  <2>3. Len(m) # 0
    <3>1. ASSUME Len(m) = 0 PROVE FALSE
      <4>1. 1..Len(m) = {}
        BY <3>1
      <4> QED
        BY <1>1, <2>1, <4>1
    <3> QED
      BY <3>1
  <2>4. \A i \in 1..Len(m) : i = 1
    <3>1. 1 \in 1..Len(m)
      BY <1>1, <2>3
    <3> QED
      BY <2>2, <3>1 DEF Distinct
  <2>5. Len(m) \in 1..Len(m)
    BY <1>1, <2>3
  <2> QED
    BY <2>4, <2>5
<1>5. ToSet(m) = {} <=> m = <<>>
  <2>1. m = <<>> <=> Len(m) = 0
    <3>1. Len(<<>>) = 0
      OBVIOUS
    <3> QED
      BY <3>1, EmptySeq
  <2>2. Len(m) # 0 => 1 \in 1..Len(m)
    BY <1>1
  <2>3. Len(m) = 0 => 1..Len(m) = {}
    BY <1>1
  <2> QED
    BY <1>1, <2>1, <2>2, <2>3
<1> QED
  BY <1>3, <1>4, <1>5

-----------------------------------------------------------------------------
\* What replace_token leaves: the words before and the word put there, or a line it
\* had no room for.
LEMMA ReplacedWord ==
  ASSUME NEW t \in Text, NEW at \in 0..Len(t), NEW word \in Text, word # <<>>, NoSpace(word),
         NEW unique \in BOOLEAN, NEW limit \in Nat,
         NEW r, r = ReplaceToken(t, at, word, unique, limit)
  PROVE  LET start == TokenStart(t, at)
         IN IF r.replaced
            THEN /\ PlainWords(SubSeq(r.line, 1, r.cursor))
                      = Append(PlainWords(SubSeq(t, 1, start)), word)
                 /\ unique => IsSpace(r.line[start + Len(word) + 1])
            ELSE ~(Len(t) - (TokenEnd(t, at) - start) + Len(word)
                     + (IF unique THEN 1 ELSE 0) <= limit)
<1> DEFINE start == TokenStart(t, at)
           end == TokenEnd(t, at)
           space == IF unique /\ (end = Len(t) \/ ~IsSpace(t[end + 1])) THEN <<Space>> ELSE <<>>
           a == SubSeq(t, 1, start)
           z == SubSeq(t, end + 1, Len(t))
           x == a \o word
           head == x \o space
           text == head \o z
<1>1. /\ Len(t) \in Nat /\ start \in Nat /\ start <= Len(t) /\ start <= end
      /\ end \in Nat /\ end <= Len(t) /\ (end < Len(t) => IsSpace(t[end + 1]))
  <2>1. Len(t) \in Nat /\ at \in Nat /\ at <= Len(t)
    BY LenProperties DEF Text
  <2>2. start \in 0..at
    BY TokenPlace
  <2>3. end \in at..Len(t) /\ (end < Len(t) => IsSpace(t[end + 1]))
    BY TokenPlace
  <2> HIDE DEF start, end
  <2> QED
    BY <2>1, <2>2, <2>3
<1>2. r = IF Len(text) > limit THEN Unchanged(t, at)
          ELSE [line |-> text, cursor |-> start + Len(word \o space), replaced |-> TRUE]
  BY DEF ReplaceToken
<1>3. a \in Text /\ Len(a) = start /\ ~LastOpen(a)
  <2>1. start \in 0..Len(t)
    BY <1>1
  <2> HIDE DEF start
  <2>2. a \in Text /\ Len(a) = start
    BY <2>1, CutLine
  <2> QED
    BY <2>2, BeforeCursor DEF start
<1>4. /\ z \in Text /\ Len(z) = Len(t) - end
      /\ \A i \in 1..(Len(t) - end) : z[i] = t[end + i]
  <2>1. end \in 0..Len(t)
    BY <1>1
  <2> HIDE DEF end
  <2> QED
    BY <2>1, CutLine
<1>5. /\ space \in Text
      /\ \/ space = <<Space>> /\ Len(space) = 1 /\ unique
         \/ space = <<>> /\ Len(space) = 0 /\ (unique => end < Len(t))
      /\ Len(space) <= 1 /\ (~unique => Len(space) = 0)
  <2>1. <<>> \in Text /\ <<Space>> \in Text /\ Len(<<>>) = 0 /\ Len(<<Space>>) = 1
    <3>1. Space \in CharCode
      BY DEF Space, CharCode
    <3> QED
      BY <3>1 DEF Text
  <2>2. end = Len(t) \/ end < Len(t)
    BY <1>1
  <2> HIDE DEF end
  <2> QED
    BY <2>1, <2>2
<1> HIDE DEF start, end, a, z, space
<1>6. Len(word) \in Nat /\ Len(space) \in Nat
  BY <1>5, LenProperties DEF Text
<1>7. /\ x \in Text /\ Len(x) = start + Len(word)
      /\ head \in Text /\ Len(head) = start + Len(word) + Len(space)
      /\ text \in Text /\ Len(text) = start + Len(word) + Len(space) + (Len(t) - end)
      /\ SubSeq(text, 1, Len(head)) = head
      /\ \A i \in 1..Len(head) : text[i] = head[i]
  <2>1. x \in Text /\ Len(x) = start + Len(word)
    BY <1>3, JoinLines
  <2> HIDE DEF x
  <2>2. head \in Text /\ Len(head) = start + Len(word) + Len(space)
    BY <1>5, <2>1, JoinLines
  <2> HIDE DEF head
  <2>3. /\ text \in Text /\ Len(text) = start + Len(word) + Len(space) + (Len(t) - end)
        /\ SubSeq(text, 1, Len(head)) = head
        /\ \A i \in 1..Len(head) : text[i] = head[i]
    BY <1>4, <2>2, JoinLines
  <2> QED
    BY <2>1, <2>2, <2>3
<1>8. Len(word \o space) = Len(word) + Len(space)
  BY <1>5, JoinLines
<1>9. PlainWords(x) = Append(PlainWords(a), word)
  BY <1>3, PlainWord
<1> HIDE DEF x
<1>10. PlainWords(head) = Append(PlainWords(a), word)
  <2>1. CASE space = <<>>
    <3>1. head = x
      BY <1>7, <2>1, ConcatEmptySeq DEF Text
    <3> QED
      BY <1>9, <3>1
  <2>2. CASE space = <<Space>>
    <3>1. Space \in CharCode /\ IsSpace(Space)
      BY DEF Space, CharCode, IsSpace
    <3>2. head = Append(x, Space)
      BY <1>7, <2>2, <3>1, AppendIsConcat DEF Text
    <3> HIDE DEF head
    <3>3. PlainWords(head) = PlainWords(x)
      BY <1>7, <3>1, <3>2, PlainAppend
    <3> QED
      BY <1>9, <3>3
  <2> QED
    BY <1>5, <2>1, <2>2
<1>11. ASSUME unique PROVE IsSpace(text[start + Len(word) + 1])
  <2>1. CASE space = <<Space>>
    <3>1. head[Len(x) + 1] = Space
      <4>1. head = Append(x, Space)
        <5>1. Space \in CharCode
          BY DEF Space, CharCode
        <5> QED
          BY <1>7, <2>1, <5>1, AppendIsConcat DEF Text
      <4> QED
        BY <1>7, <4>1, AppendProperties DEF Text
    <3>2. start + Len(word) + 1 \in 1..Len(head) /\ Len(x) + 1 = start + Len(word) + 1
      BY <1>1, <1>5, <1>6, <1>7, <2>1
    <3>3. IsSpace(Space)
      BY DEF Space, IsSpace
    <3> QED
      BY <1>7, <3>1, <3>2, <3>3
  <2>2. CASE space = <<>>
    <3>0. <<>> # <<Space>> /\ Len(space) = 0
      BY <2>2
    <3>1. end < Len(t) /\ IsSpace(t[end + 1]) /\ 1 \in 1..(Len(t) - end)
      BY <1>1, <1>5, <1>11, <2>2, <3>0
    <3>2. z[1] = t[end + 1]
      BY <1>4, <3>1
    <3>3. Len(head) = start + Len(word) /\ Len(head) \in Nat /\ Len(z) \in Nat /\ Len(z) >= 1
      BY <1>1, <1>4, <1>6, <1>7, <3>0, <3>1
    <3> HIDE DEF head
    <3>4. text[Len(head) + 1] = z[1]
      <4>0. head \in Seq(CharCode) /\ z \in Seq(CharCode)
        BY <1>4, <1>7 DEF Text
      <4>1. \A i \in 1..(Len(head) + Len(z)) :
              (head \o z)[i] = IF i <= Len(head) THEN head[i] ELSE z[i - Len(head)]
        BY ONLY <4>0, ConcatProperties
      <4>2. /\ Len(head) + 1 \in 1..(Len(head) + Len(z)) /\ ~(Len(head) + 1 <= Len(head))
            /\ (Len(head) + 1) - Len(head) = 1
        BY <3>3
      <4> QED
        BY <4>1, <4>2
    <3> QED
      BY <3>1, <3>2, <3>3, <3>4
  <2> QED
    BY <1>5, <2>1, <2>2
<1> HIDE DEF head, text
<1>12. CASE Len(text) > limit
  <2>1. ~r.replaced
    BY <1>2, <1>12 DEF Unchanged
  <2>2. ~(Len(t) - (end - start) + Len(word) + (IF unique THEN 1 ELSE 0) <= limit)
    <3>1. /\ Len(space) \in Nat /\ (unique => Len(space) <= 1)
          /\ ~unique => Len(space) = 0
      BY <1>5, <1>6
    <3>2. start + Len(word) + Len(space) + (Len(t) - end) > limit
      BY <1>7, <1>12
    <3> QED
      BY ONLY <1>1, <1>6, <3>1, <3>2, limit \in Nat
  <2> QED
    BY <2>1, <2>2 DEF start, end
<1>13. CASE ~(Len(text) > limit)
  <2>1. r.replaced /\ r.line = text /\ r.cursor = Len(head)
    <3>1. r = [line |-> text, cursor |-> start + Len(word \o space), replaced |-> TRUE]
      BY <1>2, <1>13
    <3>2. start + Len(word \o space) = Len(head)
      BY <1>1, <1>6, <1>7, <1>8
    <3> QED
      BY <3>1, <3>2
  <2>2. PlainWords(SubSeq(r.line, 1, r.cursor)) = Append(PlainWords(a), word)
    BY <1>7, <1>10, <2>1
  <2> QED
    BY <1>11, <2>1, <2>2 DEF start, a
<1> QED
  BY <1>12, <1>13

\* What completion makes of a line, and when it leaves it alone.
Grows(r, names, prefix, t, at, limit) ==
  LET start == TokenStart(t, at)
      grown == LongestCommonPrefix(names)
      single == Cardinality(names) = 1
      room == Len(t) - (TokenEnd(t, at) - start) + Len(grown)
                + (IF single THEN 1 ELSE 0) <= limit
  IN IF r.replaced
     THEN /\ names # {}
          /\ PlainWords(SubSeq(r.line, 1, r.cursor))
               = Append(PlainWords(SubSeq(t, 1, start)), grown)
          /\ single => IsSpace(r.line[start + Len(grown) + 1])
     ELSE names = {} \/ ~room \/ (~single /\ grown = prefix)

\* What distinct names that continue the word at the cursor make of the line.
LEMMA MatchedAgrees ==
  ASSUME NEW t \in Text, NEW at \in 0..Len(t), NEW limit \in Nat,
         NEW m \in Seq(Text), Distinct(m), NEW prefix \in Text,
         \A i \in 1..Len(m) : IsPrefix(prefix, m[i]) /\ NoSpace(m[i]) /\ m[i] # <<>>,
         NEW r, r = Matched(m, prefix, t, at, limit)
  PROVE  Grows(r, ToSet(m), prefix, t, at, limit)
<1> SUFFICES LET start == TokenStart(t, at)
                grown == LongestCommonPrefix(ToSet(m))
                single == Cardinality(ToSet(m)) = 1
                room == Len(t) - (TokenEnd(t, at) - start) + Len(grown)
                          + (IF single THEN 1 ELSE 0) <= limit
            IN IF r.replaced
               THEN /\ ToSet(m) # {}
                    /\ PlainWords(SubSeq(r.line, 1, r.cursor))
                         = Append(PlainWords(SubSeq(t, 1, start)), grown)
                    /\ single => IsSpace(r.line[start + Len(grown) + 1])
               ELSE ToSet(m) = {} \/ ~room \/ (~single /\ grown = prefix)
  BY DEF Grows
<1> DEFINE start == TokenStart(t, at)
           grown == LongestCommonPrefix(ToSet(m))
           single == Cardinality(ToSet(m)) = 1
           c == CommonLen(m)
<1>1. (single <=> Len(m) = 1) /\ (ToSet(m) = {} <=> m = <<>>)
  BY SingleName
<1>2. CASE m = <<>>
  <2>1. ~r.replaced
    BY <1>2 DEF Matched, Unchanged
  <2> QED
    BY <1>1, <1>2, <2>1
<1>3. CASE m # <<>>
  <2>1. /\ m[1] \in Text /\ c \in 0..Len(m[1]) /\ Len(m[1]) \in Nat /\ 1 \in 1..Len(m)
        /\ \A i \in 1..c : m[1][i] = SubSeq(m[1], 1, c)[i]
        /\ SubSeq(m[1], 1, c) \in Text /\ Len(SubSeq(m[1], 1, c)) = c
    <3>1. m[1] \in Text /\ c \in 0..Len(m[1])
      BY <1>3, CommonFacts
    <3>2. Len(m[1]) \in Nat /\ 1 \in 1..Len(m)
      BY <1>3, <3>1, EmptySeq, LenProperties DEF Text
    <3> HIDE DEF c
    <3> QED
      BY <3>1, <3>2, CutLine
  <2>2. grown = SubSeq(m[1], 1, c)
    BY <1>3, LongestCommon
  <2>3. /\ Len(prefix) <= c /\ Len(prefix) \in Nat
        /\ c = Len(prefix) => grown = prefix
        /\ Len(m) = 1 => grown = m[1]
    <3>1. Len(prefix) \in Nat
      BY LenProperties DEF Text
    <3> QED
      BY <1>3, <2>2, <3>1, CommonContinues
  <2> HIDE DEF grown, c, single
  <2>4. NoSpace(grown)
    <3>1. \A i \in 1..c : i \in 1..Len(m[1])
      BY <2>1
    <3>2. NoSpace(m[1])
      BY <2>1
    <3> QED
      BY <2>1, <2>2, <3>1, <3>2 DEF NoSpace
  <2>5. CASE Len(m) = 1
    <3>1. r = ReplaceToken(t, at, grown, TRUE, limit)
      BY <1>3, <2>3, <2>5 DEF Matched
    <3>2. grown \in Text /\ grown # <<>> /\ single
      BY <1>1, <2>1, <2>3, <2>5 DEF single
    <3>3. IF r.replaced
          THEN /\ PlainWords(SubSeq(r.line, 1, r.cursor))
                    = Append(PlainWords(SubSeq(t, 1, start)), grown)
               /\ IsSpace(r.line[start + Len(grown) + 1])
          ELSE ~(Len(t) - (TokenEnd(t, at) - start) + Len(grown) + 1 <= limit)
      BY <2>4, <3>1, <3>2, ReplacedWord
    <3> QED
      BY <1>1, <1>3, <3>2, <3>3 DEF grown, single
  <2>6. CASE Len(m) # 1 /\ c > Len(prefix)
    <3>1. r = ReplaceToken(t, at, grown, FALSE, limit)
      BY <1>3, <2>2, <2>6 DEF Matched, c
    <3>2. grown \in Text /\ grown # <<>> /\ ~single
      <4>1. Len(grown) # 0 /\ Len(<<>>) = 0
        BY <2>1, <2>2, <2>3, <2>6
      <4> QED
        BY <1>1, <2>1, <2>2, <2>6, <4>1 DEF single
    <3>3. IF r.replaced
          THEN PlainWords(SubSeq(r.line, 1, r.cursor))
                 = Append(PlainWords(SubSeq(t, 1, start)), grown)
          ELSE ~(Len(t) - (TokenEnd(t, at) - start) + Len(grown) + 0 <= limit)
      BY <2>4, <3>1, <3>2, ReplacedWord
    <3> QED
      BY <1>1, <1>3, <3>2, <3>3 DEF grown, single
  <2>7. CASE Len(m) # 1 /\ ~(c > Len(prefix))
    <3>1. ~r.replaced
      BY <1>3, <2>7 DEF Matched, Unchanged, c
    <3>2. ~single /\ c = Len(prefix)
      BY <1>1, <2>1, <2>3, <2>7 DEF single
    <3> QED
      BY <2>3, <3>1, <3>2 DEF grown, single
  <2> QED
    BY <2>5, <2>6, <2>7
<1> QED
  BY <1>2, <1>3

-----------------------------------------------------------------------------
\* A command is in some table of some registered tree.
LEMMA InTable ==
  ASSUME NEW cmd \in Commands
  PROVE  \E i \in DOMAIN Roots, d \in 1..MaxDepth :
           \E table \in TablesAt(Roots[i])[d] : cmd \in ToSet(table)
BY DEF Commands

\* Every table of an accepted tree is one.
LEMMA SubtableNamed ==
  ASSUME NEW cmd \in Commands
  PROVE  cmd.sub \in Seq(Commands) /\ Named(cmd.sub)
<1>1. PICK i \in DOMAIN Roots, d \in 1..MaxDepth :
        \E table \in TablesAt(Roots[i])[d] : cmd \in ToSet(table)
  BY InTable
<1>2. PICK table \in TablesAt(Roots[i])[d] : cmd \in ToSet(table)
  BY <1>1
<1>3. \A c \in Commands : c.sub \in Seq(Commands)
  BY RootsAssumption
<1>4. Roots[i] \in Seq(Commands) /\ IsTree(Roots[i], Builtins)
  <2>1. i \in 1..Len(Roots) /\ Roots \in Seq(Seq(Commands)) /\ AcceptsSets(Roots, Builtins)
    BY RootsAssumption, LenProperties
  <2> QED
    BY <2>1, ElementOfSeq DEF AcceptsSets
<1>5. MaxDepth \in Nat \ {0} /\ d \in Nat /\ d + 1 \in 2..(MaxDepth + 1) /\ (d + 1) - 1 = d
  BY MaxDepthAssumption
<1> DEFINE root == Roots[i]
           at == TablesAt(root)
           e == d + 1
<1>6. at[e] = Subtables(AllOf(at[d]))
  <2>1. \A c \in Commands : c.sub \in Seq(Commands)
    BY <1>3
  <2>2. root \in Seq(Commands)
    BY <1>4
  <2> HIDE DEF root
  <2>3. \A level \in 2..(MaxDepth + 1) :
          TablesAt(root)[level] = Subtables(AllOf(TablesAt(root)[level - 1]))
    BY ONLY <2>1, <2>2, TreeLevels
  <2>4. e \in 2..(MaxDepth + 1) /\ e - 1 = d
    BY <1>5
  <2> HIDE DEF e
  <2> QED
    BY ONLY <2>3, <2>4
<1>7. CASE IsParent(cmd)
  <2>1. cmd.sub \in at[e]
    BY <1>2, <1>6, <1>7 DEF Subtables, AllOf
  <2>2. at[MaxDepth + 1] = {} /\ \A depth \in 2..MaxDepth : \A t \in at[depth] : IsTable(t, {})
    BY <1>4 DEF IsTree
  <2> HIDE DEF at
  <2>3. e \in 2..MaxDepth
    BY <1>5, <2>1, <2>2
  <2>4. IsTable(cmd.sub, {})
    BY <2>1, <2>2, <2>3
  <2> QED
    BY <1>3, <2>4, TableNamed
<1>8. CASE ~IsParent(cmd)
  <2>1. cmd.sub = <<>> /\ Len(<<>>) = 0
    BY <1>8 DEF IsParent
  <2> QED
    BY <1>3, <2>1 DEF Named
<1> QED
  BY <1>7, <1>8

\* The roots of the registered tables, none with a name of a built-in.
LEMMA RootNames ==
  /\ FlattenSeq(Roots) \in Seq(Commands) /\ Named(FlattenSeq(Roots))
  /\ ToSet(FlattenSeq(Roots)) \subseteq Commands
  /\ Builtins => \A cmd \in ToSet(FlattenSeq(Roots)) : cmd.name \notin ReservedNames
<1> DEFINE reserved == IF Builtins THEN ReservedNames ELSE {}
<1>1. /\ Roots \in Seq(Seq(Commands)) /\ AcceptsSets(Roots, Builtins)
      /\ DOMAIN Roots = 1..Len(Roots) /\ \A i \in 1..Len(Roots) : Roots[i] \in Seq(Commands)
  BY RootsAssumption, ElementOfSeq, LenProperties
<1>2. ASSUME NEW i \in 1..Len(Roots)
      PROVE  /\ Named(Roots[i]) /\ ToSet(Roots[i]) \subseteq Commands
             /\ \A cmd \in ToSet(Roots[i]) : cmd.name \notin reserved
  <2> DEFINE table == Roots[i]
  <2>1. table \in Seq(Commands) /\ IsTable(table, reserved)
    BY <1>1 DEF AcceptsSets, IsTree
  <2>2. ToSet(table) \subseteq Commands
    BY <2>1, ElementOfSeq, LenProperties DEF ToSet
  <2> HIDE DEF reserved, table
  <2>3. Named(table) /\ \A cmd \in ToSet(table) : cmd.name \notin reserved
    BY ONLY <2>1, TableNamed
  <2> QED
    BY <2>2, <2>3 DEF table
<1>3. ASSUME NEW i \in 1..Len(Roots), NEW j \in 1..Len(Roots), i # j,
             NEW c \in ToSet(Roots[i]), NEW d \in ToSet(Roots[j])
      PROVE  c.name # d.name
  <2>1. PICK a \in DOMAIN Roots[i] : c = Roots[i][a]
    BY DEF ToSet
  <2>2. PICK b \in DOMAIN Roots[j] : d = Roots[j][b]
    BY DEF ToSet
  <2>3. i \in DOMAIN Roots /\ j \in DOMAIN Roots
    BY <1>1
  <2>4. \A x, y \in DOMAIN Roots : x # y =>
          \A v \in DOMAIN Roots[x], w \in DOMAIN Roots[y] : Roots[x][v].name # Roots[y][w].name
    BY <1>1 DEF AcceptsSets
  <2> QED
    BY <1>3, <2>1, <2>2, <2>3, <2>4
<1>4. FlattenSeq(Roots) \in Seq(Commands) /\ Named(FlattenSeq(Roots))
  <2>1. \A i, j \in 1..Len(Roots) : i # j =>
          \A c \in ToSet(Roots[i]), d \in ToSet(Roots[j]) : c.name # d.name
    BY <1>3
  <2> QED
    BY <1>1, <1>2, <2>1, NamedFlattened
<1>5. ToSet(FlattenSeq(Roots)) = UNION {ToSet(Roots[i]) : i \in 1..Len(Roots)}
  BY <1>1, ElementsFlattened
<1> HIDE DEF reserved
<1>6. /\ ToSet(FlattenSeq(Roots)) \subseteq Commands
      /\ \A cmd \in ToSet(FlattenSeq(Roots)) : cmd.name \notin reserved
  BY <1>2, <1>5
<1> QED
  BY <1>4, <1>6 DEF reserved

-----------------------------------------------------------------------------
\* The commands that stand for the built-ins.
HistoryWords == <<Bare(Word.clear, <<>>), Bare(Word.status, <<>>)>>
EchoWords == <<Bare(Word.off, <<>>), Bare(Word.on, <<>>), Bare(Word.status, <<>>)>>
OwnCommands ==
  {Bare(Word.clear, <<>>), Bare(Word.help, <<>>),
   Bare(Word.history, HistoryWords), Bare(Word.echo, EchoWords)}

LEMMA OwnNames ==
  ASSUME Builtins
  PROVE  /\ BuiltinCommands \in Seq(Known) /\ Named(BuiltinCommands)
         /\ ToSet(BuiltinCommands) = OwnCommands
<1> DEFINE history == Bare(Word.history, HistoryWords)
           echo == Bare(Word.echo, EchoWords)
           clear == Bare(Word.clear, <<>>)
           help == Bare(Word.help, <<>>)
           own == <<clear, help, history, echo>>
<1>1. \A word, sub : Bare(word, sub).name = word
  BY DEF Bare
<1>2. BuiltinCommands = own
  <2>1. [i \in DOMAIN <<Word.clear, Word.status>> |->
           Bare(<<Word.clear, Word.status>>[i], <<>>)] = HistoryWords
    BY DEF HistoryWords
  <2>2. [i \in DOMAIN <<Word.off, Word.on, Word.status>> |->
           Bare(<<Word.off, Word.on, Word.status>>[i], <<>>)] = EchoWords
    BY DEF EchoWords
  <2> QED
    BY <2>1, <2>2 DEF BuiltinCommands
<1>3. /\ clear.name = Word.clear /\ help.name = Word.help
      /\ history.name = Word.history /\ echo.name = Word.echo
  BY <1>1
<1>4. /\ IsName(Word.clear) /\ IsName(Word.help) /\ IsName(Word.history) /\ IsName(Word.echo)
      /\ Word.clear \notin {Word.help, Word.history, Word.echo}
      /\ Word.help \notin {Word.history, Word.echo} /\ Word.history # Word.echo
  BY WordAssumption DEF ReservedNames
<1> HIDE DEF history, echo, clear, help
<1>5. /\ Len(own) = 4 /\ own[1] = clear /\ own[2] = help /\ own[3] = history /\ own[4] = echo
      /\ 1..4 = {1, 2, 3, 4}
  OBVIOUS
<1>6. Named(own)
  <2> HIDE DEF own
  <2> QED
    BY <1>3, <1>4, <1>5 DEF Named
<1>7. ToSet(own) = {clear, help, history, echo}
  <2>1. DOMAIN own = {1, 2, 3, 4}
    OBVIOUS
  <2> HIDE DEF own
  <2> QED
    BY <1>5, <2>1 DEF ToSet
<1>8. own \in Seq(Known)
  <2>1. {clear, help, history, echo} \subseteq Known
    BY <1>2, <1>7 DEF Known
  <2> QED
    BY <2>1
<1> QED
  BY <1>2, <1>6, <1>7, <1>8 DEF OwnCommands, history, echo, clear, help

\* The table the walk begins at has every root and the built-ins, each name once.
LEMMA RootTableNamed ==
  /\ RootTable(Roots, Builtins) \in Seq(Known) /\ Named(RootTable(Roots, Builtins))
  /\ ToSet(RootTable(Roots, Builtins))
       = ToSet(FlattenSeq(Roots)) \cup (IF Builtins THEN OwnCommands ELSE {})
<1> DEFINE own == FlattenSeq(Roots)
           root == RootTable(Roots, Builtins)
<1>1. own \in Seq(Commands) /\ Named(own) /\ ToSet(own) \subseteq Commands
  BY RootNames
<1>2. root \in Seq(Known)
  BY KnownCommands
<1>3. CASE ~Builtins
  <2>1. root = own \o <<>>
    BY <1>3 DEF RootTable
  <2>2. own \o <<>> = own
    <3> HIDE DEF own
    <3> QED
      BY <1>1, ConcatEmptySeq
  <2>3. root = own
    BY ONLY <2>1, <2>2
  <2> HIDE DEF own, root
  <2>4. Named(root) /\ ToSet(root) = ToSet(own) \cup {}
    BY <1>1, <2>3
  <2> QED
    BY <1>2, <1>3, <2>4 DEF own, root
<1>4. CASE Builtins
  <2> DEFINE more == BuiltinCommands
  <2>1. more \in Seq(Known) /\ Named(more) /\ ToSet(more) = OwnCommands
    BY <1>4, OwnNames
  <2>2. own \in Seq(Known)
    <3>1. Commands \subseteq Known
      BY DEF Known
    <3> HIDE DEF own
    <3> QED
      BY <1>1, <3>1, SeqMonotonic
  <2>3. \A c \in ToSet(own), d \in OwnCommands : c.name # d.name
    <3>1. \A d \in OwnCommands : d.name \in ReservedNames
      BY DEF OwnCommands, Bare, ReservedNames
    <3> QED
      BY <1>4, <3>1, RootNames
  <2>4. root = own \o more
    BY <1>4 DEF RootTable
  <2> HIDE DEF own, more, root
  <2>5. Named(own \o more) /\ ToSet(own \o more) = ToSet(own) \cup ToSet(more)
    BY ONLY <1>1, <2>1, <2>2, <2>3, NamedConcat, ElementsConcat
  <2>6. Named(root) /\ ToSet(root) = ToSet(own) \cup OwnCommands
    BY <2>1, <2>4, <2>5
  <2> QED
    BY <1>2, <1>4, <2>6 DEF own, root
<1> QED
  BY <1>3, <1>4

\* What a word names there: a root, a built-in, or nothing.
LEMMA FirstWord ==
  ASSUME NEW word
  PROVE  \/ /\ ~(Builtins /\ word \in ReservedNames)
            /\ \E cmd \in Commands : /\ Child(FlattenSeq(Roots), word) = <<cmd>>
                                     /\ Child(RootTable(Roots, Builtins), word) = <<cmd>>
         \/ /\ ~(Builtins /\ word \in ReservedNames)
            /\ Child(FlattenSeq(Roots), word) = <<>>
            /\ Child(RootTable(Roots, Builtins), word) = <<>>
         \/ /\ Builtins
            /\ Child(FlattenSeq(Roots), word) = <<>>
            /\ \E cmd \in OwnCommands :
                 cmd.name = word /\ Child(RootTable(Roots, Builtins), word) = <<cmd>>
<1> DEFINE own == FlattenSeq(Roots)
           root == RootTable(Roots, Builtins)
<1>1. /\ own \in Seq(Commands) /\ Named(own) /\ ToSet(own) \subseteq Commands
      /\ Builtins => \A cmd \in ToSet(own) : cmd.name \notin ReservedNames
  BY RootNames
<1>2. /\ root \in Seq(Known) /\ Named(root)
      /\ ToSet(root) = ToSet(own) \cup (IF Builtins THEN OwnCommands ELSE {})
  BY RootTableNamed
<1>3. {cmd.name : cmd \in OwnCommands} = ReservedNames
  BY DEF OwnCommands, Bare, ReservedNames
<1> HIDE DEF own, root
<1>4. \/ \E cmd \in ToSet(own) : cmd.name = word /\ Child(own, word) = <<cmd>>
      \/ (\A cmd \in ToSet(own) : cmd.name # word) /\ Child(own, word) = <<>>
  BY ONLY <1>1, ChildNamed
<1>5. \/ \E cmd \in ToSet(root) : cmd.name = word /\ Child(root, word) = <<cmd>>
      \/ (\A cmd \in ToSet(root) : cmd.name # word) /\ Child(root, word) = <<>>
  BY ONLY <1>2, ChildNamed
<1>6. \A c, d \in ToSet(root) : c.name = d.name => c = d
  BY <1>2, LenProperties DEF Named, ToSet
<1>7. CASE \E cmd \in ToSet(own) : cmd.name = word /\ Child(own, word) = <<cmd>>
  <2>1. PICK cmd \in ToSet(own) : cmd.name = word /\ Child(own, word) = <<cmd>>
    BY <1>7
  <2>2. cmd \in ToSet(root) /\ cmd \in Commands
    BY <1>1, <1>2, <2>1
  <2>3. Child(root, word) = <<cmd>>
    BY <1>5, <1>6, <2>1, <2>2
  <2>4. ~(Builtins /\ word \in ReservedNames)
    BY <1>1, <2>1
  <2> QED
    BY <2>1, <2>2, <2>3, <2>4 DEF own, root
<1>8. CASE (\A cmd \in ToSet(own) : cmd.name # word) /\ Child(own, word) = <<>>
  <2>1. CASE \E cmd \in ToSet(root) : cmd.name = word /\ Child(root, word) = <<cmd>>
    <3>1. PICK cmd \in ToSet(root) : cmd.name = word /\ Child(root, word) = <<cmd>>
      BY <2>1
    <3>2. Builtins /\ cmd \in OwnCommands
      BY <1>2, <1>8, <3>1
    <3> QED
      BY <1>8, <3>1, <3>2 DEF own, root
  <2>2. CASE (\A cmd \in ToSet(root) : cmd.name # word) /\ Child(root, word) = <<>>
    <3>1. ~(Builtins /\ word \in ReservedNames)
      BY <1>2, <1>3, <2>2
    <3> QED
      BY <1>8, <2>2, <3>1 DEF own, root
  <2> QED
    BY <1>5, <2>1, <2>2
<1> QED
  BY <1>4, <1>7, <1>8

\* What may begin a line is every visible root and the built-ins.
LEMMA FirstNames ==
  /\ Tellable(Visible(RootTable(Roots, Builtins)))
  /\ ToSet(Visible(RootTable(Roots, Builtins)))
       = ToSet(Visible(FlattenSeq(Roots))) \cup (IF Builtins THEN ReservedNames ELSE {})
<1> DEFINE own == FlattenSeq(Roots)
           root == RootTable(Roots, Builtins)
           Shown(s) == {cmd.name : cmd \in {c \in s : ~Flag(c, "HIDDEN")}}
<1>1. Tellable(Visible(root)) /\ ToSet(Visible(root)) = Shown(ToSet(root))
  <2>1. root \in Seq(Known) /\ Named(root)
    BY RootTableNamed
  <2> HIDE DEF root
  <2> QED
    BY <2>1, VisibleTellable
<1>2. ToSet(Visible(own)) = Shown(ToSet(own))
  <2>1. own \in Seq(Commands) /\ Named(own)
    BY RootNames
  <2> HIDE DEF own
  <2> QED
    BY <2>1, VisibleTellable
<1>3. ToSet(root) = ToSet(own) \cup (IF Builtins THEN OwnCommands ELSE {})
  BY RootTableNamed
<1>4. Shown(OwnCommands) = ReservedNames
  <2>1. \A cmd \in OwnCommands : ~Flag(cmd, "HIDDEN")
    BY DEF OwnCommands, Bare, Flag
  <2>2. {cmd.name : cmd \in OwnCommands} = ReservedNames
    BY DEF OwnCommands, Bare, ReservedNames
  <2> QED
    BY <2>1, <2>2
<1> HIDE DEF own, root
<1>5. Shown(ToSet(root)) = Shown(ToSet(own)) \cup (IF Builtins THEN ReservedNames ELSE {})
  BY <1>3, <1>4
<1> QED
  BY <1>1, <1>2, <1>5 DEF own, root

-----------------------------------------------------------------------------
\* Where the walk stands when the path of the first i words is p.
Reached(p, i, n) ==
  IF p = <<>> \/ (IsParent(Last(p)) /\ Len(p) < i) THEN Level(<<>>)
  ELSE Below(Last(p), n - Len(p) + 1)

LEMMA NowhereNext == ASSUME NEW word, NEW arg
                     PROVE  Descend(Level(<<>>), word, arg) = Level(<<>>)
BY DEF Descend, Level

LEMMA ReachedFirst ==
  ASSUME NEW word, ~(Builtins /\ word \in {Word.history, Word.echo}), NEW n \in Nat
  PROVE  Descend(Level(RootTable(Roots, Builtins)), word, n)
           = Reached(Child(FlattenSeq(Roots), word), 1, n)
<1> DEFINE own == Child(FlattenSeq(Roots), word)
           root == RootTable(Roots, Builtins)
           exact == Child(root, word)
<1>1. Descend(Level(root), word, n) = IF exact = <<>> THEN Level(<<>>) ELSE Below(exact[1], n)
  <2>1. Level(root).table = root
    BY DEF Level
  <2>2. CASE root = <<>>
    <3>1. exact = <<>>
      <4> HIDE DEF root
      <4> QED
        BY <2>2, NoChild
    <3> HIDE DEF root, exact
    <3> QED
      BY <2>1, <2>2, <3>1 DEF Descend
  <2>3. CASE root # <<>>
    <3>1. Descend(Level(root), word, n)
            = IF Child(Level(root).table, word) = <<>> THEN Level(<<>>)
              ELSE Below(Child(Level(root).table, word)[1], n)
      <4> HIDE DEF root
      <4> QED
        BY <2>1, <2>3 DEF Descend
    <3> HIDE DEF root
    <3> QED
      BY <2>1, <3>1
  <2> QED
    BY <2>2, <2>3
<1>2. \/ \E cmd \in Commands : own = <<cmd>> /\ exact = <<cmd>>
      \/ own = <<>> /\ exact = <<>>
      \/ Builtins /\ own = <<>> /\ \E cmd \in OwnCommands : cmd.name = word /\ exact = <<cmd>>
  BY FirstWord
<1> HIDE DEF own, exact, root
<1>3. CASE \E cmd \in Commands : own = <<cmd>> /\ exact = <<cmd>>
  <2>1. PICK cmd \in Commands : own = <<cmd>> /\ exact = <<cmd>>
    BY <1>3
  <2>2. /\ own # <<>> /\ exact # <<>> /\ exact[1] = cmd /\ Last(own) = cmd /\ Len(own) = 1
        /\ (n - 1) + 1 = n
    BY <2>1 DEF Last
  <2> QED
    BY <1>1, <2>2 DEF Reached, own, root
<1>4. CASE own = <<>> /\ exact = <<>>
  BY <1>1, <1>4 DEF Reached, own, root
<1>5. CASE Builtins /\ own = <<>> /\ \E cmd \in OwnCommands : cmd.name = word /\ exact = <<cmd>>
  <2>1. PICK cmd \in OwnCommands : cmd.name = word /\ exact = <<cmd>>
    BY <1>5
  <2>2. cmd.sub = <<>> /\ cmd.offers = <<>>
    <3>1. \A name, sub : /\ Bare(name, sub).name = name /\ Bare(name, sub).sub = sub
                         /\ Bare(name, sub).offers = <<>>
      BY DEF Bare
    <3>2. cmd.name \notin {Word.history, Word.echo}
      BY <1>5, <2>1
    <3> QED
      BY <3>1, <3>2 DEF OwnCommands
  <2>3. Below(cmd, n) = Level(<<>>) /\ exact # <<>> /\ exact[1] = cmd
    BY <2>1, <2>2 DEF Below, IsParent
  <2> QED
    BY <1>1, <1>5, <2>3 DEF Reached, own, root
<1> QED
  BY <1>2, <1>3, <1>4, <1>5

LEMMA ReachedNext ==
  ASSUME NEW p \in Seq(Commands), NEW i \in Nat \ {0}, Len(p) <= i, NEW n \in Nat, NEW word
  PROVE  Descend(Reached(p, i, n), word, n - (i + 1) + 1)
           = Reached(IF Len(p) < i THEN p ELSE p \o Child(Last(p).sub, word), i + 1, n)
<1> DEFINE q == IF Len(p) < i THEN p ELSE p \o Child(Last(p).sub, word)
           arg == n - (i + 1) + 1
           cmd == Last(p)
<1>1. Len(p) \in Nat /\ p \o <<>> = p /\ (p = <<>> <=> Len(p) = 0)
  BY LenProperties, ConcatEmptySeq, EmptySeq
<1>2. CASE p = <<>> \/ (IsParent(cmd) /\ Len(p) < i)
  <2>1. Len(p) < i /\ Len(p) < i + 1
    BY <1>1, <1>2
  <2>2. Reached(p, i, n) = Level(<<>>) /\ q = p /\ Reached(p, i + 1, n) = Level(<<>>)
    BY <1>2, <2>1 DEF Reached
  <2> HIDE DEF q, arg
  <2>3. Descend(Reached(p, i, n), word, arg) = Reached(q, i + 1, n)
    BY <2>2, NowhereNext
  <2> QED
    BY <2>3 DEF q, arg
<1>3. CASE p # <<>> /\ ~IsParent(cmd)
  <2> DEFINE below == Below(cmd, n - Len(p) + 1)
  <2>1. below.table = <<>>
    BY <1>3 DEF Below, Provider, Level
  <2>2. cmd.sub = <<>>
    BY <1>3 DEF IsParent
  <2>3. q = p
    BY <1>1, <2>2, NoChild
  <2>4. Reached(p, i, n) = below /\ Reached(p, i + 1, n) = below
    BY <1>3 DEF Reached
  <2> HIDE DEF q, arg, below
  <2>5. Descend(Reached(p, i, n), word, arg) = Reached(q, i + 1, n)
    BY <2>1, <2>3, <2>4 DEF Descend
  <2> QED
    BY <2>5 DEF q, arg
<1>4. CASE p # <<>> /\ IsParent(cmd) /\ ~(Len(p) < i)
  <2>1. cmd \in Commands /\ cmd.sub \in Seq(Commands) /\ Len(p) = i
    <3>1. Len(p) \in 1..Len(p)
      BY <1>1, <1>4
    <3>2. cmd \in Commands
      BY <3>1, ElementOfSeq DEF Last
    <3> QED
      BY <1>1, <1>4, <3>2, RootsAssumption
  <2> DEFINE sub == cmd.sub
             exact == Child(sub, word)
  <2>2. sub # <<>> /\ Reached(p, i, n) = Level(sub)
    BY <1>4 DEF Reached, Below, IsParent
  <2>3. q = p \o exact
    BY <1>4
  <2> HIDE DEF q, arg, cmd, sub
  <2>4. Descend(Level(sub), word, arg)
          = IF exact = <<>> THEN Level(<<>>) ELSE Below(exact[1], arg)
    BY <2>2 DEF Descend, Level
  <2>5. exact = <<>> \/ \E c \in Commands : exact = <<c>>
    <3>1. sub \in Seq(Commands)
      BY <2>1 DEF sub
    <3> QED
      BY <3>1, ChildFacts
  <2> HIDE DEF exact
  <2>6. CASE exact = <<>>
    <3>1. q = p /\ Len(p) < i + 1
      BY <1>1, <2>1, <2>3, <2>6
    <3>2. Reached(q, i + 1, n) = Level(<<>>)
      BY <1>4, <3>1 DEF Reached, cmd
    <3> QED
      BY <2>2, <2>4, <2>6, <3>2 DEF q, arg
  <2>7. CASE \E c \in Commands : exact = <<c>>
    <3>1. PICK c \in Commands : exact = <<c>>
      BY <2>7
    <3>2. exact # <<>> /\ exact[1] = c
      BY <3>1
    <3>3. Len(q) = Len(p) + 1 /\ Last(q) = c /\ q # <<>>
      BY <2>3, <3>1, OneLonger
    <3>4. Len(q) = i + 1 /\ ~(Len(q) < i + 1) /\ n - Len(q) + 1 = arg
      BY <2>1, <3>3 DEF arg
    <3>5. Reached(q, i + 1, n) = Below(c, arg)
      BY <3>3, <3>4 DEF Reached
    <3> QED
      BY <2>2, <2>4, <3>2, <3>5 DEF q, arg
  <2> QED
    BY <2>5, <2>6, <2>7
<1> QED
  BY <1>2, <1>3, <1>4

\* Completion stands where the resolver's path ends, unless a built-in with
\* arguments comes first.
LEMMA WalkFollowsPath ==
  ASSUME NEW words, Len(words) \in Nat \ {0},
         ~(Builtins /\ words[1] \in {Word.history, Word.echo})
  PROVE  /\ ResolvedPath(Roots, words) \in Seq(Commands)
         /\ Len(ResolvedPath(Roots, words)) <= Len(words)
         /\ Candidates(Roots, Builtins, words)
              = Reached(ResolvedPath(Roots, words), Len(words), Len(words)).names
<1> DEFINE n == Len(words)
           root == Level(RootTable(Roots, Builtins))
           tables == FlattenSeq(Roots)
<1>1. PICK at : /\ at[0] = root
                /\ \A i \in 1..n : at[i] = Descend(at[i - 1], words[i], n - i + 1)
                /\ Candidates(Roots, Builtins, words) = at[n].names
  BY CandidatesWalk
<1>2. PICK p : /\ p[0] = <<>>
               /\ \A i \in 0..n : p[i] \in Seq(Commands) /\ Len(p[i]) <= i
               /\ PathsOf(p, Roots, words, n)
               /\ p[n] = ResolvedPath(Roots, words)
  BY RootsAssumption, PathSteps
<1>3. /\ n \in Nat /\ n # 0
      /\ \A i \in 1..n :
           p[i] = IF Len(p[i - 1]) < i - 1 THEN p[i - 1]
                  ELSE p[i - 1] \o Child(IF i = 1 THEN tables ELSE Last(p[i - 1]).sub, words[i])
  BY <1>2 DEF PathsOf
<1> HIDE DEF n, root, tables
<1>4. at[1] = Reached(p[1], 1, n)
  <2>1. 1 \in 1..n /\ 1 - 1 = 0 /\ n - 1 + 1 = n
    BY <1>3
  <2>2. at[1] = Descend(at[0], words[1], n)
    BY <1>1, <2>1
  <2> DEFINE first == Child(tables, words[1])
  <2>3. p[1] = p[0] \o first
    <3>1. Len(p[1 - 1]) = 0 /\ p[1 - 1] = p[0]
      BY <1>2
    <3>2. p[1] = IF Len(p[1 - 1]) < 1 - 1 THEN p[1 - 1] ELSE p[1 - 1] \o first
      BY <1>3, <2>1
    <3> HIDE DEF first
    <3> QED
      BY <3>1, <3>2
  <2>4. first \in Seq(Commands)
    <3>1. tables \in Seq(Commands)
      BY RootNames DEF tables
    <3>2. first = <<>> \/ \E cmd \in Commands : first = <<cmd>>
      BY <3>1, ChildFacts
    <3> HIDE DEF first
    <3>3. <<>> \in Seq(Commands) /\ \A cmd \in Commands : <<cmd>> \in Seq(Commands)
      OBVIOUS
    <3> QED
      BY <3>2, <3>3
  <2> HIDE DEF first
  <2>5. p[1] = first
    BY <1>2, <2>3, <2>4, ConcatEmptySeq
  <2>6. Descend(root, words[1], n) = Reached(first, 1, n)
    BY <1>3, ReachedFirst DEF root, tables, first
  <2> QED
    BY <1>1, <2>2, <2>5, <2>6
<1>5. ASSUME NEW i \in 1..n, i + 1 \in 1..n, at[i] = Reached(p[i], i, n)
      PROVE  at[i + 1] = Reached(p[i + 1], i + 1, n)
  <2> DEFINE j == i + 1
             s == p[i]
             w == words[j]
  <2>1. /\ j \in 1..n /\ j - 1 = i /\ j # 1 /\ i \in Nat \ {0} /\ i \in 0..n
        /\ n - j + 1 = n - (i + 1) + 1
    BY <1>3, <1>5
  <2>2. s \in Seq(Commands) /\ Len(s) <= i
    BY <1>2, <2>1
  <2> HIDE DEF j
  <2>3. at[j] = Descend(Reached(s, i, n), w, n - j + 1)
    BY <1>1, <1>5, <2>1
  <2>4. p[j] = IF Len(s) < i THEN s ELSE s \o Child(Last(s).sub, w)
    BY <1>3, <2>1
  <2> HIDE DEF s, w
  <2>5. Descend(Reached(s, i, n), w, n - (i + 1) + 1)
          = Reached(IF Len(s) < i THEN s ELSE s \o Child(Last(s).sub, w), i + 1, n)
    BY ONLY <1>3, <2>1, <2>2, ReachedNext
  <2>6. at[j] = Reached(p[j], i + 1, n)
    BY <2>1, <2>3, <2>4, <2>5
  <2> QED
    BY <2>6 DEF j
<1> DEFINE T == {i \in Nat : i \in 1..n => at[i] = Reached(p[i], i, n)}
<1>6. 0 \in T
  OBVIOUS
<1>7. ASSUME NEW i \in T PROVE i + 1 \in T
  <2> SUFFICES ASSUME i + 1 \in 1..n PROVE at[i + 1] = Reached(p[i + 1], i + 1, n)
    OBVIOUS
  <2>1. i \in Nat /\ (i \in 1..n => at[i] = Reached(p[i], i, n))
    OBVIOUS
  <2> HIDE DEF T
  <2>2. CASE i = 0
    BY <1>4, <2>2
  <2>3. CASE i # 0
    <3>1. i \in 1..n
      BY <1>3, <2>1, <2>3
    <3> QED
      BY <1>5, <2>1, <3>1
  <2> QED
    BY <2>2, <2>3
<1>8. T = Nat
  <2>1. T \in SUBSET Nat
    OBVIOUS
  <2> HIDE DEF T
  <2> QED
    BY <1>6, <1>7, <2>1, InductionOnNat
<1>9. at[n] = Reached(p[n], n, n) /\ n \in 0..n
  BY <1>3, <1>8
<1> QED
  BY <1>1, <1>2, <1>9 DEF n

-----------------------------------------------------------------------------
\* The two built-ins with arguments, the commands that stand for these, and the
\* arguments the dispatcher lets through.
OwnWords(word) == IF word = Word.history THEN HistoryWords ELSE EchoWords
KnownArguments(word) ==
  IF word = Word.history THEN {Word.clear, Word.status} ELSE {Word.status, Word.on, Word.off}

LEMMA OwnArguments ==
  ASSUME Builtins, NEW word \in {Word.history, Word.echo}
  PROVE  /\ Child(RootTable(Roots, Builtins), word) = <<Bare(word, OwnWords(word))>>
         /\ OwnWords(word) # <<>>
         /\ \A cmd \in ToSet(OwnWords(word)), arg \in Nat : Below(cmd, arg) = Level(<<>>)
         /\ OwnWords(word) \in Seq(Known) /\ Named(OwnWords(word))
         /\ Tellable(Visible(OwnWords(word)))
         /\ ToSet(Visible(OwnWords(word))) = KnownArguments(word)
<1> DEFINE sub == OwnWords(word)
           Leaf(name) == Bare(name, <<>>)
<1>1. \A name, table : /\ Bare(name, table).name = name /\ Bare(name, table).sub = table
                       /\ Bare(name, table).offers = <<>> /\ Bare(name, table).flags = {}
  BY DEF Bare
<1>2. /\ Word.clear \notin {Word.help, Word.history, Word.echo, Word.status}
      /\ Word.help \notin {Word.history, Word.echo} /\ Word.history # Word.echo
      /\ Word.on # Word.off /\ Word.status \notin {Word.on, Word.off}
      /\ \A w \in {Word.clear, Word.status, Word.on, Word.off} : IsName(w)
  BY WordAssumption DEF ReservedNames
<1>3. /\ sub # <<>> /\ sub \in Seq(Leaves)
      /\ ToSet(sub) = {Leaf(name) : name \in KnownArguments(word)}
      /\ Named(sub)
  <2>1. {Leaf(Word.clear), Leaf(Word.status), Leaf(Word.on), Leaf(Word.off)} \subseteq Leaves
    BY DEF Leaves, ReservedNames
  <2>2. CASE word = Word.history
    <3> DEFINE a == Leaf(Word.clear)
               b == Leaf(Word.status)
               two == <<a, b>>
    <3>1. sub = two /\ KnownArguments(word) = {Word.clear, Word.status}
      BY <2>2 DEF OwnWords, HistoryWords, KnownArguments
    <3>2. a.name = Word.clear /\ b.name = Word.status /\ a \in Leaves /\ b \in Leaves
      BY <1>1, <2>1
    <3>3. {Leaf(name) : name \in {Word.clear, Word.status}} = {a, b}
      OBVIOUS
    <3> HIDE DEF a, b
    <3>4. /\ Len(two) = 2 /\ two[1] = a /\ two[2] = b /\ DOMAIN two = {1, 2} /\ 1..2 = {1, 2}
          /\ two # <<>> /\ two \in Seq(Leaves)
      BY <3>2
    <3> HIDE DEF two, sub, Leaf
    <3>5. ToSet(two) = {a, b}
      BY <3>4 DEF ToSet
    <3>6. Named(two)
      BY <1>2, <3>2, <3>4 DEF Named
    <3> QED
      BY <3>1, <3>3, <3>4, <3>5, <3>6
  <2>3. CASE word # Word.history
    <3> DEFINE a == Leaf(Word.off)
               b == Leaf(Word.on)
               c == Leaf(Word.status)
               three == <<a, b, c>>
    <3>1. sub = three /\ KnownArguments(word) = {Word.off, Word.on, Word.status}
      BY <2>3 DEF OwnWords, EchoWords, KnownArguments
    <3>2. /\ a.name = Word.off /\ b.name = Word.on /\ c.name = Word.status
          /\ a \in Leaves /\ b \in Leaves /\ c \in Leaves
      BY <1>1, <2>1
    <3>3. {Leaf(name) : name \in {Word.off, Word.on, Word.status}} = {a, b, c}
      OBVIOUS
    <3> HIDE DEF a, b, c
    <3>4. /\ Len(three) = 3 /\ three[1] = a /\ three[2] = b /\ three[3] = c
          /\ DOMAIN three = {1, 2, 3} /\ 1..3 = {1, 2, 3}
          /\ three # <<>> /\ three \in Seq(Leaves)
      BY <3>2
    <3> HIDE DEF three, sub, Leaf
    <3>5. ToSet(three) = {a, b, c}
      BY <3>4 DEF ToSet
    <3>6. Named(three)
      BY <1>2, <3>2, <3>4 DEF Named
    <3> QED
      BY <3>1, <3>3, <3>4, <3>5, <3>6
  <2> QED
    BY <2>2, <2>3
<1> HIDE DEF sub
<1>4. ASSUME NEW cmd \in ToSet(sub), NEW arg \in Nat PROVE Below(cmd, arg) = Level(<<>>)
  <2>1. cmd.sub = <<>> /\ cmd.offers = <<>>
    BY <1>1, <1>3
  <2> QED
    BY <2>1 DEF Below, IsParent
<1>5. sub \in Seq(Known)
  <2>1. Leaves \subseteq Known
    BY DEF Known
  <2> QED
    BY <1>3, <2>1, SeqMonotonic
<1>6. Tellable(Visible(sub)) /\ ToSet(Visible(sub)) = KnownArguments(word)
  <2>1. /\ Tellable(Visible(sub))
        /\ ToSet(Visible(sub)) = {cmd.name : cmd \in {c \in ToSet(sub) : ~Flag(c, "HIDDEN")}}
    BY <1>3, VisibleTellable
  <2>2. {c \in ToSet(sub) : ~Flag(c, "HIDDEN")} = {Leaf(name) : name \in KnownArguments(word)}
    BY <1>1, <1>3 DEF Flag
  <2>3. \A name : Leaf(name).name = name
    BY <1>1
  <2> HIDE DEF Leaf
  <2> QED
    BY <2>1, <2>2, <2>3
<1>7. Child(RootTable(Roots, Builtins), word) = <<Bare(word, OwnWords(word))>>
  <2>1. word \in ReservedNames
    BY DEF ReservedNames
  <2>2. PICK cmd \in OwnCommands :
          cmd.name = word /\ Child(RootTable(Roots, Builtins), word) = <<cmd>>
    BY <2>1, FirstWord
  <2>3. cmd = Bare(word, OwnWords(word))
    BY <1>1, <1>2, <2>2 DEF OwnCommands, OwnWords
  <2> QED
    BY <2>2, <2>3
<1> QED
  BY <1>3, <1>4, <1>5, <1>6, <1>7 DEF sub

\* Below history and echo the walk offers these arguments, and nothing after one.
LEMMA WalkOfBuiltin ==
  ASSUME Builtins, NEW words, Len(words) \in Nat \ {0}, words[1] \in {Word.history, Word.echo}
  PROVE  Candidates(Roots, Builtins, words)
           = IF Len(words) = 1 THEN Visible(OwnWords(words[1])) ELSE <<>>
<1> DEFINE n == Len(words)
           word == words[1]
           root == RootTable(Roots, Builtins)
           sub == OwnWords(word)
           nowhere == Level(<<>>)
<1>1. PICK at : /\ at[0] = Level(root)
                /\ \A i \in 1..n : at[i] = Descend(at[i - 1], words[i], n - i + 1)
                /\ Candidates(Roots, Builtins, words) = at[n].names
  BY CandidatesWalk
<1>2. /\ Child(root, word) = <<Bare(word, sub)>> /\ sub # <<>>
      /\ \A cmd \in ToSet(sub), arg \in Nat : Below(cmd, arg) = nowhere
      /\ sub \in Seq(Known) /\ Named(sub)
  BY OwnArguments
<1>3. n \in Nat /\ n # 0
  OBVIOUS
<1> HIDE DEF n, word, root, sub
<1>4. at[1] = Level(sub)
  <2> DEFINE cmd == Bare(word, sub)
  <2>1. 1 \in 1..n /\ 1 - 1 = 0
    BY <1>3
  <2>2. at[1] = Descend(Level(root), words[1], n - 1 + 1)
    BY <1>1, <2>1
  <2>3. root # <<>>
    <3>1. <<cmd>> # <<>>
      OBVIOUS
    <3> QED
      BY <1>2, <3>1, NoChild
  <2>4. cmd.sub = sub
    BY DEF Bare
  <2> HIDE DEF cmd
  <2>5. <<cmd>> # <<>> /\ <<cmd>>[1] = cmd
    OBVIOUS
  <2>6. Level(root).table = root
    BY DEF Level
  <2>7. Child(Level(root).table, words[1]) = <<cmd>>
    BY <1>2, <2>6 DEF cmd, word
  <2>8. at[1] = Below(cmd, n - 1 + 1)
    BY <2>2, <2>3, <2>5, <2>6, <2>7 DEF Descend
  <2>9. IsParent(cmd)
    BY <1>2, <2>4 DEF IsParent
  <2> QED
    BY <2>4, <2>8, <2>9 DEF Below
<1>5. ASSUME n # 1 PROVE at[2] = nowhere
  <2> DEFINE w == words[2]
             arg == n - 2 + 1
  <2>1. 2 \in 1..n /\ 2 - 1 = 1 /\ arg \in Nat
    BY <1>3, <1>5
  <2>2. at[2] = Descend(Level(sub), w, arg)
    BY <1>1, <1>4, <2>1
  <2> HIDE DEF w, arg
  <2>3. \/ \E cmd \in ToSet(sub) : Child(sub, w) = <<cmd>>
        \/ Child(sub, w) = <<>>
    BY <1>2, ChildNamed
  <2>4. at[2] = IF Child(sub, w) = <<>> THEN nowhere ELSE Below(Child(sub, w)[1], arg)
    BY <1>2, <2>2 DEF Descend, Level
  <2>5. CASE \E cmd \in ToSet(sub) : Child(sub, w) = <<cmd>>
    <3>1. PICK cmd \in ToSet(sub) : Child(sub, w) = <<cmd>>
      BY <2>5
    <3>2. <<cmd>> # <<>> /\ <<cmd>>[1] = cmd
      OBVIOUS
    <3>3. at[2] = Below(cmd, arg)
      BY <2>4, <3>1, <3>2
    <3> QED
      BY <1>2, <2>1, <3>3
  <2> QED
    BY <2>3, <2>4, <2>5
<1> DEFINE T == {i \in Nat : i \in 2..n => at[i] = nowhere}
<1>6. 0 \in T
  OBVIOUS
<1>7. ASSUME NEW i \in T PROVE i + 1 \in T
  <2> SUFFICES ASSUME i + 1 \in 2..n PROVE at[i + 1] = nowhere
    OBVIOUS
  <2> DEFINE j == i + 1
  <2>1. i \in Nat /\ (i \in 2..n => at[i] = nowhere)
    OBVIOUS
  <2> HIDE DEF T
  <2>2. CASE i = 1
    BY <1>3, <1>5, <2>2
  <2>3. CASE i # 1
    <3>1. at[i] = nowhere /\ j \in 1..n /\ j - 1 = i
      BY <1>3, <2>1, <2>3
    <3> HIDE DEF j
    <3>2. at[j] = Descend(nowhere, words[j], n - j + 1)
      BY <1>1, <3>1
    <3>3. at[j] = nowhere
      BY <3>2, NowhereNext
    <3> QED
      BY <3>3 DEF j
  <2> QED
    BY <2>2, <2>3
<1>8. T = Nat
  <2>1. T \in SUBSET Nat
    OBVIOUS
  <2> HIDE DEF T
  <2> QED
    BY <1>6, <1>7, <2>1, InductionOnNat
<1>9. CASE n = 1
  <2>1. at[n] = Level(sub)
    BY <1>4, <1>9
  <2>2. Level(sub).names = Visible(sub)
    BY DEF Level
  <2> QED
    BY <1>1, <1>9, <2>1, <2>2 DEF n, word, sub
<1>10. CASE n # 1
  <2>1. at[n] = nowhere
    BY <1>3, <1>8, <1>10
  <2>2. nowhere.names = <<>>
    BY NoneVisible DEF Level
  <2> QED
    BY <1>1, <1>10, <2>1, <2>2 DEF n
<1> QED
  BY <1>9, <1>10

-----------------------------------------------------------------------------
LEMMA ProviderNames ==
  ASSUME NEW cmd \in Commands, NEW arg \in DOMAIN cmd.offers
  PROVE  ToSet(Provider(cmd, arg).names)
           = {cmd.offers[arg][i] : i \in 1..Min({ScanMax, Len(cmd.offers[arg])})}
<1> DEFINE offered == cmd.offers[arg]
           m == Min({ScanMax, Len(offered)})
<1>1. offered \in Seq(String) /\ Len(offered) \in Nat
  <2>1. cmd.offers \in Seq(Seq(String)) /\ arg \in 1..Len(cmd.offers)
    BY RootsAssumption, LenProperties
  <2>2. offered \in Seq(String)
    BY <2>1, ElementOfSeq
  <2> HIDE DEF offered
  <2> QED
    BY <2>2, LenProperties
<1>2. Provider(cmd, arg).names = SubSeq(offered, 1, m)
  BY DEF Provider
<1> HIDE DEF offered
<1>3. m \in Nat /\ m <= Len(offered)
  <2> DEFINE T == {ScanMax, Len(offered)}
  <2>1. T \in SUBSET Nat /\ T # {} /\ T \subseteq 0..(ScanMax + Len(offered))
    BY <1>1, ScanMaxAssumption
  <2> DEFINE k == ScanMax + Len(offered)
  <2>2. k \in Nat
    BY <1>1, ScanMaxAssumption
  <2> HIDE DEF T, k
  <2>3. Min(T) \in T /\ \A y \in T : Min(T) <= y
    BY <2>1, <2>2, LastAndFirst DEF k
  <2> QED
    BY <2>1, <2>3 DEF T
<1> HIDE DEF m
<1>4. /\ Len(SubSeq(offered, 1, m)) = m
      /\ \A i \in 1..m : SubSeq(offered, 1, m)[i] = offered[i]
      /\ DOMAIN SubSeq(offered, 1, m) = 1..m
  <2>1. \A i \in 1..m : offered[i] \in String
    BY <1>1, <1>3, ElementOfSeq
  <2>2. m \in Int /\ 1 \in Int
    BY <1>3
  <2> HIDE DEF m
  <2>3. /\ SubSeq(offered, 1, m) \in Seq(String)
        /\ Len(SubSeq(offered, 1, m)) = IF 1 <= m THEN m - 1 + 1 ELSE 0
        /\ \A i \in 1..(m - 1 + 1) : SubSeq(offered, 1, m)[i] = offered[1 + i - 1]
    BY ONLY <2>1, <2>2, SubSeqProperties
  <2> DEFINE cut == SubSeq(offered, 1, m)
  <2> HIDE DEF cut
  <2>4. Len(cut) = m /\ \A i \in 1..m : cut[i] = offered[i]
    BY <1>3, <2>3 DEF cut
  <2>5. DOMAIN cut = 1..Len(cut)
    BY <2>3, LenProperties DEF cut
  <2> QED
    BY <2>4, <2>5 DEF cut
<1> DEFINE cut == SubSeq(offered, 1, m)
<1> HIDE DEF cut
<1>5. ToSet(cut) = {offered[i] : i \in 1..m}
  BY <1>4 DEF ToSet, cut
<1> QED
  BY <1>2, <1>5 DEF cut, m, offered

\* With plain offers these stand for themselves.
LEMMA ProviderTellable ==
  ASSUME PlainOffers, NEW cmd \in Commands, NEW arg \in DOMAIN cmd.offers
  PROVE  Tellable(Provider(cmd, arg).names)
<1> DEFINE names == Provider(cmd, arg).names
<1>1. names \in Seq(Text)
  <2>1. cmd \in Known
    BY DEF Known
  <2> QED
    BY <2>1, ProviderType DEF Levels
<1>2. IsInjective(names)
      /\ \A name \in ToSet(names) : name # <<>> /\ \A i \in DOMAIN name : ~IsSpace(name[i])
  BY DEF PlainOffers
<1> HIDE DEF names
<1>3. /\ DOMAIN names = 1..Len(names)
      /\ \A k \in 1..Len(names) : names[k] \in ToSet(names) /\ names[k] \in Text
  BY <1>1, ElementOfSeq, LenProperties DEF ToSet
<1>4. Distinct(names)
  BY <1>2, <1>3 DEF IsInjective, Distinct
<1>5. ASSUME NEW k \in 1..Len(names) PROVE names[k] # <<>> /\ NoSpace(names[k])
  <2> DEFINE name == names[k]
  <2>1. name \in ToSet(names) /\ name \in Text
    BY <1>3
  <2> HIDE DEF name
  <2>2. DOMAIN name = 1..Len(name)
    BY <2>1, LenProperties DEF Text
  <2>3. name # <<>> /\ NoSpace(name)
    BY <1>2, <2>1, <2>2 DEF NoSpace
  <2> QED
    BY <2>3 DEF name
<1> QED
  BY <1>4, <1>5 DEF Tellable, names

\* What the walk offers after words: at the root every visible root and the built-ins,
\* below history and echo their keywords, below a parent its visible subcommands, and
\* after a leaf its provider's words.
Follow(words) ==
  LET path == ResolvedPath(Roots, words)
  IN IF words = <<>>
     THEN ToSet(Visible(FlattenSeq(Roots))) \cup (IF Builtins THEN ReservedNames ELSE {})
     ELSE IF Builtins /\ words[1] \in {Word.history, Word.echo}
     THEN IF Len(words) = 1 THEN KnownArguments(words[1]) ELSE {}
     ELSE IF path # <<>> /\ IsParent(Last(path))
     THEN {name \in ToSet(Visible(Last(path).sub)) :
             Len(ResolvedPath(Roots, Append(words, name))) = Len(words) + 1}
     ELSE Offers(words)

\* What the dispatcher accepts after history and echo.
LEMMA BuiltinAccepts ==
  ASSUME Builtins, NEW words \in Seq(Text), words # <<>>,
         words[1] \in {Word.history, Word.echo}, NEW name \in Text
  PROVE  Dispatch(Roots, Builtins, Append(words, name)).status = "SH_OK"
           <=> Len(words) = 1 /\ name \in KnownArguments(words[1])
<1> DEFINE n == Len(words)
           word == words[1]
           keywords == {Word.clear, Word.status, Word.on, Word.off}
           more == Append(words, name)
           argument == IF Len(more) = 2 THEN more[2] ELSE <<>>
<1>1. n \in Nat /\ n # 0
  BY LenProperties, EmptySeq
<1>2. /\ Word.clear \notin {Word.history, Word.echo} /\ Word.help \notin {Word.history, Word.echo}
      /\ \A w \in keywords : IsName(w)
  BY WordAssumption DEF ReservedNames
<1>3. <<>> \notin KnownArguments(word)
  <2>1. KnownArguments(word) \subseteq keywords
    BY DEF KnownArguments
  <2> QED
    BY <1>2, <2>1 DEF IsName
<1> HIDE DEF keywords
<1>4. /\ Len(more) = n + 1 /\ more[n + 1] = name /\ more \in Seq(Text)
      /\ \A i \in 1..n : more[i] = words[i]
  BY AppendProperties
<1> HIDE DEF more
<1>5. more[1] = word /\ more # <<>> /\ Len(more) # 1
  BY <1>1, <1>4, EmptySeq
<1> HIDE DEF word
<1>6. word \in {Word.history, Word.echo} /\ word # Word.clear /\ word # Word.help
  BY <1>2 DEF word
<1>7. Dispatch(Roots, Builtins, more) = Builtin(more)
  BY <1>5, <1>6 DEF Dispatch
<1>8. Builtin(more) = Refuse(IF argument \in KnownArguments(word)
                             THEN "SH_OK" ELSE "SH_ERR_INVALID_ARG")
  BY <1>5 DEF Builtin, KnownArguments
<1>9. argument = IF n = 1 THEN name ELSE <<>>
  <2>1. CASE n = 1
    BY <1>4, <2>1
  <2>2. CASE n # 1
    <3> DEFINE k == Len(more)
    <3>1. k = n + 1
      BY <1>4
    <3>2. k # 2
      <4> HIDE DEF k, n
      <4> QED
        BY ONLY <1>1, <2>2, <3>1
    <3> QED
      BY <2>2, <3>2
  <2> QED
    BY <2>1, <2>2
<1> HIDE DEF argument
<1>10. Builtin(more).status = "SH_OK" <=> argument \in KnownArguments(word)
  BY <1>8 DEF Refuse
<1> QED
  BY <1>3, <1>7, <1>9, <1>10 DEF more, word

LEMMA WordAppend ==
  ASSUME NEW words \in Seq(Text), NEW w \in Text
  PROVE  ResolvedPath(Roots, Append(words, w))
           = IF Len(ResolvedPath(Roots, words)) < Len(words) THEN ResolvedPath(Roots, words)
             ELSE ResolvedPath(Roots, words)
                    \o Child(IF words = <<>> THEN FlattenSeq(Roots)
                             ELSE Last(ResolvedPath(Roots, words)).sub, w)
<1> DEFINE V == Text
           C == Commands
           tables == Roots
<1>1. words \in Seq(V) /\ w \in V
  OBVIOUS
<1>2. tables \in Seq(Seq(C)) /\ \A cmd \in C : cmd.sub \in Seq(C)
  BY RootsAssumption
<1> HIDE DEF V, C, tables
<1>3. ResolvedPath(tables, Append(words, w))
        = IF Len(ResolvedPath(tables, words)) < Len(words) THEN ResolvedPath(tables, words)
          ELSE ResolvedPath(tables, words)
                 \o Child(IF words = <<>> THEN FlattenSeq(tables)
                          ELSE Last(ResolvedPath(tables, words)).sub, w)
  BY ONLY <1>1, <1>2, PathAppend, ZenonT(60)
<1> QED
  BY <1>3 DEF tables

\* What may follow other words: what the walk offers where it stands.
LEMMA PathFollows ==
  ASSUME PlainOffers, NEW words \in Seq(Text), words # <<>>,
         ~(Builtins /\ words[1] \in {Word.history, Word.echo})
  PROVE  /\ Tellable(Reached(ResolvedPath(Roots, words), Len(words), Len(words)).names)
         /\ ToSet(Reached(ResolvedPath(Roots, words), Len(words), Len(words)).names)
              = Follow(words)
<1> DEFINE n == Len(words)
           path == ResolvedPath(Roots, words)
           reached == Reached(path, n, n)
           argument == n - Len(path) + 1
           cmd == Last(path)
           follow == Follow(words)
<1>1. n \in Nat \ {0}
  BY LenProperties, EmptySeq
<1>2. path \in Seq(Commands) /\ Len(path) <= n /\ Len(path) \in Nat
  <2>1. path \in Seq(Commands) /\ Len(path) <= n
    BY <1>1, WalkFollowsPath
  <2> HIDE DEF path
  <2> QED
    BY <2>1, LenProperties
<1>3. follow = IF path = <<>> THEN {}
               ELSE IF IsParent(cmd)
               THEN {name \in ToSet(Visible(cmd.sub)) :
                       Len(ResolvedPath(Roots, Append(words, name))) = n + 1}
               ELSE IF Flag(cmd, "SENSITIVE") \/ argument \notin DOMAIN cmd.offers THEN {}
               ELSE {cmd.offers[argument][i] :
                       i \in 1..Min({ScanMax, Len(cmd.offers[argument])})}
  BY DEF Follow, Offers
<1>4. Tellable(<<>>) /\ ToSet(<<>>) = {} /\ Level(<<>>).names = <<>>
  BY NoneVisible DEF Tellable, Distinct, ToSet, Level
<1>5. CASE path = <<>>
  <2>1. reached = Level(<<>>) /\ follow = {}
    BY <1>3, <1>5 DEF Reached
  <2> HIDE DEF reached, follow
  <2>2. Tellable(reached.names) /\ ToSet(reached.names) = follow
    BY <1>4, <2>1
  <2> QED
    BY <2>2 DEF reached, follow
<1>6. ASSUME path # <<>> PROVE cmd \in Commands
  <2> HIDE DEF path
  <2>1. Len(path) \in 1..Len(path)
    BY <1>2, <1>6, EmptySeq
  <2> QED
    BY <1>2, <2>1, ElementOfSeq DEF Last
<1>7. CASE path # <<>> /\ IsParent(cmd)
  <2> DEFINE names == Visible(cmd.sub)
  <2>1. cmd.sub \in Seq(Commands) /\ Named(cmd.sub)
    BY <1>6, <1>7, SubtableNamed
  <2>2. /\ Tellable(names)
        /\ ToSet(names) = {c.name : c \in {d \in ToSet(cmd.sub) : ~Flag(d, "HIDDEN")}}
    BY <2>1, VisibleTellable
  <2>3. follow = {name \in ToSet(names) :
                    Len(ResolvedPath(Roots, Append(words, name))) = n + 1}
    BY <1>3, <1>7
  <2>4. ASSUME NEW name \in ToSet(names)
        PROVE  ResolvedPath(Roots, Append(words, name))
                 = IF Len(path) < n THEN path ELSE path \o Child(cmd.sub, name)
    <3>1. PICK c \in ToSet(cmd.sub) : c.name = name
      BY <2>2
    <3>2. c \in Commands
      BY <2>1, ElementOfSeq, LenProperties DEF ToSet
    <3>3. name \in Text
      BY <3>1, <3>2, RootsAssumption DEF String, Text, CharCode
    <3>4. ResolvedPath(Roots, Append(words, name))
            = IF Len(path) < n THEN path
              ELSE path \o Child(IF words = <<>> THEN FlattenSeq(Roots) ELSE cmd.sub, name)
      BY <3>3, WordAppend
    <3> QED
      BY <3>4
  <2>5. CASE Len(path) < n
    <3>1. reached = Level(<<>>)
      BY <1>7, <2>5 DEF Reached
    <3>2. follow = {}
      <4> HIDE DEF path, n, names
      <4>1. \A name \in ToSet(names) : Len(ResolvedPath(Roots, Append(words, name))) # n + 1
        BY <1>1, <1>2, <2>4, <2>5
      <4> QED
        BY <2>3, <4>1
    <3> HIDE DEF reached, follow
    <3>3. Tellable(reached.names) /\ ToSet(reached.names) = follow
      BY <1>4, <3>1, <3>2
    <3> QED
      BY <3>3 DEF reached, follow
  <2>6. CASE ~(Len(path) < n)
    <3>1. reached = Level(cmd.sub) /\ Level(cmd.sub).names = names
      BY <1>7, <2>6 DEF Reached, Below, Level
    <3>2. ASSUME NEW name \in ToSet(names)
          PROVE  Len(ResolvedPath(Roots, Append(words, name))) = n + 1
      <4>1. PICK c \in ToSet(cmd.sub) : c.name = name
        BY <2>2
      <4> DEFINE sub == cmd.sub
                 p == ResolvedPath(Roots, Append(words, name))
      <4>2. p = path \o Child(sub, name)
        BY <2>4, <2>6
      <4>3. sub \in Seq(Commands) /\ Named(sub) /\ ToSet(sub) \subseteq Commands
        BY <2>1, ElementOfSeq, LenProperties DEF ToSet
      <4> HIDE DEF p, path
      <4>4. PICK d \in Commands : Child(sub, name) = <<d>>
        BY <4>1, <4>3, ChildNamed
      <4>5. Len(p) = Len(path) + 1
        BY <1>2, <4>2, <4>4, OneLonger
      <4>6. Len(p) = n + 1
        BY <1>1, <1>2, <2>6, <4>5
      <4> QED
        BY <4>6 DEF p
    <3> HIDE DEF reached, follow, names
    <3>3. follow = ToSet(names)
      BY <2>3, <3>2
    <3>4. Tellable(reached.names) /\ ToSet(reached.names) = follow
      BY <2>2, <3>1, <3>3
    <3> QED
      BY <3>4 DEF reached, follow
  <2> QED
    BY <2>5, <2>6
<1>8. CASE path # <<>> /\ ~IsParent(cmd)
  <2>1. cmd \in Commands
    BY <1>6, <1>8
  <2>2. reached = Below(cmd, argument)
    BY <1>8 DEF Reached
  <2>3. follow = IF Flag(cmd, "SENSITIVE") \/ argument \notin DOMAIN cmd.offers THEN {}
                 ELSE {cmd.offers[argument][i] :
                         i \in 1..Min({ScanMax, Len(cmd.offers[argument])})}
    BY <1>3, <1>8
  <2>4. Below(cmd, argument)
          = IF cmd.offers # <<>> /\ ~Flag(cmd, "SENSITIVE") THEN Provider(cmd, argument)
            ELSE Level(<<>>)
    BY <1>8 DEF Below
  <2> HIDE DEF reached, follow, argument, cmd
  <2>5. Tellable(reached.names) /\ ToSet(reached.names) = follow
    <3>1. CASE Flag(cmd, "SENSITIVE")
      BY <1>4, <2>2, <2>3, <2>4, <3>1
    <3>2. CASE ~Flag(cmd, "SENSITIVE") /\ argument \notin DOMAIN cmd.offers
      <4>1. Provider(cmd, argument).names = <<>>
        BY <3>2 DEF Provider
      <4>2. reached.names = <<>> /\ follow = {}
        BY <1>4, <2>2, <2>3, <2>4, <3>2, <4>1
      <4> QED
        BY <1>4, <4>2
    <3>3. CASE ~Flag(cmd, "SENSITIVE") /\ argument \in DOMAIN cmd.offers
      <4>1. cmd.offers # <<>>
        <5>1. DOMAIN <<>> = {}
          OBVIOUS
        <5> QED
          BY <3>3, <5>1
      <4>2. reached = Provider(cmd, argument)
        BY <2>2, <2>4, <3>3, <4>1
      <4>3. Tellable(Provider(cmd, argument).names)
        BY <2>1, <3>3, ProviderTellable
      <4>4. ToSet(Provider(cmd, argument).names)
              = {cmd.offers[argument][i] :
                   i \in 1..Min({ScanMax, Len(cmd.offers[argument])})}
        BY <2>1, <3>3, ProviderNames
      <4> QED
        BY <2>3, <3>3, <4>2, <4>3, <4>4
    <3> QED
      BY <3>1, <3>2, <3>3
  <2> QED
    BY <2>5 DEF reached, follow
<1> QED
  BY <1>5, <1>7, <1>8

\* Completion offers this.
LEMMA CandidatesFollow ==
  ASSUME PlainOffers, NEW words \in Seq(Text)
  PROVE  /\ Tellable(Candidates(Roots, Builtins, words))
         /\ ToSet(Candidates(Roots, Builtins, words)) = Follow(words)
<1> DEFINE n == Len(words)
           offered == Candidates(Roots, Builtins, words)
           follow == Follow(words)
<1>1. n \in Nat /\ (n = 0 <=> words = <<>>)
  BY LenProperties, EmptySeq
<1>2. CASE words = <<>>
  <2>1. PICK at : at[0] = Level(RootTable(Roots, Builtins)) /\ offered = at[n].names
    BY <1>1, CandidatesWalk
  <2>2. offered = Visible(RootTable(Roots, Builtins))
    BY <1>1, <1>2, <2>1 DEF Level
  <2>3. follow = ToSet(Visible(FlattenSeq(Roots)))
                   \cup (IF Builtins THEN ReservedNames ELSE {})
    BY <1>2 DEF Follow
  <2> HIDE DEF offered, follow
  <2>4. Tellable(offered) /\ ToSet(offered) = follow
    BY <2>2, <2>3, FirstNames
  <2> QED
    BY <2>4 DEF offered, follow
<1>3. CASE words # <<>> /\ Builtins /\ words[1] \in {Word.history, Word.echo}
  <2> DEFINE word == words[1]
  <2>1. offered = IF n = 1 THEN Visible(OwnWords(word)) ELSE <<>>
    BY <1>1, <1>3, WalkOfBuiltin
  <2>2. follow = IF n = 1 THEN KnownArguments(word) ELSE {}
    BY <1>3 DEF Follow
  <2>3. /\ Tellable(Visible(OwnWords(word)))
        /\ ToSet(Visible(OwnWords(word))) = KnownArguments(word)
    BY <1>3, OwnArguments
  <2>4. Tellable(<<>>) /\ ToSet(<<>>) = {}
    BY DEF Tellable, Distinct, ToSet
  <2> HIDE DEF offered, follow, word, n
  <2>5. Tellable(offered) /\ ToSet(offered) = follow
    BY <2>1, <2>2, <2>3, <2>4
  <2> QED
    BY <2>5 DEF offered, follow
<1>4. CASE words # <<>> /\ ~(Builtins /\ words[1] \in {Word.history, Word.echo})
  <2> DEFINE reached == Reached(ResolvedPath(Roots, words), n, n)
  <2>1. offered = reached.names
    BY <1>1, <1>4, WalkFollowsPath
  <2>2. Tellable(reached.names) /\ ToSet(reached.names) = follow
    BY <1>4, PathFollows
  <2> HIDE DEF offered, follow, reached
  <2>3. Tellable(offered) /\ ToSet(offered) = follow
    BY <2>1, <2>2
  <2> QED
    BY <2>3 DEF offered, follow
<1> QED
  BY <1>2, <1>3, <1>4

\* The matches are what of it begins like the word at the cursor.
LEMMA MatchesAre ==
  ASSUME PlainOffers, NEW words \in Seq(Text), NEW prefix \in Text,
         NEW m, m = Matching(Candidates(Roots, Builtins, words), prefix)
  PROVE  /\ m \in Seq(Text) /\ Distinct(m)
         /\ \A i \in 1..Len(m) : IsPrefix(prefix, m[i]) /\ NoSpace(m[i]) /\ m[i] # <<>>
         /\ ToSet(m) = {name \in Follow(words) : IsPrefix(prefix, name)}
<1> DEFINE offered == Candidates(Roots, Builtins, words)
           follow == Follow(words)
           T == {name \in ToSet(offered) : IsPrefix(prefix, name)}
<1>1. offered \in Seq(Text) /\ Tellable(offered) /\ ToSet(offered) = follow
  <2>1. Len(words) \in Nat
    BY LenProperties
  <2> QED
    BY <2>1, CandidatesType, CandidatesFollow
<1>2. m = Only(offered, T)
  BY DEF Matching
<1> HIDE DEF offered, follow
<1>3. T = {name \in follow : IsPrefix(prefix, name)}
  BY <1>1
<1>4. ToSet(m) = T /\ Distinct(m) /\ m \in Seq(Text)
  <2>1. ToSet(offered) \cap T = T /\ Text \cap T \subseteq Text
    OBVIOUS
  <2> HIDE DEF T
  <2>2. /\ ToSet(Only(offered, T)) = ToSet(offered) \cap T
        /\ Distinct(offered) => Distinct(Only(offered, T))
    BY ONLY <1>1, OnlyElements
  <2>3. Only(offered, T) \in Seq(Text \cap T)
    BY ONLY <1>1, OnlyType
  <2>4. Only(offered, T) \in Seq(Text)
    BY ONLY <2>1, <2>3, SeqMonotonic
  <2> QED
    BY <1>1, <1>2, <2>1, <2>2, <2>4 DEF Tellable
<1>5. ASSUME NEW i \in 1..Len(m)
      PROVE  IsPrefix(prefix, m[i]) /\ NoSpace(m[i]) /\ m[i] # <<>>
  <2>1. m[i] \in T
    <3>1. m[i] \in ToSet(m)
      BY <1>4, LenProperties DEF ToSet
    <3> QED
      BY <1>4, <3>1
  <2>2. PICK k \in 1..Len(offered) : offered[k] = m[i]
    BY <1>1, <2>1, LenProperties DEF ToSet
  <2> QED
    BY <1>1, <2>1, <2>2 DEF Tellable
<1> QED
  BY <1>3, <1>4, <1>5 DEF follow

\* Completion at one place of a line.
LEMMA CompletedAgrees ==
  ASSUME PlainOffers, NEW t \in Text, NEW at \in 0..Len(t), NEW limit \in Nat,
         \A i \in 1..at : t[i] \notin Quotes \cup {Backslash},
         NEW r, r = Completed(Roots, Builtins, Capacity, t, at, limit)
  PROVE  LET start == TokenStart(t, at)
             before == PlainWords(SubSeq(t, 1, start))
             prefix == SubSeq(t, start + 1, at)
             names == {name \in Follow(before) : IsPrefix(prefix, name)}
         IN \/ Grows(r, names, prefix, t, at, limit)
            \/ ~r.replaced /\ Len(PlainWords(SubSeq(t, 1, at))) > Capacity
<1> DEFINE start == TokenStart(t, at)
           left == SubSeq(t, 1, at)
           before == PlainWords(SubSeq(t, 1, start))
           prefix == SubSeq(t, start + 1, at)
           tokens == Tokens(left, Capacity)
           m == Matching(Candidates(Roots, Builtins, Before(tokens.words, prefix)), prefix)
           follow == Follow(before)
<1>1. Len(t) \in Nat /\ at \in Nat /\ at <= Len(t)
  BY LenProperties DEF Text
<1>2. left \in Text /\ Len(left) = at /\ \A i \in 1..at : left[i] = t[i]
  BY CutLine
<1>3. /\ prefix \in Text /\ Before(PlainWords(left), prefix) = before
  BY BeforeCursor
<1>4. Plain(left)
  BY <1>2 DEF Plain
<1>5. IF tokens.status = "SH_OK" THEN tokens.words = PlainWords(left)
      ELSE Len(PlainWords(left)) > Capacity
  <2> HIDE DEF left
  <2> QED
    BY <1>2, <1>4, PlainTokens, CapacityAssumption
<1>6. r = IF tokens.status # "SH_OK" THEN Unchanged(t, at) ELSE Matched(m, prefix, t, at, limit)
  BY DEF Completed, CompletedAfter
<1>7. CASE tokens.status # "SH_OK"
  <2>1. ~r.replaced
    <3> HIDE DEF tokens
    <3> QED
      BY <1>6, <1>7 DEF Unchanged
  <2>2. Len(PlainWords(left)) > Capacity
    BY <1>5, <1>7
  <2> QED
    BY <2>1, <2>2
<1>8. CASE tokens.status = "SH_OK"
  <2>1. tokens.words \in Seq(Text) /\ before \in Seq(Text)
    <3>1. tokens.words \in Seq(Text)
      <4>1. left \in Seq(1..255) /\ Capacity \in Nat
        BY <1>2, CapacityAssumption DEF Text, CharCode
      <4> HIDE DEF left
      <4> QED
        BY <4>1, WordsAreText DEF Text, CharCode
    <3> HIDE DEF tokens, left, prefix, before
    <3>2. Before(Tokens(left, Capacity).words, prefix) \in Seq(Text)
      BY <1>2, WordsBefore
    <3> QED
      BY <1>3, <1>5, <1>8, <3>1, <3>2 DEF tokens
  <2>2. m = Matching(Candidates(Roots, Builtins, before), prefix)
    <3> HIDE DEF tokens, left, prefix, before
    <3> QED
      BY <1>3, <1>5, <1>8
  <2> HIDE DEF m, before, prefix
  <2>3. /\ m \in Seq(Text) /\ Distinct(m)
        /\ \A i \in 1..Len(m) : IsPrefix(prefix, m[i]) /\ NoSpace(m[i]) /\ m[i] # <<>>
        /\ ToSet(m) = {name \in follow : IsPrefix(prefix, name)}
    BY <1>3, <2>1, <2>2, MatchesAre
  <2>4. r = Matched(m, prefix, t, at, limit)
    BY <1>6, <1>8
  <2>5. Grows(r, ToSet(m), prefix, t, at, limit)
    BY ONLY <1>3, <2>3, <2>4, t \in Text, at \in 0..Len(t), limit \in Nat, MatchedAgrees
  <2> QED
    BY <2>3, <2>5 DEF before, prefix
<1> QED
  BY <1>7, <1>8

-----------------------------------------------------------------------------
\* What the dispatcher makes of words followed by any number of words that name
\* nothing.
Fillers(k) == [i \in 1..k |-> NoName]

\* The word that names nothing.
LEMMA NothingNamed ==
  /\ NoName \in Text /\ ~IsName(NoName) /\ NoName \notin HelpWords
  /\ Builtins => NoName \notin ReservedNames \cup {Word.on, Word.off, Word.status}
  /\ \A S : \A table \in Seq(S) : Named(table) => Child(table, NoName) = <<>>
<1>1. NoName \in Text /\ ~IsName(NoName)
  <2>1. NoName \in Text /\ NoName[1] = 32 /\ 1 \in DOMAIN NoName
    BY DEF NoName, Space, Text, CharCode
  <2> QED
    BY <2>1 DEF IsName
<1>2. NoName \notin HelpWords
  BY <1>1, HelpAssumption
<1>3. Builtins => NoName \notin ReservedNames \cup {Word.on, Word.off, Word.status}
  BY <1>1, WordAssumption
<1>4. ASSUME NEW S, NEW table \in Seq(S), Named(table) PROVE Child(table, NoName) = <<>>
  <2>1. \A cmd \in ToSet(table) : IsName(cmd.name)
    BY <1>4, LenProperties DEF Named, ToSet
  <2>2. \/ \E cmd \in ToSet(table) : cmd.name = NoName /\ Child(table, NoName) = <<cmd>>
        \/ /\ \A cmd \in ToSet(table) : cmd.name # NoName
           /\ Child(table, NoName) = <<>>
    BY <1>4, ChildNamed
  <2> QED
    BY <1>1, <2>1, <2>2
<1> QED
  BY <1>1, <1>2, <1>3, <1>4

\* The path of words: commands, no more than there are words.
LEMMA PathType ==
  ASSUME NEW words \in Seq(Text)
  PROVE  /\ ResolvedPath(Roots, words) \in Seq(Commands)
         /\ Len(ResolvedPath(Roots, words)) \in Nat
         /\ Len(ResolvedPath(Roots, words)) <= Len(words)
         /\ ResolvedPath(Roots, words) = <<>> <=> Len(ResolvedPath(Roots, words)) = 0
         /\ ResolvedPath(Roots, words) # <<>> => Last(ResolvedPath(Roots, words)) \in Commands
<1> DEFINE n == Len(words)
           path == ResolvedPath(Roots, words)
<1>1. n \in Nat
  BY LenProperties
<1>2. PICK p : /\ \A i \in 0..n : p[i] \in Seq(Commands) /\ Len(p[i]) <= i
               /\ p[n] = path
  BY <1>1, RootsAssumption, PathSteps
<1>3. path \in Seq(Commands) /\ Len(path) <= n
  <2> HIDE DEF path, n
  <2>1. n \in 0..n
    BY <1>1
  <2> QED
    BY <1>2, <2>1
<1> HIDE DEF path
<1>4. Len(path) \in Nat /\ (path = <<>> <=> Len(path) = 0)
  BY <1>3, LenProperties, EmptySeq
<1>5. path # <<>> => Last(path) \in Commands
  <2> SUFFICES ASSUME path # <<>> PROVE Last(path) \in Commands
    OBVIOUS
  <2>1. Len(path) \in 1..Len(path)
    BY <1>4
  <2> QED
    BY <1>3, <2>1, ElementOfSeq DEF Last
<1> QED
  BY <1>3, <1>4, <1>5 DEF path

\* Words followed by any that name nothing.
LEMMA Filled ==
  ASSUME NEW words \in Seq(Text), NEW k \in Nat
  PROVE  /\ words \o Fillers(k) \in Seq(Text)
         /\ Len(words \o Fillers(k)) = Len(words) + k
         /\ \A i \in 1..Len(words) : (words \o Fillers(k))[i] = words[i]
         /\ \A i \in 1..(Len(words) + k) : i > Len(words) => (words \o Fillers(k))[i] = NoName
<1> DEFINE f == Fillers(k)
<1>1. f \in Seq(Text) /\ Len(f) = k /\ \A i \in 1..k : f[i] = NoName
  <2>1. NoName \in Text
    BY NothingNamed
  <2> HIDE DEF Text, NoName
  <2> QED
    BY <2>1 DEF Fillers
<1> HIDE DEF f
<1>2. /\ words \o f \in Seq(Text) /\ Len(words \o f) = Len(words) + Len(f)
      /\ \A i \in 1..(Len(words) + Len(f)) :
           (words \o f)[i] = IF i <= Len(words) THEN words[i] ELSE f[i - Len(words)]
  BY <1>1, ConcatProperties
<1>3. Len(words) \in Nat
  BY LenProperties
<1>4. \A i \in 1..Len(words) : (words \o f)[i] = words[i]
  BY <1>1, <1>2, <1>3
<1>5. ASSUME NEW i \in 1..(Len(words) + k), i > Len(words)
      PROVE  (words \o f)[i] = NoName
  <2>1. i - Len(words) \in 1..k
    BY <1>3, <1>5
  <2> QED
    BY <1>1, <1>2, <1>3, <1>5, <2>1
<1> QED
  BY <1>1, <1>2, <1>4, <1>5 DEF f

LEMMA NothingAdded ==
  ASSUME NEW words \in Seq(Text)
  PROVE  ResolvedPath(Roots, Append(words, NoName)) = ResolvedPath(Roots, words)
<1> DEFINE path == ResolvedPath(Roots, words)
           table == IF words = <<>> THEN FlattenSeq(Roots) ELSE Last(path).sub
<1>1. /\ path \in Seq(Commands) /\ Len(path) \in Nat /\ Len(path) <= Len(words)
      /\ path = <<>> <=> Len(path) = 0
      /\ path # <<>> => Last(path) \in Commands
      /\ Len(words) \in Nat /\ (words = <<>> <=> Len(words) = 0)
  BY PathType, LenProperties, EmptySeq
<1>2. ResolvedPath(Roots, Append(words, NoName))
        = IF Len(path) < Len(words) THEN path ELSE path \o Child(table, NoName)
  BY NothingNamed, WordAppend
<1>3. ASSUME ~(Len(path) < Len(words)) PROVE Child(table, NoName) = <<>>
  <2>1. table \in Seq(Commands) /\ Named(table)
    <3>1. CASE words = <<>>
      BY <3>1, RootNames
    <3>2. CASE words # <<>>
      <4>1. Last(path) \in Commands
        <5> HIDE DEF path
        <5> QED
          BY <1>1, <1>3, <3>2
      <4> HIDE DEF path
      <4> QED
        BY <3>2, <4>1, SubtableNamed
    <3> QED
      BY <3>1, <3>2
  <2> HIDE DEF table
  <2> QED
    BY <2>1, NothingNamed
<1> HIDE DEF path, table
<1>4. path \o <<>> = path
  BY <1>1, ConcatEmptySeq
<1> QED
  BY <1>2, <1>3, <1>4 DEF path

\* Words that name nothing leave the path as it is.
LEMMA FilledPath ==
  ASSUME NEW words \in Seq(Text), NEW k \in Nat
  PROVE  ResolvedPath(Roots, words \o Fillers(k)) = ResolvedPath(Roots, words)
<1> DEFINE T == {i \in Nat :
                   ResolvedPath(Roots, words \o Fillers(i)) = ResolvedPath(Roots, words)}
<1>1. 0 \in T
  <2>1. Fillers(0) = <<>>
    BY DEF Fillers
  <2>2. words \o <<>> = words
    BY ConcatEmptySeq
  <2> QED
    BY <2>1, <2>2
<1>2. ASSUME NEW i \in T PROVE i + 1 \in T
  <2> DEFINE f == Fillers(i)
  <2>1. i \in Nat /\ ResolvedPath(Roots, words \o f) = ResolvedPath(Roots, words)
    OBVIOUS
  <2>2. NoName \in Text
    BY NothingNamed
  <2>3. f \in Seq(Text) /\ Fillers(i + 1) = Append(f, NoName)
    <3> HIDE DEF T, Text, NoName
    <3>1. f \in Seq(Text)
      BY <2>1, <2>2 DEF Fillers
    <3>2. Fillers(i + 1) = Append(f, NoName)
      BY <2>1, <2>2 DEF Fillers
    <3> QED
      BY <3>1, <3>2
  <2> HIDE DEF f, T
  <2>4. words \o Fillers(i + 1) = Append(words \o f, NoName) /\ words \o f \in Seq(Text)
    <3>1. words \o Append(f, NoName) = Append(words \o f, NoName)
      BY <2>2, <2>3, ConcatAppend
    <3> QED
      BY <2>3, <3>1, ConcatProperties
  <2>5. ResolvedPath(Roots, words \o Fillers(i + 1)) = ResolvedPath(Roots, words)
    BY <2>1, <2>4, NothingAdded
  <2> QED
    BY <2>1, <2>5 DEF T
<1>3. T = Nat
  <2>1. T \in SUBSET Nat
    OBVIOUS
  <2> HIDE DEF T
  <2> QED
    BY <1>1, <1>2, <2>1, InductionOnNat
<1> QED
  BY <1>3

\* A command with a handler takes at least its own name, and the most it takes is no less
\* than the least.
LEMMA HandlerLimits ==
  ASSUME NEW cmd \in Commands
  PROVE  cmd.handler =>
           cmd.min \in Nat /\ cmd.max \in Nat /\ 1 <= cmd.min /\ cmd.min <= cmd.max
<1>1. PICK i \in DOMAIN Roots, d \in 1..MaxDepth :
        \E table \in TablesAt(Roots[i])[d] : cmd \in ToSet(table)
  BY InTable
<1>2. PICK table \in TablesAt(Roots[i])[d] : cmd \in ToSet(table)
  BY <1>1
<1> DEFINE root == Roots[i]
<1>3. root \in Seq(Commands) /\ IsTree(root, Builtins)
  <2>1. i \in 1..Len(Roots) /\ Roots \in Seq(Seq(Commands)) /\ AcceptsSets(Roots, Builtins)
    BY RootsAssumption, LenProperties
  <2> QED
    BY <2>1, ElementOfSeq DEF AcceptsSets
<1>4. \A c \in Commands : c.sub \in Seq(Commands)
  BY RootsAssumption
<1>5. table \in TablesAt(root)[d]
  BY <1>2
<1> HIDE DEF root
<1>6. \E reserved : IsTable(table, reserved)
  <2>1. CASE d = 1
    <3>1. TablesAt(root)[1] = {root}
      BY ONLY <1>3, <1>4, TreeLevels
    <3>2. table = root
      BY <1>5, <2>1, <3>1
    <3> QED
      BY <1>3, <3>2 DEF IsTree
  <2>2. CASE d # 1
    <3>1. d \in 2..MaxDepth
      BY <2>2, MaxDepthAssumption
    <3> QED
      BY <1>3, <1>5, <3>1 DEF IsTree
  <2> QED
    BY <2>1, <2>2
<1>7. PICK j \in DOMAIN table : cmd = table[j]
  BY <1>2 DEF ToSet
<1>8. cmd.handler => cmd.min >= 1 /\ cmd.min <= cmd.max
  BY <1>6, <1>7 DEF IsTable
<1> QED
  BY <1>8, RootsAssumption

\* The dispatch of words to an application command, with k words that name nothing
\* after them: a help word where the path ends, a parent with nothing after it, or a
\* leaf with as many arguments as it takes.
LEMMA ApplicationAccepts ==
  ASSUME LeavesRun, NEW words \in Seq(Text), NEW k \in Nat
  PROVE  LET path == ResolvedPath(Roots, words)
             n == Len(words)
             c == Len(path)
             cmd == Last(path)
         IN Application(Roots, words \o Fillers(k)).status = "SH_OK"
              <=> /\ path # <<>>
                  /\ \/ c < n /\ words[c + 1] \in HelpWords
                     \/ IsParent(cmd) /\ c = n + k
                     \/ ~IsParent(cmd) /\ cmd.min <= n + k - c + 1 /\ n + k - c + 1 <= cmd.max
<1> DEFINE path == ResolvedPath(Roots, words)
           n == Len(words)
           c == Len(path)
           cmd == Last(path)
           more == words \o Fillers(k)
           m == Len(more)
           args == m - c + 1
           asked == c < n /\ words[c + 1] \in HelpWords
           run == Application(Roots, more).status
<1>1. /\ n \in Nat /\ c \in Nat /\ c <= n /\ (path = <<>> <=> c = 0)
      /\ path # <<>> => cmd \in Commands
  BY PathType, LenProperties
<1>2. /\ m = n + k /\ \A i \in 1..n : more[i] = words[i]
      /\ \A i \in 1..m : i > n => more[i] = NoName
      /\ ResolvedPath(Roots, more) = path
  BY Filled, FilledPath
<1>3. c < m /\ more[c + 1] \in HelpWords <=> asked
  <2>1. CASE c < n
    <3>1. c + 1 \in 1..n /\ c < m
      BY <1>1, <1>2, <2>1
    <3> QED
      BY <1>2, <2>1, <3>1
  <2>2. CASE ~(c < n)
    <3>1. c < m => c + 1 \in 1..m /\ c + 1 > n
      BY <1>1, <1>2, <2>2
    <3>2. NoName \notin HelpWords
      BY NothingNamed
    <3> QED
      BY <1>2, <2>2, <3>1, <3>2
  <2> QED
    BY <2>1, <2>2
<1>4. Application(Roots, more)
        = IF path = <<>> THEN Refuse("SH_ERR_UNKNOWN_COMMAND")
          ELSE IF c < m /\ more[c + 1] \in HelpWords THEN Refuse("SH_OK")
          ELSE IF IsParent(cmd)
          THEN Refuse(IF c < m THEN "SH_ERR_UNKNOWN_COMMAND" ELSE "SH_OK")
          ELSE IF ~cmd.handler THEN Refuse("SH_ERR_INCOMPLETE_COMMAND")
          ELSE IF args < cmd.min \/ args > cmd.max THEN Refuse("SH_ERR_INVALID_ARG")
          ELSE Run(path)
  <2> HIDE DEF path, more
  <2>1. ResolvedPath(Roots, more) = path
    BY <1>2
  <2> QED
    BY <2>1 DEF Application
<1>5. ASSUME path # <<>>, ~IsParent(cmd)
      PROVE  cmd.handler /\ cmd.min \in Nat /\ cmd.max \in Nat
  <2> HIDE DEF path, cmd
  <2>1. cmd \in Commands
    BY <1>1, <1>5
  <2> QED
    BY <1>5, <2>1, HandlerLimits DEF LeavesRun
<1>6. /\ \A s : Refuse(s).status = s
      /\ Run(path).status = "SH_OK"
  BY DEF Refuse, Run
<1> HIDE DEF path, n, c, cmd, more, m, asked
<1>7. CASE path = <<>>
  <2>1. run = "SH_ERR_UNKNOWN_COMMAND"
    BY <1>4, <1>6, <1>7
  <2> QED
    BY <1>7, <2>1 DEF path, more
<1>8. CASE path # <<>> /\ asked
  <2>1. run = "SH_OK"
    BY <1>3, <1>4, <1>6, <1>8
  <2> QED
    BY <1>8, <2>1 DEF path, asked, more, c, n
<1>9. CASE path # <<>> /\ ~asked /\ IsParent(cmd)
  <2>1. run = IF c < m THEN "SH_ERR_UNKNOWN_COMMAND" ELSE "SH_OK"
    BY <1>3, <1>4, <1>6, <1>9
  <2>2. run = "SH_OK" <=> c = n + k
    BY <1>1, <1>2, <2>1
  <2> QED
    BY <1>9, <2>2 DEF path, asked, more, c, n, cmd
<1>10. CASE path # <<>> /\ ~asked /\ ~IsParent(cmd)
  <2>1. cmd.handler /\ cmd.min \in Nat /\ cmd.max \in Nat
    BY <1>5, <1>10
  <2>2. run = IF args < cmd.min \/ args > cmd.max THEN "SH_ERR_INVALID_ARG" ELSE "SH_OK"
    BY <1>3, <1>4, <1>6, <1>10, <2>1
  <2>3. args = n + k - c + 1 /\ args \in Int
    BY <1>1, <1>2
  <2>4. run = "SH_OK" <=> cmd.min <= n + k - c + 1 /\ n + k - c + 1 <= cmd.max
    <3> HIDE DEF args, run
    <3>1. (args < cmd.min \/ args > cmd.max) <=> ~(cmd.min <= args /\ args <= cmd.max)
      BY <2>1, <2>3
    <3> QED
      BY <2>2, <2>3, <3>1
  <2> QED
    BY <1>10, <2>4 DEF path, asked, more, c, n, cmd
<1> QED
  BY <1>7, <1>8, <1>9, <1>10

\* So these words are taken, as they are or with more arguments.
LEMMA ApplicationTakes ==
  ASSUME LeavesRun, NEW words \in Seq(Text), words # <<>>,
         ~(Builtins /\ words[1] \in ReservedNames)
  PROVE  LET path == ResolvedPath(Roots, words)
             n == Len(words)
             c == Len(path)
             cmd == Last(path)
         IN Takes(words)
              <=> /\ path # <<>>
                  /\ \/ c < n /\ words[c + 1] \in HelpWords
                     \/ IsParent(cmd) /\ c = n
                     \/ ~IsParent(cmd) /\ n - c + 1 <= cmd.max
<1> DEFINE path == ResolvedPath(Roots, words)
           n == Len(words)
           c == Len(path)
           cmd == Last(path)
           missing == IF path = <<>> THEN 0 ELSE cmd.min
           asked == c < n /\ words[c + 1] \in HelpWords
           OK(k) == Application(Roots, words \o Fillers(k)).status = "SH_OK"
<1>1. /\ n \in Nat /\ n # 0 /\ c \in Nat /\ c <= n /\ (path = <<>> <=> c = 0)
      /\ path # <<>> => cmd \in Commands
  BY PathType, LenProperties, EmptySeq
<1>2. ASSUME NEW k \in Nat
      PROVE  Dispatch(Roots, Builtins, words \o Fillers(k)) = Application(Roots, words \o Fillers(k))
  <2> DEFINE more == words \o Fillers(k)
  <2>1. more \in Seq(Text) /\ Len(more) = n + k /\ \A i \in 1..n : more[i] = words[i]
    BY Filled
  <2> HIDE DEF more
  <2>2. more # <<>> /\ more[1] = words[1]
    <3>1. 1 \in 1..n /\ n + k # 0
      BY <1>1
    <3> QED
      BY <2>1, <3>1, EmptySeq
  <2>3. ~(Builtins /\ more[1] \in {Word.clear, Word.echo, Word.help, Word.history})
    BY <2>2 DEF ReservedNames
  <2>4. Dispatch(Roots, Builtins, more) = Application(Roots, more)
    BY <2>2, <2>3 DEF Dispatch
  <2> QED
    BY <2>4 DEF more
<1>3. missing \in Nat
  <2> HIDE DEF path, cmd
  <2>1. path # <<>> => cmd.min \in Nat
    BY <1>1, RootsAssumption
  <2> QED
    BY <2>1
<1>4. Takes(words) <=> \E k \in 0..missing : OK(k)
  <2>1. Takes(words) <=> \E k \in 0..missing :
          Dispatch(Roots, Builtins, words \o Fillers(k)).status = "SH_OK"
    BY DEF Takes, Fillers
  <2> HIDE DEF missing
  <2>2. \A k \in 0..missing : k \in Nat
    BY <1>3
  <2> QED
    BY <1>2, <2>1, <2>2
<1>5. ASSUME NEW k \in Nat
      PROVE  OK(k) <=> /\ path # <<>>
                       /\ \/ asked
                          \/ IsParent(cmd) /\ c = n + k
                          \/ /\ ~IsParent(cmd)
                             /\ cmd.min <= n + k - c + 1 /\ n + k - c + 1 <= cmd.max
  BY ApplicationAccepts
<1>6. path # <<>> /\ ~IsParent(cmd) =>
        cmd.min \in Nat /\ cmd.max \in Nat /\ 1 <= cmd.min /\ cmd.min <= cmd.max
  <2> HIDE DEF path, cmd
  <2> QED
    BY <1>1, HandlerLimits DEF LeavesRun
<1>7. missing = IF path = <<>> THEN 0 ELSE cmd.min
  OBVIOUS
<1> DEFINE goal == /\ path # <<>>
                   /\ \/ asked
                      \/ IsParent(cmd) /\ c = n
                      \/ ~IsParent(cmd) /\ n - c + 1 <= cmd.max
<1>8. (\E k \in 0..missing : OK(k)) <=> goal
  <2> HIDE DEF path, n, c, cmd, missing, asked, OK
  <2>1. CASE path = <<>>
    <3>1. \A k \in 0..missing : ~OK(k)
      BY <1>3, <1>5, <2>1
    <3> QED
      BY <2>1, <3>1
  <2>2. CASE path # <<>> /\ asked
    <3>1. 0 \in 0..missing /\ OK(0)
      BY <1>3, <1>5, <2>2
    <3> QED
      BY <2>2, <3>1
  <2>3. CASE path # <<>> /\ ~asked /\ IsParent(cmd)
    <3>1. \A k \in Nat : OK(k) <=> c = n + k
      BY <1>5, <2>3
    <3>2. 0 \in 0..missing /\ \A k \in 0..missing : k \in Nat
      BY <1>3
    <3>3. \A k \in Nat : c = n + k => c = n
      BY <1>1
    <3>4. c = n => c = n + 0
      BY <1>1
    <3> QED
      BY <2>3, <3>1, <3>2, <3>3, <3>4
  <2>4. CASE path # <<>> /\ ~asked /\ ~IsParent(cmd)
    <3>1. \A k \in Nat : OK(k) <=> cmd.min <= n + k - c + 1 /\ n + k - c + 1 <= cmd.max
      BY <1>5, <2>4
    <3> DEFINE least == cmd.min
               most == cmd.max
               args == n - c + 1
    <3>2. /\ least \in Nat /\ most \in Nat /\ 1 <= least /\ least <= most
          /\ missing = least /\ args \in Nat \ {0}
      BY <1>1, <1>6, <1>7, <2>4
    <3>3. \A k \in Nat : OK(k) <=> least <= args + k /\ args + k <= most
      <4>1. \A k \in Nat : n + k - c + 1 = args + k
        BY <1>1
      <4> QED
        BY <3>1, <4>1
    <3> HIDE DEF least, most, args
    <3>4. ASSUME args <= most PROVE \E k \in 0..missing : OK(k)
      <4> DEFINE j == IF args >= least THEN 0 ELSE least - args
      <4>1. j \in 0..missing /\ j \in Nat /\ least <= args + j /\ args + j <= most
        BY <3>2, <3>4
      <4> HIDE DEF j
      <4> QED
        BY <3>3, <4>1
    <3>5. ASSUME NEW k \in 0..missing, OK(k) PROVE args <= most
      <4>1. k \in Nat /\ args + k <= most
        BY <3>2, <3>3, <3>5
      <4> QED
        BY <3>2, <4>1
    <3> QED
      BY <2>4, <3>4, <3>5 DEF args, most
  <2> QED
    BY <2>1, <2>2, <2>3, <2>4
<1> QED
  BY <1>4, <1>8

-----------------------------------------------------------------------------
\* What may follow, word for word.

LEMMA NamesAreText ==
  /\ \A name \in AllNames : name \in Text
  /\ \A cmd \in Commands : cmd.name \in AllNames
  /\ Builtins => ReservedNames \cup {Word.on, Word.off, Word.status} \subseteq AllNames
<1>1. String = Text
  BY DEF String, Text, CharCode
<1>2. \A cmd \in Commands : cmd.name \in Text
  BY <1>1, RootsAssumption
<1>3. Builtins => \A name \in ReservedNames \cup {Word.on, Word.off, Word.status} : name \in Text
  BY <1>1, WordAssumption
<1> QED
  BY <1>2, <1>3 DEF AllNames

\* What a word names in a table, and whether the table shows it.
LEMMA ShownChild ==
  ASSUME NEW table \in Seq(Commands), Named(table), NEW word
  PROVE  \/ \E cmd \in Commands :
              /\ Child(table, word) = <<cmd>> /\ cmd.name = word
              /\ word \in ToSet(Visible(table)) <=> ~Flag(cmd, "HIDDEN")
         \/ Child(table, word) = <<>> /\ word \notin ToSet(Visible(table))
<1>1. ToSet(Visible(table)) = {cmd.name : cmd \in {c \in ToSet(table) : ~Flag(c, "HIDDEN")}}
  BY VisibleTellable
<1>2. \A c, d \in ToSet(table) : c.name = d.name => c = d
  BY LenProperties DEF Named, ToSet
<1>3. ToSet(table) \subseteq Commands
  BY ElementOfSeq, LenProperties DEF ToSet
<1>4. \/ \E cmd \in ToSet(table) : cmd.name = word /\ Child(table, word) = <<cmd>>
      \/ (\A cmd \in ToSet(table) : cmd.name # word) /\ Child(table, word) = <<>>
  BY ChildNamed
<1>5. CASE \E cmd \in ToSet(table) : cmd.name = word /\ Child(table, word) = <<cmd>>
  <2>1. PICK cmd \in ToSet(table) : cmd.name = word /\ Child(table, word) = <<cmd>>
    BY <1>5
  <2>2. word \in ToSet(Visible(table)) <=> ~Flag(cmd, "HIDDEN")
    BY <1>1, <1>2, <2>1
  <2> QED
    BY <1>3, <2>1, <2>2
<1>6. CASE (\A cmd \in ToSet(table) : cmd.name # word) /\ Child(table, word) = <<>>
  BY <1>1, <1>6
<1> QED
  BY <1>4, <1>5, <1>6

\* All words so far are a path, and the next word is looked up in this table.
Stands(words, table) ==
  LET path == ResolvedPath(Roots, words)
  IN /\ Len(path) = Len(words)
     /\ words = <<>> \/ IsParent(Last(path))
     /\ table = IF words = <<>> THEN FlattenSeq(Roots) ELSE Last(path).sub

\* One more word where all words so far are a path: it is taken without asking for
\* help, and not hidden, just when the table there shows it.
LEMMA NextWord ==
  ASSUME LeavesRun, NEW words \in Seq(Text), NEW word \in Text,
         NEW more, more = Append(words, word),
         ~(Builtins /\ more[1] \in ReservedNames),
         NEW table, Stands(words, table)
  PROVE  /\ Takes(more) /\ ~AsksHelp(more) /\ ~IsHidden(more)
              <=> word \in ToSet(Visible(table))
         /\ word \in ToSet(Visible(table)) =>
              word \in AllNames /\ Len(ResolvedPath(Roots, more)) = Len(words) + 1
         /\ word = NoName => ~Takes(more)
<1> DEFINE path == ResolvedPath(Roots, words)
           next == ResolvedPath(Roots, more)
           n == Len(words)
<1>1. /\ Len(path) = n /\ (words = <<>> \/ IsParent(Last(path)))
      /\ table = IF words = <<>> THEN FlattenSeq(Roots) ELSE Last(path).sub
  BY DEF Stands
<1>2. /\ path \in Seq(Commands) /\ n \in Nat /\ (words = <<>> <=> n = 0)
      /\ path = <<>> <=> n = 0
      /\ path # <<>> => Last(path) \in Commands
  BY <1>1, PathType, LenProperties, EmptySeq
<1>3. /\ more \in Seq(Text) /\ Len(more) = n + 1 /\ more[n + 1] = word /\ more # <<>>
  <2>1. /\ Len(Append(words, word)) = n + 1 /\ Append(words, word)[n + 1] = word
        /\ Append(words, word) \in Seq(Text)
    BY AppendProperties
  <2>2. n + 1 # 0
    BY <1>2
  <2> QED
    BY <2>1, <2>2, EmptySeq
<1>4. next = path \o Child(table, word)
  <2>1. ~(Len(path) < n)
    BY <1>1, <1>2
  <2> QED
    BY <1>1, <2>1, WordAppend
<1>5. table \in Seq(Commands) /\ Named(table)
  <2>1. CASE words = <<>>
    BY <1>1, <2>1, RootNames
  <2>2. CASE words # <<>>
    <3>1. Last(path) \in Commands
      BY <1>2, <2>2
    <3> QED
      BY <1>1, <2>2, <3>1, SubtableNamed
  <2> QED
    BY <2>1, <2>2
<1>6. Takes(more)
        <=> /\ next # <<>>
            /\ \/ Len(next) < Len(more) /\ more[Len(next) + 1] \in HelpWords
               \/ IsParent(Last(next)) /\ Len(next) = Len(more)
               \/ ~IsParent(Last(next)) /\ Len(more) - Len(next) + 1 <= Last(next).max
  BY <1>3, ApplicationTakes
<1>7. AsksHelp(more)
        <=> next # <<>> /\ Len(next) < Len(more) /\ more[Len(next) + 1] \in HelpWords
  <2>1. ~(Builtins /\ more[1] = Word.help)
    BY DEF ReservedNames
  <2> QED
    BY <2>1 DEF AsksHelp
<1>8. IsHidden(more)
        <=> next # <<>> /\ Len(next) = Len(more) /\ Flag(Last(next), "HIDDEN")
  BY DEF IsHidden
<1>9. words # <<>> => IsParent(Last(path))
  BY <1>1
<1> HIDE DEF path, next
<1>10. CASE \E cmd \in Commands :
             /\ Child(table, word) = <<cmd>> /\ cmd.name = word
             /\ word \in ToSet(Visible(table)) <=> ~Flag(cmd, "HIDDEN")
  <2>1. PICK cmd \in Commands :
               /\ Child(table, word) = <<cmd>> /\ cmd.name = word
               /\ word \in ToSet(Visible(table)) <=> ~Flag(cmd, "HIDDEN")
    BY <1>10
  <2>2. Len(next) = n + 1 /\ Last(next) = cmd /\ next # <<>>
    <3>1. next = path \o <<cmd>> /\ Len(path) = n
      BY <1>1, <1>4, <2>1
    <3> QED
      BY <1>2, <3>1, OneLonger
  <2>3. IsParent(cmd) \/ 1 <= cmd.max
    <3>1. cmd.handler => cmd.min \in Nat /\ cmd.max \in Nat /\ 1 <= cmd.min /\ cmd.min <= cmd.max
      BY HandlerLimits
    <3> QED
      BY <3>1 DEF LeavesRun
  <2>4. Takes(more)
    <3>1. Len(more) - Len(next) + 1 = 1
      BY <1>2, <1>3, <2>2
    <3> QED
      BY <1>3, <1>6, <2>2, <2>3, <3>1
  <2>5. ~AsksHelp(more)
    BY <1>2, <1>3, <1>7, <2>2
  <2>6. IsHidden(more) <=> Flag(cmd, "HIDDEN")
    BY <1>3, <1>8, <2>2
  <2>7. word \in AllNames /\ word # NoName
    <3>1. Child(table, NoName) = <<>>
      BY <1>5, NothingNamed
    <3>2. <<cmd>> # <<>>
      OBVIOUS
    <3> QED
      BY <2>1, <3>1, <3>2, NamesAreText
  <2> QED
    BY <2>1, <2>2, <2>4, <2>5, <2>6, <2>7 DEF next
<1>11. CASE Child(table, word) = <<>> /\ word \notin ToSet(Visible(table))
  <2>1. next = path
    BY <1>2, <1>4, <1>11, ConcatEmptySeq
  <2>2. Len(next) = n /\ ~(Len(next) = n + 1)
    BY <1>1, <1>2, <2>1
  <2>3. Takes(more) <=> next # <<>> /\ word \in HelpWords
    <3>1. next # <<>> => IsParent(Last(next))
      BY <1>2, <1>9, <2>1
    <3>2. Len(next) < Len(more) /\ more[Len(next) + 1] = word
      BY <1>2, <1>3, <2>2
    <3> QED
      BY <1>3, <1>6, <2>2, <3>1, <3>2
  <2>4. AsksHelp(more) <=> next # <<>> /\ word \in HelpWords
    BY <1>2, <1>3, <1>7, <2>2
  <2>5. NoName \notin HelpWords
    BY NothingNamed
  <2> QED
    BY <1>11, <2>3, <2>4, <2>5
<1> QED
  BY <1>5, <1>10, <1>11, ShownChild

\* No built-in is a command with a path.
LEMMA OwnPath ==
  ASSUME Builtins, NEW words \in Seq(Text), words # <<>>, words[1] \in ReservedNames
  PROVE  ResolvedPath(Roots, words) = <<>>
<1> DEFINE n == Len(words)
           tables == FlattenSeq(Roots)
<1>1. n \in Nat /\ n # 0
  BY LenProperties, EmptySeq
<1>2. PICK p : /\ p[0] = <<>>
               /\ \A i \in 0..n : p[i] \in Seq(Commands) /\ Len(p[i]) <= i
               /\ PathsOf(p, Roots, words, n)
               /\ p[n] = ResolvedPath(Roots, words)
  BY <1>1, RootsAssumption, PathSteps
<1>3. \A i \in 1..n :
        p[i] = IF Len(p[i - 1]) < i - 1 THEN p[i - 1]
               ELSE p[i - 1] \o Child(IF i = 1 THEN tables ELSE Last(p[i - 1]).sub, words[i])
  BY <1>2 DEF PathsOf
<1>4. Child(tables, words[1]) = <<>>
  BY FirstWord
<1> HIDE DEF n, tables
<1> DEFINE T == {i \in Nat : i \in 0..n => p[i] = <<>>}
<1>5. 0 \in T
  BY <1>2
<1>6. ASSUME NEW i \in T PROVE i + 1 \in T
  <2> SUFFICES ASSUME i + 1 \in 0..n PROVE p[i + 1] = <<>>
    OBVIOUS
  <2>1. i \in Nat /\ (i \in 0..n => p[i] = <<>>)
    OBVIOUS
  <2> HIDE DEF T
  <2> DEFINE j == i + 1
  <2>2. j \in 1..n /\ j - 1 = i /\ p[i] = <<>> /\ Len(p[i]) = 0
    BY <1>1, <2>1
  <2>3. p[j] = IF 0 < i THEN <<>>
               ELSE p[j - 1] \o Child(IF j = 1 THEN tables ELSE Last(p[j - 1]).sub, words[j])
    BY <1>3, <2>1, <2>2
  <2>4. CASE 0 < i
    BY <2>3, <2>4
  <2>5. CASE ~(0 < i)
    <3>1. j = 1
      BY <2>1, <2>5
    <3>2. p[j] = <<>> \o Child(tables, words[1])
      BY <2>2, <2>3, <2>5, <3>1
    <3> HIDE DEF j
    <3> QED
      BY <1>4, <3>2 DEF j
  <2> QED
    BY <2>4, <2>5
<1>7. T = Nat
  <2>1. T \in SUBSET Nat
    OBVIOUS
  <2> HIDE DEF T
  <2> QED
    BY <1>5, <1>6, <2>1, InductionOnNat
<1>8. p[n] = <<>>
  BY <1>1, <1>7
<1> QED
  BY <1>2, <1>8 DEF n

\* They are taken as they are or not at all, and hide nothing.
LEMMA OwnTakes ==
  ASSUME Builtins, NEW words \in Seq(Text), words # <<>>, words[1] \in ReservedNames
  PROVE  /\ Takes(words) <=> Dispatch(Roots, Builtins, words).status = "SH_OK"
         /\ AsksHelp(words) <=> Len(words) > 1 /\ words[1] = Word.help
         /\ ~IsHidden(words) /\ Offers(words) = {}
<1> DEFINE path == ResolvedPath(Roots, words)
<1>1. path = <<>>
  BY OwnPath
<1>2. Takes(words) <=> \E k \in 0..0 :
        Dispatch(Roots, Builtins, words \o [i \in 1..k |-> NoName]).status = "SH_OK"
  BY <1>1 DEF Takes
<1>3. words \o [i \in 1..0 |-> NoName] = words
  <2>1. [i \in 1..0 |-> NoName] = <<>>
    OBVIOUS
  <2> QED
    BY <2>1, ConcatEmptySeq
<1>4. 0..0 = {0}
  OBVIOUS
<1>5. Takes(words) <=> Dispatch(Roots, Builtins, words).status = "SH_OK"
  BY <1>2, <1>3, <1>4
<1> QED
  BY <1>1, <1>5 DEF AsksHelp, IsHidden, Offers

\* At the beginning of a line.
LEMMA FirstFollows ==
  ASSUME LeavesRun
  PROVE  MayFollow(<<>>) = Follow(<<>>)
<1> DEFINE roots == FlattenSeq(Roots)
           More(w) == Append(<<>>, w)
<1>1. <<>> \in Seq(Text) /\ Len(<<>>) = 0
  OBVIOUS
<1>2. ResolvedPath(Roots, <<>>) = <<>>
  <2>1. /\ Len(ResolvedPath(Roots, <<>>)) \in Nat
        /\ Len(ResolvedPath(Roots, <<>>)) <= Len(<<>>)
        /\ ResolvedPath(Roots, <<>>) = <<>> <=> Len(ResolvedPath(Roots, <<>>)) = 0
    BY <1>1, PathType
  <2> QED
    BY <1>1, <2>1
<1>3. ASSUME NEW w \in Text
      PROVE  More(w) \in Seq(Text) /\ Len(More(w)) = 1 /\ More(w)[1] = w /\ More(w) # <<>>
             /\ Tail(More(w)) = <<>>
  BY <1>1
<1>4. ASSUME NEW w \in Text, ~(Builtins /\ w \in ReservedNames)
      PROVE  /\ Takes(More(w)) /\ ~AsksHelp(More(w)) /\ ~IsHidden(More(w))
                  <=> w \in ToSet(Visible(roots))
             /\ w \in ToSet(Visible(roots)) => w \in AllNames
             /\ w = NoName => ~Takes(More(w))
  <2> DEFINE more == More(w)
  <2>1. ~(Builtins /\ more[1] \in ReservedNames) /\ more = Append(<<>>, w)
    BY <1>3, <1>4
  <2>2. Stands(<<>>, roots)
    BY <1>2 DEF Stands
  <2> HIDE DEF more, roots
  <2>3. /\ Takes(more) /\ ~AsksHelp(more) /\ ~IsHidden(more) <=> w \in ToSet(Visible(roots))
        /\ w \in ToSet(Visible(roots)) => w \in AllNames
        /\ w = NoName => ~Takes(more)
    BY <1>1, <2>1, <2>2, NextWord
  <2> QED
    BY <2>3 DEF more
<1>5. ASSUME Builtins, NEW w \in ReservedNames
      PROVE  Takes(More(w)) /\ ~AsksHelp(More(w)) /\ ~IsHidden(More(w))
  <2> DEFINE more == More(w)
  <2>1. w \in Text
    BY <1>5, NamesAreText
  <2>2. more \in Seq(Text) /\ Len(more) = 1 /\ more[1] = w /\ more # <<>> /\ Tail(more) = <<>>
    BY <1>3, <2>1
  <2> HIDE DEF more
  <2>3. Dispatch(Roots, Builtins, more).status = "SH_OK"
    <3>1. \A s : Refuse(s).status = s
      BY DEF Refuse
    <3>2. CASE w = Word.clear
      BY <1>5, <2>2, <3>1, <3>2 DEF Dispatch
    <3>3. CASE w # Word.clear /\ w = Word.help
      <4>1. Dispatch(Roots, Builtins, more) = HelpTopic(Roots, more)
        BY <1>5, <2>2, <3>3 DEF Dispatch
      <4>2. Len(ResolvedPath(Roots, Tail(more))) = Len(more) - 1
        <5>1. ResolvedPath(Roots, Tail(more)) = <<>>
          BY <1>2, <2>2
        <5>2. Len(more) - 1 = 0
          BY <2>2
        <5> QED
          BY <1>1, <5>1, <5>2
      <4> QED
        BY <3>1, <4>1, <4>2 DEF HelpTopic
    <3>4. CASE w # Word.clear /\ w # Word.help
      <4>1. w \in {Word.history, Word.echo}
        BY <3>4 DEF ReservedNames
      <4>2. Dispatch(Roots, Builtins, more) = Builtin(more)
        BY <1>5, <2>2, <3>4, <4>1 DEF Dispatch
      <4>3. Builtin(more) = Refuse("SH_OK")
        BY <2>2 DEF Builtin
      <4> QED
        BY <3>1, <4>2, <4>3
    <3> QED
      BY <3>2, <3>3, <3>4
  <2>4. Takes(more) /\ ~AsksHelp(more) /\ ~IsHidden(more)
    <3>1. /\ Takes(more) <=> Dispatch(Roots, Builtins, more).status = "SH_OK"
          /\ AsksHelp(more) <=> Len(more) > 1 /\ more[1] = Word.help
          /\ ~IsHidden(more)
      BY <1>5, <2>2, OwnTakes
    <3> QED
      BY <2>2, <2>3, <3>1
  <2> QED
    BY <2>4 DEF more
<1>6. ~Takes(More(NoName))
  <2>1. NoName \in Text /\ ~(Builtins /\ NoName \in ReservedNames)
    BY NothingNamed
  <2> QED
    BY <1>4, <2>1
<1>7. MayFollow(<<>>)
        = {w \in AllNames : Takes(More(w)) /\ ~AsksHelp(More(w)) /\ ~IsHidden(More(w))}
  BY <1>6 DEF MayFollow
<1>8. Follow(<<>>) = ToSet(Visible(roots)) \cup (IF Builtins THEN ReservedNames ELSE {})
  BY DEF Follow
<1> HIDE DEF roots, More
<1>9. ASSUME NEW w \in AllNames
      PROVE  w \in MayFollow(<<>>) <=> w \in Follow(<<>>)
  <2>1. w \in Text
    BY NamesAreText
  <2>2. CASE Builtins /\ w \in ReservedNames
    BY <1>5, <1>7, <1>8, <2>2
  <2>3. CASE ~(Builtins /\ w \in ReservedNames)
    BY <1>4, <1>7, <1>8, <2>1, <2>3
  <2> QED
    BY <2>2, <2>3
<1>10. MayFollow(<<>>) \subseteq AllNames
  BY <1>7
<1>11. Follow(<<>>) \subseteq AllNames
  <2>1. ASSUME NEW w \in ToSet(Visible(roots)) PROVE w \in AllNames
    <3>1. roots \in Seq(Commands) /\ Named(roots)
      BY RootNames DEF roots
    <3>2. \E cmd \in Commands : cmd.name = w
      BY <2>1, <3>1, ShownChild
    <3> QED
      BY <3>2, NamesAreText
  <2> QED
    BY <1>8, <2>1, NamesAreText
<1> QED
  BY <1>9, <1>10, <1>11

\* After a built-in: keywords after history and echo, and nothing after help, whose
\* topics are questions for help, and clear, which takes any word.
LEMMA OwnFollows ==
  ASSUME Builtins, NEW words \in Seq(Text), words # <<>>, words[1] \in ReservedNames
  PROVE  MayFollow(words) = Follow(words)
<1> DEFINE n == Len(words)
           word == words[1]
           More(w) == Append(words, w)
<1>1. n \in Nat /\ n # 0
  BY LenProperties, EmptySeq
<1>2. /\ Word.clear \notin {Word.help, Word.history, Word.echo}
      /\ Word.help \notin {Word.history, Word.echo}
      /\ \A w \in ReservedNames \cup {Word.on, Word.off, Word.status} : IsName(w)
  BY WordAssumption
<1>3. ASSUME NEW w \in Text
      PROVE  /\ More(w) \in Seq(Text) /\ Len(More(w)) = n + 1 /\ More(w)[1] = word
             /\ More(w) # <<>>
  <2> DEFINE more == More(w)
  <2>1. more \in Seq(Text) /\ Len(more) = n + 1 /\ \A i \in 1..n : more[i] = words[i]
    BY AppendProperties
  <2> HIDE DEF more
  <2>2. 1 \in 1..n /\ n + 1 # 0
    BY <1>1
  <2>3. more[1] = word /\ more # <<>>
    BY <2>1, <2>2, EmptySeq
  <2> QED
    BY <2>1, <2>3 DEF more
<1>4. ASSUME NEW w \in Text
      PROVE  /\ Takes(More(w)) <=> Dispatch(Roots, Builtins, More(w)).status = "SH_OK"
             /\ AsksHelp(More(w)) <=> word = Word.help
             /\ ~IsHidden(More(w))
  <2> DEFINE more == More(w)
  <2>1. more \in Seq(Text) /\ Len(more) = n + 1 /\ more[1] = word /\ more # <<>>
    BY <1>3
  <2> HIDE DEF more
  <2>2. /\ Takes(more) <=> Dispatch(Roots, Builtins, more).status = "SH_OK"
        /\ AsksHelp(more) <=> Len(more) > 1 /\ word = Word.help
        /\ ~IsHidden(more)
    BY <2>1, OwnTakes
  <2>3. Len(more) > 1
    BY <1>1, <2>1
  <2> QED
    BY <2>2, <2>3 DEF more
<1>5. NoName \in Text /\ \A w \in AllNames : w \in Text
  BY NothingNamed, NamesAreText
<1>6. Offers(words) = {} /\ ResolvedPath(Roots, words) = <<>>
  BY OwnTakes, OwnPath
<1>7. MayFollow(words)
        = IF Takes(More(NoName)) THEN {name \in Offers(words) : Takes(More(name))}
          ELSE {w \in AllNames : Takes(More(w)) /\ ~AsksHelp(More(w)) /\ ~IsHidden(More(w))}
  BY DEF MayFollow
<1>8. CASE word = Word.clear
  <2>1. Follow(words) = {}
    BY <1>2, <1>6, <1>8 DEF Follow
  <2>2. Takes(More(NoName))
    <3> DEFINE more == More(NoName)
    <3>1. more[1] = Word.clear
      BY <1>3, <1>5, <1>8
    <3> HIDE DEF more
    <3>2. Dispatch(Roots, Builtins, more).status = "SH_OK"
      BY <3>1 DEF Dispatch, Refuse
    <3> QED
      BY <1>4, <1>5, <3>2 DEF more
  <2> HIDE DEF More
  <2> QED
    BY <1>6, <1>7, <2>1, <2>2
<1>9. CASE word = Word.help
  <2>1. Follow(words) = {}
    BY <1>2, <1>6, <1>9 DEF Follow
  <2>2. \A w \in AllNames : AsksHelp(More(w))
    BY <1>4, <1>5, <1>9
  <2> HIDE DEF More
  <2> QED
    BY <1>6, <1>7, <2>1, <2>2
<1>10. CASE word \in {Word.history, Word.echo}
  <2>1. Follow(words) = IF n = 1 THEN KnownArguments(word) ELSE {}
    BY <1>10 DEF Follow
  <2>2. ASSUME NEW w \in Text
        PROVE  Takes(More(w)) <=> n = 1 /\ w \in KnownArguments(word)
    <3>1. Dispatch(Roots, Builtins, More(w)).status = "SH_OK"
            <=> n = 1 /\ w \in KnownArguments(word)
      BY <1>10, BuiltinAccepts
    <3> HIDE DEF More
    <3> QED
      BY <1>4, <3>1
  <2>3. ASSUME NEW w \in Text PROVE ~AsksHelp(More(w)) /\ ~IsHidden(More(w))
    BY <1>2, <1>4, <1>10
  <2>4. KnownArguments(word) \subseteq ReservedNames \cup {Word.on, Word.off, Word.status}
    BY DEF KnownArguments, ReservedNames
  <2>5. NoName \notin KnownArguments(word) /\ KnownArguments(word) \subseteq AllNames
    BY <2>4, NothingNamed, NamesAreText
  <2> HIDE DEF More, n, word
  <2> QED
    BY <1>5, <1>7, <2>1, <2>2, <2>3, <2>5
<1> QED
  BY <1>8, <1>9, <1>10 DEF ReservedNames

\* After the words of an application command.
LEMMA ApplicationFollows ==
  ASSUME LeavesRun, NEW words \in Seq(Text), words # <<>>, ~IsFull(words),
         ~(Builtins /\ words[1] \in ReservedNames)
  PROVE  MayFollow(words) = Follow(words)
<1> DEFINE n == Len(words)
           path == ResolvedPath(Roots, words)
           c == Len(path)
           cmd == Last(path)
           More(w) == Append(words, w)
           Led(w) == ResolvedPath(Roots, More(w))
           Accepted(w, p) == /\ p # <<>>
                          /\ \/ Len(p) < n + 1 /\ More(w)[Len(p) + 1] \in HelpWords
                             \/ IsParent(Last(p)) /\ Len(p) = n + 1
                             \/ ~IsParent(Last(p)) /\ n + 1 - Len(p) + 1 <= Last(p).max
<1>1. /\ n \in Nat /\ n # 0 /\ c \in Nat /\ c <= n /\ (path = <<>> <=> c = 0)
      /\ path \in Seq(Commands) /\ (path # <<>> => cmd \in Commands)
  BY PathType, LenProperties, EmptySeq
<1>2. ASSUME NEW w \in Text
      PROVE  /\ More(w) \in Seq(Text) /\ Len(More(w)) = n + 1 /\ More(w)[1] = words[1]
             /\ More(w) # <<>> /\ \A i \in 1..n : More(w)[i] = words[i]
             /\ More(w)[n + 1] = w
  <2> DEFINE more == More(w)
  <2>1. /\ more \in Seq(Text) /\ Len(more) = n + 1 /\ \A i \in 1..n : more[i] = words[i]
        /\ more[n + 1] = w
    BY AppendProperties
  <2> HIDE DEF more
  <2>2. 1 \in 1..n /\ n + 1 # 0
    BY <1>1
  <2>3. more[1] = words[1] /\ more # <<>>
    BY <2>1, <2>2, EmptySeq
  <2> QED
    BY <2>1, <2>3 DEF more
<1>3. ASSUME NEW w \in Text PROVE Takes(More(w)) <=> Accepted(w, Led(w))
  <2> DEFINE more == More(w)
  <2>1. more \in Seq(Text) /\ more # <<>> /\ ~(Builtins /\ more[1] \in ReservedNames)
        /\ Len(more) = n + 1
    BY <1>2
  <2> HIDE DEF more
  <2> DEFINE p == ResolvedPath(Roots, more)
  <2>2. Takes(more)
          <=> /\ p # <<>>
              /\ \/ Len(p) < Len(more) /\ more[Len(p) + 1] \in HelpWords
                 \/ IsParent(Last(p)) /\ Len(p) = Len(more)
                 \/ ~IsParent(Last(p)) /\ Len(more) - Len(p) + 1 <= Last(p).max
    BY <2>1, ApplicationTakes
  <2> QED
    BY <2>1, <2>2 DEF more
<1>4. ASSUME NEW w \in Text
      PROVE  Led(w) = IF c < n THEN path ELSE path \o Child(cmd.sub, w)
  <2>1. Led(w) = IF c < n THEN path
                  ELSE path \o Child(IF words = <<>> THEN FlattenSeq(Roots) ELSE cmd.sub, w)
    BY WordAppend
  <2> QED
    BY <2>1
<1>5. NoName \in Text /\ NoName \notin HelpWords /\ \A w \in AllNames : w \in Text
  BY NothingNamed, NamesAreText
<1>6. MayFollow(words)
        = IF Takes(More(NoName)) THEN {name \in Offers(words) : Takes(More(name))}
          ELSE {w \in AllNames : Takes(More(w)) /\ ~AsksHelp(More(w)) /\ ~IsHidden(More(w))}
  BY DEF MayFollow
<1>7. Follow(words) = IF path # <<>> /\ IsParent(cmd)
                      THEN {name \in ToSet(Visible(cmd.sub)) : Len(Led(name)) = n + 1}
                      ELSE Offers(words)
  <2>1. ~(Builtins /\ words[1] \in {Word.history, Word.echo})
    BY DEF ReservedNames
  <2> QED
    BY <2>1 DEF Follow
<1>8. CASE path = <<>>
  <2>1. Offers(words) = {}
    BY <1>8 DEF Offers
  <2>2. ASSUME NEW w \in Text PROVE ~Takes(More(w))
    <3>1. Led(w) = path
      BY <1>1, <1>4, <1>8
    <3> HIDE DEF Led
    <3> QED
      BY <1>3, <1>8, <3>1
  <2> HIDE DEF More, Led, path
  <2> QED
    BY <1>5, <1>6, <1>7, <1>8, <2>1, <2>2
<1>9. CASE path # <<>> /\ IsParent(cmd) /\ c < n
  <2>1. Offers(words) = {}
    BY <1>9 DEF Offers
  <2>2. ASSUME NEW w \in Text
        PROVE  Led(w) = path /\ (Takes(More(w)) <=> words[c + 1] \in HelpWords)
               /\ (AsksHelp(More(w)) \/ ~Takes(More(w)))
    <3>1. Led(w) = path
      BY <1>4, <1>9
    <3>2. More(w)[c + 1] = words[c + 1] /\ c < n + 1 /\ c # n + 1
      <4>1. c + 1 \in 1..n
        BY <1>1, <1>9
      <4> HIDE DEF More
      <4> QED
        BY <1>1, <1>2, <1>9, <4>1
    <3>3. Accepted(w, path) <=> words[c + 1] \in HelpWords
      <4> HIDE DEF More, path, cmd
      <4> QED
        BY <1>9, <3>2 DEF c, cmd
    <3>4. Takes(More(w)) <=> words[c + 1] \in HelpWords
      <4> HIDE DEF Accepted, Led, More
      <4> QED
        BY <1>3, <3>1, <3>3
    <3>5. words[c + 1] \in HelpWords => AsksHelp(More(w))
      <4> DEFINE more == More(w)
      <4>1. ResolvedPath(Roots, more) = path /\ more[c + 1] = words[c + 1] /\ c < Len(more)
        BY <1>2, <3>1, <3>2
      <4> HIDE DEF more
      <4> QED
        BY <1>9, <4>1 DEF AsksHelp, more
    <3> QED
      BY <3>1, <3>4, <3>5
  <2>3. Follow(words) = {}
    <3>1. \A name \in ToSet(Visible(cmd.sub)) : name \in Text
      <4>1. cmd.sub \in Seq(Commands) /\ Named(cmd.sub)
        BY <1>1, <1>9, SubtableNamed
      <4> HIDE DEF cmd
      <4>2. \A name \in ToSet(Visible(cmd.sub)) : \E d \in Commands : d.name = name
        BY <4>1, ShownChild
      <4> QED
        BY <4>2, NamesAreText
    <3>2. c # n + 1
      BY <1>1, <1>9
    <3>3. \A name \in ToSet(Visible(cmd.sub)) : Len(Led(name)) # n + 1
      BY <2>2, <3>1, <3>2
    <3> HIDE DEF Led
    <3> QED
      BY <1>7, <1>9, <3>3
  <2> HIDE DEF More, Led
  <2> QED
    BY <1>5, <1>6, <2>1, <2>2, <2>3
<1>10. CASE path # <<>> /\ IsParent(cmd) /\ ~(c < n)
  <2> DEFINE table == cmd.sub
  <2>1. c = n
    BY <1>1, <1>10
  <2>2. ASSUME NEW w \in Text
        PROVE  /\ Takes(More(w)) /\ ~AsksHelp(More(w)) /\ ~IsHidden(More(w))
                    <=> w \in ToSet(Visible(table))
               /\ w \in ToSet(Visible(table)) => w \in AllNames /\ Len(Led(w)) = n + 1
               /\ w = NoName => ~Takes(More(w))
    <3> DEFINE more == More(w)
    <3>1. more = Append(words, w) /\ ~(Builtins /\ more[1] \in ReservedNames)
      BY <1>2
    <3>2. Stands(words, table)
      BY <1>10, <2>1 DEF Stands
    <3>3. words \in Seq(Text) /\ w \in Text
      OBVIOUS
    <3> HIDE DEF more, table, path, cmd, n, c, Led, Accepted, More
    <3>4. /\ Takes(more) /\ ~AsksHelp(more) /\ ~IsHidden(more)
               <=> w \in ToSet(Visible(table))
          /\ w \in ToSet(Visible(table)) =>
               w \in AllNames /\ Len(ResolvedPath(Roots, more)) = Len(words) + 1
          /\ w = NoName => ~Takes(more)
      BY ONLY LeavesRun, <3>1, <3>2, <3>3, NextWord
    <3> QED
      BY <3>4 DEF more, Led, n, More
  <2>3. ASSUME NEW w \in ToSet(Visible(table)) PROVE w \in AllNames
    <3>1. table \in Seq(Commands) /\ Named(table)
      BY <1>1, <1>10, SubtableNamed
    <3> HIDE DEF table
    <3>2. \E d \in Commands : d.name = w
      BY <2>3, <3>1, ShownChild
    <3> QED
      BY <3>2, NamesAreText
  <2>4. Follow(words) = {name \in ToSet(Visible(table)) : Len(Led(name)) = n + 1}
    BY <1>7, <1>10
  <2> HIDE DEF More, Led, table
  <2>5. Follow(words) = ToSet(Visible(table))
    BY <1>5, <2>2, <2>3, <2>4
  <2>6. MayFollow(words)
          = {w \in AllNames : Takes(More(w)) /\ ~AsksHelp(More(w)) /\ ~IsHidden(More(w))}
    BY <1>5, <1>6, <2>2
  <2>7. \A w \in AllNames : w \in MayFollow(words) <=> w \in ToSet(Visible(table))
    BY <1>5, <2>2, <2>6
  <2> QED
    BY <2>3, <2>5, <2>6, <2>7
<1>11. CASE path # <<>> /\ ~IsParent(cmd)
  <2>1. Takes(More(NoName))
    BY <1>11 DEF IsFull
  <2>2. ASSUME NEW w \in Text
        PROVE  Takes(More(w)) <=> \/ More(w)[c + 1] \in HelpWords
                                  \/ n + 1 - c + 1 <= cmd.max
    <3>1. Led(w) = path
      <4>1. cmd.sub = <<>>
        BY <1>11 DEF IsParent
      <4>2. path \o <<>> = path
        BY <1>1, ConcatEmptySeq
      <4>3. Led(w) = IF c < n THEN path ELSE path \o <<>>
        BY <1>4, <4>1, NoChild
      <4> HIDE DEF Led, path
      <4> QED
        BY <4>2, <4>3
    <3>2. c < n + 1
      BY <1>1
    <3>3. Accepted(w, path) <=> \/ More(w)[c + 1] \in HelpWords
                             \/ n + 1 - c + 1 <= cmd.max
      <4> HIDE DEF More, path, cmd
      <4> QED
        BY <1>11, <3>2 DEF c, cmd
    <3> HIDE DEF Accepted, Led, More
    <3> QED
      BY <1>3, <3>1, <3>3
  <2>3. ASSUME NEW w \in Text PROVE Takes(More(w))
    <3>1. CASE n + 1 - c + 1 <= cmd.max
      BY <2>2, <3>1
    <3>2. CASE ~(n + 1 - c + 1 <= cmd.max)
      <4>1. More(NoName)[c + 1] \in HelpWords
        BY <1>5, <2>1, <2>2, <3>2
      <4>2. c < n
        <5>1. CASE c = n
          <6>1. More(NoName)[n + 1] = NoName
            BY <1>2, <1>5
          <6> QED
            BY <1>5, <4>1, <5>1, <6>1
        <5> QED
          BY <1>1, <5>1
      <4>3. c + 1 \in 1..n
        BY <1>1, <4>2
      <4>4. More(w)[c + 1] = More(NoName)[c + 1]
        <5> HIDE DEF More, c, n
        <5> QED
          BY <1>2, <1>5, <4>3
      <4> QED
        BY <2>2, <4>1, <4>4
    <3> QED
      BY <3>1, <3>2
  <2>4. \A name \in Offers(words) : name \in Text
    <3> DEFINE argument == n - c + 1
    <3>1. ASSUME NEW name \in Offers(words) PROVE name \in Text
      <4>1. /\ argument \in DOMAIN cmd.offers
            /\ name \in {cmd.offers[argument][i] :
                           i \in 1..Min({ScanMax, Len(cmd.offers[argument])})}
        BY <1>11, <3>1 DEF Offers
      <4> HIDE DEF argument, cmd
      <4>2. cmd \in Commands
        BY <1>1, <1>11
      <4>3. name \in ToSet(Provider(cmd, argument).names)
        BY <4>1, <4>2, ProviderNames
      <4>4. Provider(cmd, argument).names \in Seq(Text)
        <5>1. cmd \in Known
          BY <4>2 DEF Known
        <5> QED
          BY <5>1, ProviderType DEF Levels
      <4> QED
        BY <4>3, <4>4, ElementOfSeq, LenProperties DEF ToSet
    <3> QED
      BY <3>1
  <2>5. Follow(words) = Offers(words)
    BY <1>7, <1>11
  <2> HIDE DEF More
  <2> QED
    BY <1>6, <2>1, <2>3, <2>4, <2>5
<1> QED
  BY <1>8, <1>9, <1>10, <1>11

\* What the walk offers is what the dispatcher accepts.
LEMMA WhatFollows ==
  ASSUME LeavesRun, NEW words \in Seq(Text), ~IsFull(words)
  PROVE  MayFollow(words) = Follow(words)
<1>1. CASE words = <<>>
  BY <1>1, FirstFollows
<1>2. CASE words # <<>> /\ Builtins /\ words[1] \in ReservedNames
  BY <1>2, OwnFollows
<1>3. CASE words # <<>> /\ ~(Builtins /\ words[1] \in ReservedNames)
  BY <1>3, ApplicationFollows
<1> QED
  BY <1>1, <1>2, <1>3

-----------------------------------------------------------------------------
\* The editor's part of the type invariant: what its keys read and write.
EditorOK ==
  /\ line \in Text /\ Len(line) <= LineMax
  /\ cursor \in 0..Len(line)
  /\ draft \in Text /\ Len(draft) <= LineMax
  /\ log \in Seq(Text) /\ Len(log) <= Depth
  /\ view \in -1..(Len(log) - 1)

\* A step that keeps it and is a step of the edit buffer, or none.
Obeys == EditorOK' /\ [Buffer!Next]_(Buffer!buffer)

LEMMA EditorNumbers ==
  ASSUME EditorOK
  PROVE  /\ LineMax \in Nat /\ Depth \in Nat /\ Len(line) \in Nat /\ Len(draft) \in Nat
         /\ Len(log) \in Nat /\ cursor \in Nat /\ cursor <= Len(line) /\ view \in Int
BY LineMaxAssumption, DepthAssumption, LenProperties DEF EditorOK, Text

\* The text on both sides of the cursor.
LEMMA Halves ==
  ASSUME EditorOK
  PROVE  /\ Left(cursor) \in Text /\ Len(Left(cursor)) = cursor
         /\ RightOf(cursor) \in Text /\ Len(RightOf(cursor)) = Len(line) - cursor
         /\ \A i \in 1..cursor : Left(cursor)[i] = line[i]
         /\ \A i \in 1..(Len(line) - cursor) : RightOf(cursor)[i] = line[cursor + i]
         /\ Left(cursor) \o RightOf(cursor) = line
BY CutLine DEF EditorOK, Left, RightOf

LEMMA NewHalves ==
  ASSUME NEW a \in Text, NEW b \in Text, line' = a \o b, cursor' = Len(a)
  PROVE  /\ line' \in Text /\ Len(line') = Len(a) + Len(b) /\ cursor' \in 0..Len(line')
         /\ Left(cursor)' = a /\ RightOf(cursor)' = b
<1>1. /\ a \o b \in Text /\ Len(a \o b) = Len(a) + Len(b) /\ Len(a) \in 0..Len(a \o b)
      /\ SubSeq(a \o b, 1, Len(a)) = a
      /\ SubSeq(a \o b, Len(a) + 1, Len(a \o b)) = b
  BY JoinLines
<1> QED
  BY <1>1 DEF Left, RightOf

\* An edit leaves a buffer of its own behind.
LEMMA EditStep ==
  ASSUME EditorOK, NEW a \in Text, NEW b \in Text, Len(a) + Len(b) <= LineMax,
         Edit(a \o b, Len(a))
  PROVE  EditorOK' /\ Left(cursor)' = a /\ RightOf(cursor)' = b /\ Buffer!Own
<1>1. /\ line' = a \o b /\ cursor' = Len(a) /\ view' = -1
      /\ draft' = draft /\ log' = log
  BY DEF Edit
<1>2. /\ line' \in Text /\ Len(line') = Len(a) + Len(b) /\ cursor' \in 0..Len(line')
      /\ Left(cursor)' = a /\ RightOf(cursor)' = b
  BY <1>1, NewHalves
<1>3. EditorOK'
  <2>1. -1 \in -1..(Len(log) - 1) /\ Len(line') <= LineMax
    BY <1>2, EditorNumbers
  <2> QED
    BY <1>1, <1>2, <2>1 DEF EditorOK
<1>4. Buffer!Own
  BY <1>1 DEF Buffer!Own
<1> QED
  BY <1>2, <1>3, <1>4

LEMMA NothingStep ==
  ASSUME EditorOK, UNCHANGED <<editVars, log>>
  PROVE  Obeys
<1>1. line' = line /\ cursor' = cursor /\ view' = view /\ draft' = draft /\ log' = log
  BY DEF editVars
<1> QED
  BY <1>1 DEF Obeys, EditorOK, Buffer!buffer, Left, RightOf

LEMMA InsertStep ==
  ASSUME EditorOK, NEW byte \in 32..126, InsertChar(byte)
  PROVE  Obeys
<1>1. CASE Len(line) + 1 >= LineMax + 1
  BY <1>1, NothingStep DEF InsertChar, Nothing
<1>2. CASE ~(Len(line) + 1 >= LineMax + 1)
  <2> DEFINE a == Append(Left(cursor), byte)
             b == RightOf(cursor)
  <2>1. a \in Text /\ Len(a) = cursor + 1 /\ b \in Text /\ Len(a) + Len(b) <= LineMax
    <3>1. a \in Text /\ Len(a) = cursor + 1
      <4>1. byte \in CharCode
        BY DEF CharCode
      <4> QED
        BY <4>1, Halves, AppendProperties DEF Text
    <3> HIDE DEF a
    <3> QED
      BY <1>2, <3>1, Halves, EditorNumbers, SMTT(20)
  <2>2. Edit(a \o b, Len(a))
    BY <1>2, <2>1 DEF InsertChar
  <2>3. EditorOK' /\ Left(cursor)' = a /\ RightOf(cursor)' = b /\ Buffer!Own
    <3> HIDE DEF a, b
    <3> QED
      BY <2>1, <2>2, EditStep
  <2>4. Len(Buffer!text) < LineMax
    BY <1>2, Halves, EditorNumbers DEF Buffer!text
  <2>5. Buffer!Insert
    BY <2>3, <2>4 DEF Buffer!Insert
  <2> QED
    BY <2>3, <2>5 DEF Obeys, Buffer!Next
<1> QED
  BY <1>1, <1>2

\* Less of the text on one side of the cursor.
LEMMA LessLeft ==
  ASSUME EditorOK, NEW n \in 0..cursor
  PROVE  /\ Left(n) \in Text /\ Len(Left(n)) = n
         /\ SubSeq(Left(cursor), 1, n) = Left(n)
<1>0. n \in 0..Len(line) /\ line \in Text /\ n \in Nat /\ n <= cursor
  BY EditorNumbers DEF EditorOK
<1>1. Left(n) \in Text /\ Len(Left(n)) = n /\ \A i \in 1..n : Left(n)[i] = line[i]
  BY <1>0, CutLine DEF Left
<1>2. n \in 0..Len(Left(cursor)) /\ Left(cursor) \in Text
  BY <1>0, Halves
<1> DEFINE c == Left(cursor)
<1>3. /\ SubSeq(c, 1, n) \in Text /\ Len(SubSeq(c, 1, n)) = n
      /\ \A i \in 1..n : SubSeq(c, 1, n)[i] = c[i]
  BY <1>2, CutLine
<1>4. \A i \in 1..n : c[i] = line[i]
  <2>1. \A i \in 1..n : i \in 1..cursor
    BY <1>0, EditorNumbers
  <2> QED
    BY <2>1, Halves
<1> HIDE DEF c
<1>5. SubSeq(c, 1, n) = Left(n)
  BY <1>1, <1>3, <1>4, SeqEqual DEF Text
<1> QED
  BY <1>1, <1>5 DEF c

LEMMA LessRight ==
  ASSUME EditorOK, NEW n \in 0..(Len(line) - cursor)
  PROVE  /\ RightOf(cursor + n) \in Text /\ Len(RightOf(cursor + n)) = Len(line) - cursor - n
         /\ SubSeq(RightOf(cursor), n + 1, Len(RightOf(cursor))) = RightOf(cursor + n)
<1>0. /\ cursor + n \in 0..Len(line) /\ line \in Text /\ n \in Nat
      /\ Len(line) - (cursor + n) = Len(line) - cursor - n
  BY EditorNumbers DEF EditorOK
<1>1. /\ RightOf(cursor + n) \in Text /\ Len(RightOf(cursor + n)) = Len(line) - cursor - n
      /\ \A i \in 1..(Len(line) - cursor - n) : RightOf(cursor + n)[i] = line[(cursor + n) + i]
  BY <1>0, CutLine, ZenonT(40) DEF RightOf
<1> DEFINE c == RightOf(cursor)
<1>2. n \in 0..Len(c) /\ c \in Text /\ Len(c) = Len(line) - cursor
  BY <1>0, Halves
<1> HIDE DEF c
<1>3. /\ SubSeq(c, n + 1, Len(c)) \in Text /\ Len(SubSeq(c, n + 1, Len(c))) = Len(c) - n
      /\ \A i \in 1..(Len(c) - n) : SubSeq(c, n + 1, Len(c))[i] = c[n + i]
  BY <1>2, CutLine
<1>4. ASSUME NEW i \in 1..(Len(c) - n) PROVE c[n + i] = line[(cursor + n) + i]
  <2>1. n + i \in 1..(Len(line) - cursor) /\ cursor + (n + i) = (cursor + n) + i
    BY <1>0, <1>2, EditorNumbers, SMTT(20)
  <2>2. c[n + i] = line[cursor + (n + i)]
    BY <2>1, Halves DEF c
  <2> QED
    BY <2>1, <2>2
<1>5. SubSeq(c, n + 1, Len(c)) = RightOf(cursor + n)
  BY <1>1, <1>2, <1>3, <1>4, SeqEqual DEF Text
<1> QED
  BY <1>1, <1>5 DEF c

LEMMA BackspaceStep ==
  ASSUME EditorOK, Backspace
  PROVE  Obeys
<1>1. CASE cursor = 0
  BY <1>1, NothingStep DEF Backspace, Nothing
<1>2. CASE cursor # 0
  <2> DEFINE a == Left(cursor - 1)
             b == RightOf(cursor)
  <2>1. /\ a \in Text /\ Len(a) = cursor - 1 /\ b \in Text /\ Len(a) + Len(b) <= LineMax
        /\ a = SubSeq(Left(cursor), 1, Len(Left(cursor)) - 1)
        /\ Left(cursor) # <<>>
    <3>1. cursor - 1 \in 0..cursor
      BY <1>2, EditorNumbers
    <3>2. /\ a \in Text /\ Len(a) = cursor - 1 /\ a = SubSeq(Left(cursor), 1, cursor - 1)
      BY <3>1, LessLeft
    <3> HIDE DEF a
    <3>3. Left(cursor) # <<>>
      BY <1>2, Halves
    <3>4. b \in Text /\ Len(b) = Len(line) - cursor /\ Len(Left(cursor)) = cursor
      BY Halves
    <3> HIDE DEF b
    <3>5. Len(a) + Len(b) <= LineMax
      BY <1>2, <3>2, <3>4, EditorNumbers DEF EditorOK
    <3> QED
      BY <3>2, <3>3, <3>4, <3>5
  <2>2. Edit(a \o b, Len(a))
    BY <1>2, <2>1 DEF Backspace
  <2>3. EditorOK' /\ Left(cursor)' = a /\ RightOf(cursor)' = b /\ Buffer!Own
    <3> HIDE DEF a, b
    <3> QED
      BY <2>1, <2>2, EditStep
  <2>4. Buffer!Rubout
    BY <2>1, <2>3 DEF Buffer!Rubout
  <2> QED
    BY <2>3, <2>4 DEF Obeys, Buffer!Next
<1> QED
  BY <1>1, <1>2

LEMMA DeleteStep ==
  ASSUME EditorOK, DeleteAtCursor
  PROVE  Obeys
<1>1. CASE cursor >= Len(line)
  BY <1>1, NothingStep DEF DeleteAtCursor, Nothing
<1>2. CASE ~(cursor >= Len(line))
  <2> DEFINE a == Left(cursor)
             b == RightOf(cursor + 1)
  <2>1. /\ a \in Text /\ Len(a) = cursor /\ b \in Text /\ Len(a) + Len(b) <= LineMax
        /\ b = Tail(RightOf(cursor)) /\ RightOf(cursor) # <<>>
    <3>1. 1 \in 0..(Len(line) - cursor)
      BY <1>2, EditorNumbers
    <3>2. /\ b \in Text /\ Len(b) = Len(line) - cursor - 1
          /\ SubSeq(RightOf(cursor), 1 + 1, Len(RightOf(cursor))) = b
      BY <3>1, LessRight
    <3> HIDE DEF b
    <3>3. a \in Text /\ Len(a) = cursor /\ RightOf(cursor) \in Text
          /\ Len(RightOf(cursor)) = Len(line) - cursor
      BY Halves
    <3> HIDE DEF a
    <3>4. RightOf(cursor) # <<>>
      BY <3>1, <3>3
    <3>5. Tail(RightOf(cursor)) = SubSeq(RightOf(cursor), 2, Len(RightOf(cursor)))
      BY <3>3, <3>4, TailIsSubSeq DEF Text
    <3>6. 1 + 1 = 2 /\ Len(a) + Len(b) <= LineMax
      BY <1>2, <3>2, <3>3, EditorNumbers DEF EditorOK
    <3> QED
      BY <3>2, <3>3, <3>4, <3>5, <3>6
  <2>2. Edit(a \o b, Len(a))
    BY <1>2, <2>1 DEF DeleteAtCursor
  <2>3. EditorOK' /\ Left(cursor)' = a /\ RightOf(cursor)' = b /\ Buffer!Own
    <3> HIDE DEF a, b
    <3> QED
      BY <2>1, <2>2, EditStep
  <2>4. Buffer!DeleteRight
    BY <2>1, <2>3 DEF Buffer!DeleteRight
  <2> QED
    BY <2>3, <2>4 DEF Obeys, Buffer!Next
<1> QED
  BY <1>1, <1>2

\* What is killed is the word before the cursor with the spaces after it.
LEMMA KillWordStep ==
  ASSUME EditorOK, DeleteWordLeft
  PROVE  Obeys
<1> DEFINE E == {e \in 0..cursor : e = 0 \/ ~IsSpace(line[e])}
           wordEnd == Max(E)
           S == {s \in 0..wordEnd : s = 0 \/ IsSpace(line[s])}
           first == Max(S)
<1>1. wordEnd \in 0..cursor /\ \A i \in (wordEnd + 1)..cursor : IsSpace(line[i])
  <2>1. E \in SUBSET (0..cursor) /\ 0 \in E
    BY EditorNumbers
  <2>2. cursor \in Nat
    BY EditorNumbers
  <2>3. Max(E) \in E /\ \A e \in E : e <= Max(E)
    <3> HIDE DEF E
    <3> QED
      BY <2>1, <2>2, LastAndFirst
  <2>4. wordEnd \in 0..cursor /\ (wordEnd = 0 \/ ~IsSpace(line[wordEnd]))
    BY <2>3
  <2>5. \A i \in (wordEnd + 1)..cursor : i \in 0..cursor /\ ~(i <= wordEnd)
    <3> HIDE DEF wordEnd
    <3> QED
      BY <2>2, <2>4
  <2>6. ASSUME NEW i \in (wordEnd + 1)..cursor PROVE IsSpace(line[i])
    <3> SUFFICES ASSUME ~IsSpace(line[i]) PROVE FALSE
      OBVIOUS
    <3>1. i \in E
      BY <2>5
    <3> QED
      BY <2>3, <2>5, <3>1
  <2> QED
    BY <2>4, <2>6
<1>2. wordEnd = 0 \/ ~IsSpace(line[wordEnd])
  <2>1. E \in SUBSET (0..cursor) /\ 0 \in E /\ cursor \in Nat
    BY EditorNumbers
  <2>2. Max(E) \in E
    <3> HIDE DEF E
    <3> QED
      BY <2>1, LastAndFirst
  <2> QED
    BY <2>2
<1> HIDE DEF wordEnd
<1>3. /\ first \in 0..wordEnd /\ (first = 0 \/ IsSpace(line[first]))
      /\ \A i \in (first + 1)..wordEnd : ~IsSpace(line[i])
  <2>1. S \in SUBSET (0..wordEnd) /\ 0 \in S /\ wordEnd \in Nat
    BY <1>1, EditorNumbers
  <2>2. Max(S) \in S /\ \A s \in S : s <= Max(S)
    <3> HIDE DEF S
    <3> QED
      BY <2>1, LastAndFirst
  <2>3. first \in 0..wordEnd /\ (first = 0 \/ IsSpace(line[first]))
    BY <2>2
  <2>4. \A i \in (first + 1)..wordEnd : i \in 0..wordEnd /\ ~(i <= first)
    <3> HIDE DEF first
    <3> QED
      BY <2>1, <2>3
  <2>5. ASSUME NEW i \in (first + 1)..wordEnd PROVE ~IsSpace(line[i])
    <3> SUFFICES ASSUME IsSpace(line[i]) PROVE FALSE
      OBVIOUS
    <3>1. i \in S
      BY <2>4
    <3> QED
      BY <2>2, <2>4, <3>1
  <2> QED
    BY <2>3, <2>5
<1>4. DeleteWordLeft = IF first = cursor THEN Nothing
                       ELSE Edit(Left(first) \o RightOf(cursor), first)
  BY DEF DeleteWordLeft, wordEnd
<1> HIDE DEF first, E, S
<1>5. CASE first = cursor
  BY <1>4, <1>5, NothingStep DEF Nothing
<1>6. CASE first # cursor
  <2> DEFINE a == Left(first)
             b == RightOf(cursor)
  <2>1. first \in 0..cursor /\ first < cursor /\ cursor \in Nat
    BY <1>1, <1>3, <1>6, EditorNumbers
  <2>2. /\ a \in Text /\ Len(a) = first /\ a = SubSeq(Left(cursor), 1, first)
        /\ b \in Text /\ Len(b) = Len(line) - cursor
    BY <2>1, LessLeft, Halves
  <2>3. Edit(a \o b, Len(a))
    BY <1>4, <1>6, <2>2
  <2> HIDE DEF a, b
  <2>4. Len(a) + Len(b) <= LineMax
    BY <2>1, <2>2, EditorNumbers DEF EditorOK
  <2>5. EditorOK' /\ Left(cursor)' = a /\ RightOf(cursor)' = b /\ Buffer!Own
    BY <2>2, <2>3, <2>4, EditStep
  <2>6. Buffer!KillWord
    <3>1. /\ wordEnd \in 0..Len(Left(cursor)) /\ first \in 0..wordEnd
          /\ Len(Left(cursor)) = cursor
      BY <1>1, <1>3, Halves
    <3>2. \A i \in 1..cursor : Left(cursor)[i] \in Buffer!Blanks <=> IsSpace(line[i])
      BY Halves DEF Buffer!Blanks, IsSpace, Space
    <3>3. \A i \in (wordEnd + 1)..Len(Left(cursor)) : Left(cursor)[i] \in Buffer!Blanks
      <4>1. \A i \in (wordEnd + 1)..cursor : i \in 1..cursor
        BY <1>1, <2>1
      <4> QED
        BY <1>1, <3>1, <3>2, <4>1
    <3>4. \A i \in (first + 1)..wordEnd : Left(cursor)[i] \notin Buffer!Blanks
      <4>1. \A i \in (first + 1)..wordEnd : i \in 1..cursor
        BY <1>1, <1>3, <2>1
      <4> QED
        BY <1>3, <3>2, <4>1
    <3>5. first > 0 => Left(cursor)[first] \in Buffer!Blanks /\ first < wordEnd
      <4> SUFFICES ASSUME first > 0
                   PROVE  Left(cursor)[first] \in Buffer!Blanks /\ first < wordEnd
        OBVIOUS
      <4>1. first \in 1..cursor /\ IsSpace(line[first])
        BY <1>3, <2>1
      <4>2. first # wordEnd
        BY <1>2, <1>3, <4>1
      <4> QED
        BY <1>1, <1>3, <2>1, <3>2, <4>1, <4>2
    <3>6. Left(cursor)' # Left(cursor)
      BY <2>1, <2>2, <2>5, Halves
    <3> QED
      BY <2>2, <2>5, <3>1, <3>3, <3>4, <3>5, <3>6 DEF Buffer!KillWord, b
  <2> QED
    BY <2>5, <2>6 DEF Obeys, Buffer!Next
<1> QED
  BY <1>5, <1>6

LEMMA CompleteStep ==
  ASSUME EditorOK, CompleteLine
  PROVE  Obeys
<1> DEFINE r == Completed(Roots, Builtins, Capacity, line, cursor, LineMax)
<1>1. TakeOver(r)
  BY DEF CompleteLine
<1>2. CASE ~r.replaced
  <2> HIDE DEF r
  <2> QED
    BY <1>1, <1>2, NothingStep DEF TakeOver, Nothing
<1>3. CASE r.replaced
  <2>1. Extends(r.line, r.cursor, line, cursor) /\ Len(r.line) <= LineMax
    <3>1. line \in Text /\ cursor \in 0..Len(line) /\ LineMax \in Nat
      BY EditorNumbers DEF EditorOK
    <3> QED
      BY <1>3, <3>1, CompletedExtends
  <2>2. Edit(r.line, r.cursor)
    <3> HIDE DEF r
    <3> QED
      BY <1>1, <1>3 DEF TakeOver
  <2> HIDE DEF r
  <2>3. PICK end \in cursor..Len(line) :
          /\ \A i \in (cursor + 1)..end : ~IsSpace(line[i])
          /\ end < Len(line) => IsSpace(line[end + 1])
          /\ SubSeq(r.line, r.cursor + 1, Len(r.line)) = SubSeq(line, end + 1, Len(line))
    BY <2>1 DEF Extends
  <2> DEFINE a == SubSeq(r.line, 1, r.cursor)
             b == SubSeq(r.line, r.cursor + 1, Len(r.line))
             n == end - cursor
  <2>4. /\ r.line \in Text /\ Len(r.line) \in Nat /\ r.cursor \in Nat /\ r.cursor >= cursor
        /\ r.cursor \in 0..Len(r.line) /\ cursor \in 0..Len(r.line) /\ cursor \in 0..r.cursor
        /\ SubSeq(r.line, 1, cursor) = SubSeq(line, 1, cursor)
    <3>1. /\ r.line \in Text /\ r.cursor \in cursor..Len(r.line)
          /\ SubSeq(r.line, 1, cursor) = SubSeq(line, 1, cursor)
      BY <2>1 DEF Extends
    <3>2. Len(r.line) \in Nat /\ cursor \in Nat
      BY <3>1, EditorNumbers, LenProperties DEF Text
    <3> QED
      BY <3>1, <3>2
  <2>5. /\ a \in Text /\ Len(a) = r.cursor /\ b \in Text /\ Len(b) = Len(r.line) - r.cursor
        /\ a \o b = r.line
        /\ \A i \in 1..r.cursor : a[i] = r.line[i]
    BY <2>4, CutLine
  <2>6. /\ n \in 0..(Len(line) - cursor) /\ n \in Nat /\ cursor + n = end
        /\ n < Len(line) - cursor <=> end < Len(line)
    BY <2>3, EditorNumbers
  <2> HIDE DEF a, n
  <2>7. b = RightOf(cursor + n)
    BY <2>3, <2>6 DEF RightOf
  <2> HIDE DEF b
  <2>8. Len(a) + Len(b) <= LineMax
    BY <2>1, <2>4, <2>5, EditorNumbers, SMTT(20)
  <2>9. EditorOK' /\ Left(cursor)' = a /\ RightOf(cursor)' = b /\ Buffer!Own
    BY <2>2, <2>5, <2>8, EditStep
  <2>10. SubSeq(a, 1, cursor) = Left(cursor)
    <3>1. cursor \in 0..Len(a)
      BY <2>4, <2>5
    <3>2. /\ SubSeq(a, 1, cursor) \in Text /\ Len(SubSeq(a, 1, cursor)) = cursor
          /\ \A i \in 1..cursor : SubSeq(a, 1, cursor)[i] = a[i]
      BY <2>5, <3>1, CutLine
    <3>3. /\ SubSeq(r.line, 1, cursor) \in Text /\ Len(SubSeq(r.line, 1, cursor)) = cursor
          /\ \A i \in 1..cursor : SubSeq(r.line, 1, cursor)[i] = r.line[i]
      BY <2>4, CutLine
    <3>4. \A i \in 1..cursor : i \in 1..r.cursor
      BY <2>4, EditorNumbers
    <3>5. SubSeq(a, 1, cursor) = SubSeq(r.line, 1, cursor)
      BY <2>5, <3>2, <3>3, <3>4, SeqEqual DEF Text
    <3> QED
      BY <2>4, <3>5 DEF Left
  <2>11. Buffer!Complete
    <3>1. /\ n \in 0..Len(RightOf(cursor)) /\ Len(Left(cursor)) = cursor
          /\ Len(RightOf(cursor)) = Len(line) - cursor
      BY <2>6, Halves
    <3>2. \A i \in 1..(Len(line) - cursor) :
            RightOf(cursor)[i] \in Buffer!Blanks <=> IsSpace(line[cursor + i])
      BY Halves DEF Buffer!Blanks, IsSpace, Space
    <3>3. \A i \in 1..n : RightOf(cursor)[i] \notin Buffer!Blanks
      <4> SUFFICES ASSUME NEW i \in 1..n PROVE RightOf(cursor)[i] \notin Buffer!Blanks
        OBVIOUS
      <4>1. i \in 1..(Len(line) - cursor) /\ cursor + i \in (cursor + 1)..end
        BY <2>6, EditorNumbers
      <4> QED
        BY <2>3, <3>2, <4>1
    <3>4. n < Len(RightOf(cursor)) => RightOf(cursor)[n + 1] \in Buffer!Blanks
      <4> SUFFICES ASSUME n < Len(RightOf(cursor))
                   PROVE  RightOf(cursor)[n + 1] \in Buffer!Blanks
        OBVIOUS
      <4>1. /\ n + 1 \in 1..(Len(line) - cursor) /\ cursor + (n + 1) = end + 1
            /\ end < Len(line)
        BY <2>6, <3>1, EditorNumbers, SMTT(20)
      <4> QED
        BY <2>3, <3>2, <4>1
    <3>5. b = SubSeq(RightOf(cursor), n + 1, Len(RightOf(cursor)))
      BY <2>6, <2>7, LessRight
    <3>6. /\ Len(a) >= Len(Left(cursor)) /\ SubSeq(a, 1, Len(Left(cursor))) = Left(cursor)
          /\ Len(a \o b) <= LineMax
      BY <2>1, <2>4, <2>5, <2>10, <3>1
    <3> QED
      BY <2>9, <3>1, <3>3, <3>4, <3>5, <3>6 DEF Buffer!Complete
  <2> QED
    BY <2>9, <2>11 DEF Obeys, Buffer!Next
<1> QED
  BY <1>2, <1>3

LEMMA MoveStep ==
  ASSUME EditorOK, NEW n \in 0..Len(line), MoveTo(n)
  PROVE  Obeys
<1>1. /\ line' = line /\ cursor' = n /\ view' = view /\ draft' = draft /\ log' = log
  BY DEF MoveTo
<1>2. EditorOK'
  BY <1>1 DEF EditorOK
<1>3. Left(cursor)' \o RightOf(cursor)' = Buffer!text
  <2>1. Left(n) \o RightOf(n) = line
    BY CutLine DEF EditorOK, Left, RightOf
  <2>2. Left(cursor)' = Left(n) /\ RightOf(cursor)' = RightOf(n)
    BY <1>1 DEF Left, RightOf
  <2> QED
    BY <2>1, <2>2, Halves DEF Buffer!text
<1>4. Buffer!Move
  BY <1>1, <1>3 DEF Buffer!Move
<1> QED
  BY <1>2, <1>4 DEF Obeys, Buffer!Next

\* The empty line.
LEMMA EmptyHalves ==
  ASSUME line' = <<>>, cursor' = 0
  PROVE  /\ line' \in Text /\ Len(line') = 0 /\ cursor' \in 0..Len(line')
         /\ Left(cursor)' = <<>> /\ RightOf(cursor)' = <<>>
<1>1. <<>> \in Text /\ Len(<<>>) = 0 /\ <<>> \o <<>> = <<>>
  BY EmptySeq, ConcatEmptySeq DEF Text
<1> QED
  BY <1>1, NewHalves

LEMMA ClearStep ==
  ASSUME EditorOK, ClearInputLine
  PROVE  Obeys
<1>1. /\ line' = <<>> /\ cursor' = 0 /\ view' = -1 /\ log' = log
      /\ draft' \in {<<>>, draft}
  BY DEF ClearInputLine
<1>2. /\ line' \in Text /\ Len(line') = 0 /\ cursor' \in 0..Len(line')
      /\ Left(cursor)' = <<>> /\ RightOf(cursor)' = <<>>
  BY <1>1, EmptyHalves
<1>3. EditorOK'
  <2>1. draft' \in Text /\ Len(draft') <= LineMax
    <3>1. <<>> \in Text /\ Len(<<>>) = 0
      BY EmptySeq DEF Text
    <3> QED
      BY <1>1, <3>1, EditorNumbers DEF EditorOK
  <2>2. -1 \in -1..(Len(log) - 1) /\ Len(line') <= LineMax
    BY <1>2, EditorNumbers
  <2> QED
    BY <1>1, <1>2, <2>1, <2>2 DEF EditorOK
<1>4. Buffer!KillLine
  BY <1>1, <1>2 DEF Buffer!KillLine, Buffer!Own
<1> QED
  BY <1>3, <1>4 DEF Obeys, Buffer!Next

\* Recalling: the line is put aside once, and comes back whole.
LEMMA RecallStep ==
  ASSUME EditorOK, NEW step \in {1, -1}, MoveHistory(step)
  PROVE  Obeys
<1> DEFINE saved == IF view < 0 THEN line ELSE draft
           next  == IF step = 1
                    THEN (IF view < Len(log) - 1 THEN view + 1 ELSE view)
                    ELSE (IF view >= 0 THEN view - 1 ELSE view)
<1>1. CASE log = <<>>
  BY <1>1, NothingStep DEF MoveHistory, Nothing
<1>2. CASE log # <<>>
  <2>1. /\ draft' = saved /\ view' = next /\ log' = log
        /\ line' = Fitted(IF next < 0 THEN saved ELSE History!Newest(next))
        /\ cursor' = Len(line')
    BY <1>2 DEF MoveHistory, SetLine, Fitted
  <2>2. saved \in Text /\ Len(saved) <= LineMax
    BY DEF EditorOK
  <2>3. Len(log) > 0
    BY <1>2, EmptySeq DEF EditorOK
  <2>4. next \in -1..(Len(log) - 1) /\ (step = 1 => next >= 0)
    BY <2>3, EditorNumbers DEF EditorOK
  <2> HIDE DEF saved, next
  <2>5. ASSUME NEW t \in Text
        PROVE  /\ Fitted(t) \in Text /\ Len(Fitted(t)) <= LineMax
               /\ Len(t) <= LineMax => Fitted(t) = t
    <3>1. CASE Len(t) > LineMax
      <4>1. Len(t) \in Nat /\ LineMax \in 0..Len(t)
        BY <3>1, EditorNumbers, LenProperties DEF Text
      <4>2. SubSeq(t, 1, LineMax) \in Text /\ Len(SubSeq(t, 1, LineMax)) = LineMax
        BY <4>1, CutLine
      <4> QED
        BY <3>1, <4>1, <4>2, EditorNumbers DEF Fitted
    <3>2. CASE ~(Len(t) > LineMax)
      BY <3>2, EditorNumbers, LenProperties DEF Fitted, Text
    <3> QED
      BY <3>1, <3>2
  <2>6. next >= 0 => /\ Len(log) - next \in DOMAIN log
                     /\ History!Newest(next) = log[Len(log) - next]
                     /\ History!Newest(next) \in Text
    <3> SUFFICES ASSUME next >= 0
                 PROVE  /\ Len(log) - next \in 1..Len(log)
                        /\ Len(log) - next \in DOMAIN log
                        /\ log[Len(log) - next] \in Text
      BY DEF History!Newest
    <3>1. Len(log) - next \in 1..Len(log)
      BY <2>4, EditorNumbers
    <3>2. log \in Seq(Text)
      BY DEF EditorOK
    <3> QED
      BY <3>1, <3>2, ElementOfSeq, LenProperties
  <2>7. line' \in Text /\ Len(line') <= LineMax
    BY <2>1, <2>2, <2>4, <2>5, <2>6
  <2>8. /\ cursor' \in 0..Len(line') /\ Left(cursor)' = line' /\ RightOf(cursor)' = <<>>
    <3>1. line' \o <<>> = line' /\ <<>> \in Text
      BY <2>7, ConcatEmptySeq, EmptySeq DEF Text
    <3> QED
      BY <2>1, <2>7, <3>1, NewHalves
  <2>9. EditorOK'
    BY <2>1, <2>2, <2>4, <2>7, <2>8 DEF EditorOK
  <2>10. Buffer!text = line
    BY Halves DEF Buffer!text
  <2>11. CASE next >= 0
    <3>1. line' = Fitted(log[Len(log) - next])
      BY <2>1, <2>4, <2>6, <2>11
    <3>2. draft' = IF view >= 0 THEN draft ELSE line
      BY <2>1, EditorNumbers DEF saved
    <3>3. Buffer!Recall
      BY <2>1, <2>4, <2>6, <2>8, <2>10, <2>11, <3>1, <3>2 DEF Buffer!Recall, Fitted
    <3> QED
      BY <2>9, <3>3 DEF Obeys, Buffer!Next
  <2>12. CASE next < 0 /\ view >= 0
    <3>1. saved = draft
      BY <2>12, EditorNumbers DEF saved
    <3>2. line' = draft
      BY <2>1, <2>2, <2>5, <2>12, <3>1
    <3>3. ~(next >= 0)
      BY <2>4, <2>12
    <3>4. Buffer!Restore
      BY <2>1, <2>8, <2>12, <3>2, <3>3 DEF Buffer!Restore, Buffer!Own
    <3> QED
      BY <2>9, <3>4 DEF Obeys, Buffer!Next
  <2>13. CASE next < 0 /\ view < 0
    <3>1. saved = line
      BY <2>13, EditorNumbers DEF saved
    <3>2. line' = line
      BY <2>1, <2>2, <2>5, <2>13, <3>1
    <3>3. ~(next >= 0) /\ ~(view >= 0)
      BY <2>4, <2>13, EditorNumbers
    <3>4. Left(cursor)' \o RightOf(cursor)' = line
      BY <2>7, <2>8, <3>2, ConcatEmptySeq DEF Text
    <3>5. Buffer!Move
      BY <2>1, <2>10, <3>3, <3>4 DEF Buffer!Move
    <3> QED
      BY <2>9, <3>5 DEF Obeys, Buffer!Next
  <2>14. (next >= 0 \/ next < 0) /\ (view >= 0 \/ view < 0)
    BY <2>4, EditorNumbers
  <2> QED
    BY <2>11, <2>12, <2>13, <2>14
<1> QED
  BY <1>1, <1>2

\* The history keeps lines, and never fewer than before when one is added.
LEMMA AddStep ==
  ASSUME EditorOK, NEW t \in Text, History!Add(t)
  PROVE  log' \in Seq(Text) /\ Len(log') <= Depth /\ Len(log') >= Len(log)
<1>1. log \in Seq(Text) /\ Len(log) <= Depth /\ Len(log) \in Nat /\ Depth \in Nat
  BY EditorNumbers DEF EditorOK
<1>2. CASE ~History!Accepts(t)
  BY <1>1, <1>2 DEF History!Add
<1>3. CASE History!Accepts(t)
  <2>1. History!Stored(t) \in Text
    <3>1. CASE Len(t) >= SlotSize
      <4>1. SlotSize - 1 \in 0..Len(t)
        BY <3>1, SlotSizeAssumption, LineMaxAssumption, LenProperties DEF Text
      <4> QED
        BY <3>1, <4>1, CutLine DEF History!Stored
    <3>2. CASE ~(Len(t) >= SlotSize)
      BY <3>2 DEF History!Stored
    <3> QED
      BY <3>1, <3>2
  <2> DEFINE kept == IF Len(log) < Depth THEN log ELSE Tail(log)
  <2>2. log' = Append(kept, History!Stored(t)) /\ Depth > 0
    BY <1>3 DEF History!Add, History!Accepts, History!Recorded
  <2>3. kept \in Seq(Text) /\ Len(kept) < Depth /\ Len(kept) + 1 >= Len(log)
    <3>1. CASE Len(log) < Depth
      BY <1>1, <3>1
    <3>2. CASE ~(Len(log) < Depth)
      <4>1. Len(log) = Depth /\ log # <<>>
        BY <1>1, <2>2, <3>2, EmptySeq
      <4>2. Tail(log) \in Seq(Text) /\ Len(Tail(log)) = Len(log) - 1
        BY <1>1, <4>1, HeadTailProperties
      <4> QED
        BY <1>1, <3>2, <4>1, <4>2
    <3> QED
      BY <3>1, <3>2
  <2> HIDE DEF kept
  <2>4. log' \in Seq(Text) /\ Len(log') = Len(kept) + 1 /\ Len(kept) \in Nat
    BY <2>1, <2>2, <2>3, AppendProperties, LenProperties
  <2> QED
    BY <1>1, <2>3, <2>4
<1> QED
  BY <1>2, <1>3

\* What running a line does to the history: it is cleared, or as for the buffer.
LEMMA ExecuteStep ==
  ASSUME EditorOK, NEW t \in Text, NEW clears \in BOOLEAN, NEW stops \in BOOLEAN,
         Execute(t, clears, stops)
  PROVE  /\ log' \in Seq(Text) /\ Len(log') <= Depth
         /\ clears => log' = <<>> /\ ~Buffer!IsBlank(t)
         /\ ~clears => Len(log') >= Len(log) /\ Buffer!Ran(t)
<1>1. Buffer!IsBlank(t) <=> IsBlank(t)
  BY DEF Buffer!IsBlank, Buffer!Blanks, IsBlank, IsSpace, Space
<1>2. CASE clears
  <2>1. log' = <<>> /\ ~IsBlank(t)
    BY <1>2 DEF Execute, History!Clear
  <2>2. <<>> \in Seq(Text) /\ Len(<<>>) = 0
    BY EmptySeq
  <2> QED
    BY <1>1, <1>2, <2>1, <2>2, DepthAssumption
<1>3. CASE ~clears
  <2>1. log' = log \/ (~IsBlank(t) /\ \E recorded \in {t} \cup MaskedLine : History!Add(recorded))
    BY <1>3 DEF Execute
  <2>2. CASE log' = log
    BY <1>3, <2>2, EditorNumbers DEF EditorOK, Buffer!Ran
  <2>3. CASE ~IsBlank(t) /\ \E recorded \in {t} \cup MaskedLine : History!Add(recorded)
    <3>1. PICK recorded \in {t} \cup MaskedLine : History!Add(recorded)
      BY <2>3
    <3>2. recorded \in Text
      BY LinesAssumption DEF String, Text, CharCode
    <3>3. log' \in Seq(Text) /\ Len(log') <= Depth /\ Len(log') >= Len(log)
      BY <3>1, <3>2, AddStep
    <3>4. Buffer!History!Add(recorded)
      BY <3>1 DEF History!Add, History!Accepts, History!Recorded, History!Stored,
                  History!Newest, Buffer!History!Add, Buffer!History!Accepts,
                  Buffer!History!Recorded, Buffer!History!Stored, Buffer!History!Newest
    <3> QED
      BY <1>1, <1>3, <2>3, <3>3, <3>4 DEF Buffer!Ran
  <2> QED
    BY <2>1, <2>2, <2>3
<1> QED
  BY <1>2, <1>3

LEMMA EmptyEditorStep ==
  ASSUME EditorOK, EmptyEditor, log' \in Seq(Text), Len(log') <= Depth
  PROVE  /\ EditorOK' /\ Left(cursor)' = <<>> /\ RightOf(cursor)' = <<>>
         /\ view' = -1 /\ draft' = <<>>
<1>1. line' = <<>> /\ cursor' = 0 /\ view' = -1 /\ draft' = <<>>
  BY DEF EmptyEditor
<1>2. /\ line' \in Text /\ Len(line') = 0 /\ cursor' \in 0..Len(line')
      /\ Left(cursor)' = <<>> /\ RightOf(cursor)' = <<>>
  BY <1>1, EmptyHalves
<1>3. /\ draft' \in Text /\ Len(draft') = 0 /\ Len(log') \in Nat
  BY <1>1, EmptySeq, LenProperties DEF Text
<1>4. view' \in -1..(Len(log') - 1)
  BY <1>1, <1>3
<1> QED
  BY <1>1, <1>2, <1>3, <1>4, EditorNumbers DEF EditorOK

LEMMA EnterStep ==
  ASSUME EditorOK, HandleEnter
  PROVE  Obeys
<1>1. PICK clears \in BOOLEAN, stops \in BOOLEAN : Execute(line, clears, stops)
  BY DEF HandleEnter
<1>2. /\ log' \in Seq(Text) /\ Len(log') <= Depth
      /\ clears => log' = <<>> /\ ~Buffer!IsBlank(line)
      /\ ~clears => Len(log') >= Len(log) /\ Buffer!Ran(line)
  BY <1>1, ExecuteStep DEF EditorOK
<1>3. /\ EditorOK' /\ Left(cursor)' = <<>> /\ RightOf(cursor)' = <<>>
      /\ view' = -1 /\ draft' = <<>>
  BY <1>2, EmptyEditorStep DEF HandleEnter
<1>4. Buffer!text = line
  BY Halves DEF Buffer!text
<1>5. Buffer!Submit
  <2>1. Buffer!Ran(Buffer!text) \/ (~Buffer!IsBlank(Buffer!text) /\ Buffer!History!Clear)
    BY <1>2, <1>4 DEF Buffer!History!Clear
  <2> QED
    BY <1>3, <2>1 DEF Buffer!Submit
<1> QED
  BY <1>3, <1>5 DEF Obeys, Buffer!Next

LEMMA CancelStep ==
  ASSUME EditorOK, CancelInputLine
  PROVE  Obeys
<1>1. log' = log /\ log' \in Seq(Text) /\ Len(log') <= Depth
  BY DEF CancelInputLine, EditorOK
<1>2. /\ EditorOK' /\ Left(cursor)' = <<>> /\ RightOf(cursor)' = <<>>
      /\ view' = -1 /\ draft' = <<>>
  BY <1>1, EmptyEditorStep DEF CancelInputLine
<1>3. Buffer!Submit
  BY <1>1, <1>2 DEF Buffer!Submit, Buffer!Ran
<1> QED
  BY <1>2, <1>3 DEF Obeys, Buffer!Next

\* The history is cleared from outside: the line stays and is the user's own.
LEMMA ForgetStep ==
  ASSUME EditorOK, LeaveHistory, log' = <<>>
  PROVE  Obeys
<1>1. line' = line /\ cursor' = cursor /\ view' = -1 /\ draft' = <<>>
  BY DEF LeaveHistory
<1>2. EditorOK'
  <2>1. <<>> \in Text /\ Len(<<>>) = 0 /\ <<>> \in Seq(Text)
    BY EmptySeq DEF Text
  <2> QED
    BY <1>1, <2>1, EditorNumbers DEF EditorOK
<1>3. Buffer!ClearHistory
  BY <1>1 DEF Buffer!ClearHistory, Buffer!History!Clear, Left, RightOf
<1> QED
  BY <1>2, <1>3 DEF Obeys, Buffer!Next

LEMMA AppStep ==
  ASSUME EditorOK, NEW t \in AppLine, AppExecute(t)
  PROVE  Obeys
<1>1. PICK clears \in BOOLEAN, stops \in BOOLEAN :
        /\ Execute(t, clears, stops)
        /\ IF clears THEN LeaveHistory ELSE UNCHANGED editVars
  BY DEF AppExecute
<1>2. t \in Text
  BY LinesAssumption DEF String, Text, CharCode
<1>3. /\ log' \in Seq(Text) /\ Len(log') <= Depth
      /\ clears => log' = <<>>
      /\ ~clears => Len(log') >= Len(log) /\ Buffer!Ran(t)
  BY <1>1, <1>2, ExecuteStep
<1>4. CASE clears
  BY <1>1, <1>3, <1>4, ForgetStep
<1>5. CASE ~clears
  <2>1. line' = line /\ cursor' = cursor /\ view' = view /\ draft' = draft
    BY <1>1, <1>5 DEF editVars
  <2>2. EditorOK'
    <3>1. Len(log') \in Nat /\ Len(log') >= Len(log)
      BY <1>3, <1>5, LenProperties
    <3>2. view' \in -1..(Len(log') - 1)
      BY <2>1, <3>1, EditorNumbers DEF EditorOK
    <3> QED
      BY <1>3, <2>1, <3>2 DEF EditorOK
  <2>3. Buffer!RunForeign
    BY <1>3, <1>5, <2>1 DEF Buffer!RunForeign, Left, RightOf
  <2> QED
    BY <2>2, <2>3 DEF Obeys, Buffer!Next
<1> QED
  BY <1>4, <1>5

-----------------------------------------------------------------------------
\* A key, an editing control or a character.
LEMMA KeyStep ==
  ASSUME EditorOK, NEW key \in Decoder!Keys, HandleEscapeKey(key)
  PROVE  Obeys
<1>1. CASE key = "UP"
  <2>1. MoveHistory(1)
    BY <1>1 DEF HandleEscapeKey
  <2> QED
    BY <2>1, RecallStep
<1>2. CASE key = "DOWN"
  <2>1. MoveHistory(-1)
    BY <1>2 DEF HandleEscapeKey
  <2> QED
    BY <2>1, RecallStep
<1>3. CASE key \in {"RIGHT", "LEFT", "HOME", "END"}
  <2>1. \E n \in 0..Len(line) : MoveTo(n)
    <3>1. /\ (IF cursor < Len(line) THEN cursor + 1 ELSE cursor) \in 0..Len(line)
          /\ (IF cursor > 0 THEN cursor - 1 ELSE cursor) \in 0..Len(line)
          /\ 0 \in 0..Len(line) /\ Len(line) \in 0..Len(line)
      BY EditorNumbers
    <3>2. \/ MoveTo(IF cursor < Len(line) THEN cursor + 1 ELSE cursor)
          \/ MoveTo(IF cursor > 0 THEN cursor - 1 ELSE cursor)
          \/ MoveTo(0) \/ MoveTo(Len(line))
      BY <1>3 DEF HandleEscapeKey
    <3> QED
      BY <3>1, <3>2
  <2> QED
    BY <2>1, MoveStep
<1>4. CASE key = "DELETE"
  <2>1. DeleteAtCursor
    BY <1>4 DEF HandleEscapeKey
  <2> QED
    BY <2>1, DeleteStep
<1> QED
  BY <1>1, <1>2, <1>3, <1>4 DEF Decoder!Keys

LEMMA ByteStep ==
  ASSUME EditorOK, NEW byte, HandleByte(byte)
  PROVE  Obeys
<1>1. \/ HandleEnter \/ Backspace \/ CompleteLine \/ CancelInputLine \/ ClearInputLine
      \/ DeleteWordLeft \/ (IsPrintable(byte) /\ InsertChar(byte)) \/ Nothing
  BY DEF HandleByte
<1>2. CASE HandleEnter
  BY <1>2, EnterStep
<1>3. CASE Backspace
  BY <1>3, BackspaceStep
<1>4. CASE CompleteLine
  BY <1>4, CompleteStep
<1>5. CASE CancelInputLine
  BY <1>5, CancelStep
<1>6. CASE ClearInputLine
  BY <1>6, ClearStep
<1>7. CASE DeleteWordLeft
  BY <1>7, KillWordStep
<1>8. CASE IsPrintable(byte) /\ InsertChar(byte)
  BY <1>8, InsertStep DEF IsPrintable
<1>9. CASE Nothing
  BY <1>9, NothingStep DEF Nothing
<1> QED
  BY <1>1, <1>2, <1>3, <1>4, <1>5, <1>6, <1>7, <1>8, <1>9

\* A byte the session handles, whatever it does with it.
LEMMA InputStep ==
  ASSUME EditorOK, NEW byte, InputByte(byte)
  PROVE  Obeys
<1>1. CASE SwallowLf(byte)
  BY <1>1, NothingStep DEF SwallowLf
<1>2. CASE KeyByte(byte)
  <2>1. Decoder!Event(byte) \in Decoder!Keys
    BY <1>2 DEF KeyByte, Decoder!Event, Decoder!DecodeCsi, Decoder!FinalKey,
                Decoder!ParameterKey, Decoder!Keys
  <2> QED
    BY <1>2, <2>1, KeyStep DEF KeyByte
<1>3. CASE SequenceByte(byte)
  BY <1>3, NothingStep DEF SequenceByte
<1>4. CASE PlainByte(byte)
  BY <1>4, ByteStep DEF PlainByte
<1> QED
  BY <1>1, <1>2, <1>3, <1>4 DEF InputByte

LEMMA SessionStep ==
  ASSUME EditorOK, [Next]_vars
  PROVE  Obeys
<1>1. ASSUME NEW byte \in Offered[state], InputByte(byte) PROVE Obeys
  BY <1>1, InputStep
<1>2. ASSUME NEW t \in AppLine, AppExecute(t) PROVE Obeys
  BY <1>2, AppStep
<1>3. CASE Start \/ Stop
  BY <1>3, NothingStep DEF Start, Stop
<1>4. CASE HistoryClear
  BY <1>4, ForgetStep DEF HistoryClear, History!Clear
<1>5. CASE UNCHANGED vars
  BY <1>5, NothingStep DEF vars
<1> QED
  BY <1>1, <1>2, <1>3, <1>4, <1>5 DEF Next

LEMMA EditorInit ==
  ASSUME Init
  PROVE  EditorOK /\ Buffer!Init
<1>1. <<>> \in Text /\ Len(<<>>) = 0 /\ <<>> \in Seq(Text)
  BY EmptySeq DEF Text
<1>2. EditorOK
  BY <1>1, LineMaxAssumption, DepthAssumption DEF Init, EditorOK
<1>3. Left(cursor) = <<>> /\ RightOf(cursor) = <<>>
  <2>1. /\ 1 \in Int /\ 0 \in Int /\ 0 < 1 /\ 0 + 1 = 1
    OBVIOUS
  <2>2. SubSeq(<<>>, 1, 0) = <<>>
    BY <2>1, SubSeqEmpty
  <2> QED
    BY <1>1, <2>1, <2>2 DEF Init, Left, RightOf
<1> QED
  BY <1>2, <1>3 DEF Init, Buffer!Init

\* The line never outgrows its buffer, the cursor stays in it, the draft fits, the
\* history is within its depth and the view inside it, for every line length, depth,
\* command tree and stream of bytes (the bounds sh_input_byte relies on unchecked).
THEOREM LineEditorTypeOK == Spec => []TypeOK
<1>1. Init => TypeOK
  BY EditorInit DEF Init, EditorOK, TypeOK, Decoder!Init, String, Text, CharCode
<1>2. TypeOK /\ [Next]_vars => TypeOK'
  <2> SUFFICES ASSUME TypeOK, [Next]_vars PROVE TypeOK'
    OBVIOUS
  <2>1. EditorOK
    BY DEF TypeOK, EditorOK, String, Text, CharCode
  <2>2. EditorOK'
    BY <2>1, SessionStep DEF Obeys
  <2>3. started' \in BOOLEAN /\ lastCr' \in BOOLEAN
    <3>1. CASE UNCHANGED vars
      BY <3>1 DEF TypeOK, vars
    <3>2. ASSUME NEW byte, InputByte(byte) PROVE started' \in BOOLEAN /\ lastCr' \in BOOLEAN
      <4>1. lastCr' \in BOOLEAN
        BY <3>2 DEF InputByte, SwallowLf, KeyByte, SequenceByte, PlainByte
      <4>2. started' \in BOOLEAN
        <5>1. ASSUME NEW b, HandleByte(b) PROVE started' \in BOOLEAN
          BY <5>1 DEF HandleByte, HandleEnter, Execute, Backspace, CompleteLine, TakeOver,
                      CancelInputLine, ClearInputLine, DeleteWordLeft, InsertChar, Nothing,
                      Edit, TypeOK
        <5>2. ASSUME NEW key \in Decoder!Keys, HandleEscapeKey(key) PROVE started' \in BOOLEAN
          BY <5>2 DEF HandleEscapeKey, MoveHistory, MoveTo, DeleteAtCursor, Nothing, Edit,
                      TypeOK, Decoder!Keys
        <5>3. Decoder!Event(byte) \in Decoder!Keys \cup {"NONE"}
          BY DEF Decoder!Event, Decoder!DecodeCsi, Decoder!FinalKey,
                 Decoder!ParameterKey, Decoder!Keys
        <5> QED
          BY <3>2, <5>1, <5>2, <5>3 DEF InputByte, SwallowLf, KeyByte, SequenceByte,
                                        PlainByte, TypeOK
      <4> QED
        BY <4>1, <4>2
    <3>3. ASSUME NEW t, AppExecute(t) PROVE started' \in BOOLEAN /\ lastCr' \in BOOLEAN
      BY <3>3 DEF AppExecute, Execute, TypeOK
    <3>4. CASE Start \/ Stop \/ HistoryClear
      BY <3>4 DEF Start, Stop, HistoryClear, TypeOK
    <3> QED
      BY <3>1, <3>2, <3>3, <3>4 DEF Next
  <2>4. state' \in {"IDLE", "ESCAPE", "CSI"}
    <3>1. CASE UNCHANGED vars \/ Start \/ Stop \/ HistoryClear
      BY <3>1 DEF TypeOK, vars, decoderVars, Start, Stop, HistoryClear, Decoder!Reset
    <3>2. ASSUME NEW byte, InputByte(byte) PROVE state' \in {"IDLE", "ESCAPE", "CSI"}
      <4>1. state' = state \/ Decoder!Feed(byte)
        BY <3>2 DEF InputByte, SwallowLf, KeyByte, SequenceByte, PlainByte, decoderVars
      <4> QED
        BY <4>1 DEF TypeOK, Decoder!Feed, Decoder!Reset, Decoder!Parameter, Decoder!OpenCsi,
                    Decoder!Escape, Decoder!Finish, Decoder!decoder
    <3>3. ASSUME NEW t, AppExecute(t) PROVE state' \in {"IDLE", "ESCAPE", "CSI"}
      BY <3>3 DEF AppExecute, TypeOK, decoderVars, Decoder!Reset
    <3> QED
      BY <3>1, <3>2, <3>3 DEF Next
  <2> QED
    BY <2>2, <2>3, <2>4 DEF TypeOK, EditorOK, String, Text, CharCode
<1> QED
  BY <1>1, <1>2, PTL DEF Spec

LEMMA TypeIsOK == TypeOK => EditorOK
BY DEF TypeOK, EditorOK, String, Text, CharCode

\* The editor is an edit buffer: every key, complete sequence, command and clear
\* does to the text, the cursor, the recalled line and the line put aside what the
\* buffer's operations do, and the bytes inside a sequence do nothing (sh_input_byte
\* and everything it calls, with completion on any command tree).
THEOREM LineEditorIsEditBuffer == Spec => ImplementsEditBuffer
<1>1. Init => Buffer!Init
  BY EditorInit
<1>2. TypeOK /\ [Next]_vars => [Buffer!Next]_(Buffer!buffer)
  BY TypeIsOK, SessionStep DEF Obeys
<1> QED
  BY <1>1, <1>2, LineEditorTypeOK, PTL DEF Spec, ImplementsEditBuffer, Buffer!Spec

\* A step after which a line is browsed shows the entry at the index, or moved
\* neither the line nor the index (move_history, sh_history_clear and the edits).
THEOREM LineEditorBrowsing == Spec => BrowsingShowsEntry
<1> DEFINE Shows == (view' >= 0) => \/ /\ view' < Len(log')
                                       /\ line' = Fitted(History!Newest(view))'
                                    \/ line' = line /\ view' = view
<1>1. ASSUME TypeOK, [Next]_vars PROVE Shows
  <2>1. EditorOK
    BY <1>1, TypeIsOK
  <2>2. ASSUME UNCHANGED <<line, view>> PROVE Shows
    BY <2>2
  <2>3. ASSUME view' = -1 PROVE Shows
    BY <2>3
  <2>4. ASSUME NEW step \in {1, -1}, MoveHistory(step) PROVE Shows
    <3> DEFINE next == IF step = 1
                       THEN (IF view < Len(log) - 1 THEN view + 1 ELSE view)
                       ELSE (IF view >= 0 THEN view - 1 ELSE view)
    <3>1. CASE log = <<>>
      BY <2>2, <2>4, <3>1 DEF MoveHistory, Nothing, editVars
    <3>2. CASE log # <<>>
      <4>1. /\ view' = next /\ log' = log
            /\ next >= 0 => line' = Fitted(History!Newest(next))
        <5>1. next < 0 \/ next >= 0
          BY <2>1, EditorNumbers
        <5>2. next >= 0 => ~(next < 0)
          BY <2>1, EditorNumbers
        <5> QED
          BY <2>4, <3>2, <5>2 DEF MoveHistory, SetLine, Fitted
      <4>2. next < Len(log)
        <5>1. Len(log) > 0
          BY <2>1, <3>2, EmptySeq DEF EditorOK
        <5> QED
          BY <2>1, <5>1, EditorNumbers DEF EditorOK
      <4> HIDE DEF next
      <4>3. Fitted(History!Newest(view))' = Fitted(History!Newest(next))
        BY <4>1 DEF Fitted, History!Newest
      <4> QED
        BY <4>1, <4>2, <4>3
    <3> QED
      BY <3>1, <3>2
  <2> HIDE DEF Shows
  <2>5. ASSUME NEW byte, HandleByte(byte) PROVE Shows
    <3>1. view' = -1 \/ UNCHANGED <<line, view>>
      BY <2>5 DEF HandleByte, HandleEnter, EmptyEditor, Backspace, CompleteLine, TakeOver,
                  CancelInputLine, ClearInputLine, DeleteWordLeft, InsertChar, Nothing,
                  Edit, editVars
    <3> QED
      BY <2>2, <2>3, <3>1
  <2>6. ASSUME NEW key \in Decoder!Keys, HandleEscapeKey(key) PROVE Shows
    <3>1. \/ MoveHistory(1) \/ MoveHistory(-1)
          \/ view' = -1 \/ UNCHANGED <<line, view>>
      BY <2>6 DEF HandleEscapeKey, MoveTo, DeleteAtCursor, Nothing, Edit, editVars,
                  Decoder!Keys
    <3> QED
      BY <2>2, <2>3, <2>4, <3>1
  <2>7. ASSUME NEW byte, InputByte(byte) PROVE Shows
    <3>1. Decoder!Event(byte) \in Decoder!Keys \cup {"NONE"}
      BY DEF Decoder!Event, Decoder!DecodeCsi, Decoder!FinalKey, Decoder!ParameterKey,
             Decoder!Keys
    <3> QED
      BY <2>2, <2>5, <2>6, <2>7, <3>1 DEF InputByte, SwallowLf, KeyByte, SequenceByte,
                                          PlainByte, editVars
  <2>8. ASSUME NEW t, AppExecute(t) PROVE Shows
    BY <2>2, <2>3, <2>8 DEF AppExecute, LeaveHistory, editVars
  <2>9. CASE Start \/ Stop \/ HistoryClear \/ UNCHANGED vars
    BY <2>2, <2>3, <2>9 DEF Start, Stop, HistoryClear, LeaveHistory, vars, editVars
  <2> QED
    BY <1>1, <2>7, <2>8, <2>9 DEF Next
<1>2. TypeOK /\ [Next]_vars => [Shows]_vars
  <2> HIDE DEF Shows
  <2> QED
    BY <1>1
<1> QED
  BY <1>2, LineEditorTypeOK, PTL DEF Spec, BrowsingShowsEntry

\* As long as the vector has room for the word at the cursor the line up to it can be
\* tokenized.
LEMMA RoomForCursor ==
  ASSUME NEW t \in Text, NEW at \in 0..Len(t),
         ~IsFull(PlainWords(SubSeq(t, 1, TokenStart(t, at))))
  PROVE  Len(PlainWords(SubSeq(t, 1, at))) <= Capacity
<1> DEFINE words == PlainWords(SubSeq(t, 1, at))
           before == PlainWords(SubSeq(t, 1, TokenStart(t, at)))
           prefix == SubSeq(t, TokenStart(t, at) + 1, at)
<1>1. SubSeq(t, 1, at) \in Text /\ SubSeq(t, 1, TokenStart(t, at)) \in Text
  BY CutLine, BeforeCursor
<1>2. words \in Seq(Text) /\ before \in Seq(Text)
  <2>1. 1 \in CharCode
    BY DEF CharCode
  <2> QED
    BY <1>1, <2>1, PlainAppend
<1>3. Before(words, prefix) = before
  BY BeforeCursor
<1>4. ~(Len(before) >= Capacity)
  BY DEF IsFull
<1> HIDE DEF words, before, prefix
<1>5. Len(words) \in Nat /\ Len(before) \in Nat /\ Capacity \in Nat
  BY <1>2, CapacityAssumption, LenProperties
<1>6. Len(words) <= Len(before) + 1
  <2>1. CASE prefix # <<>> /\ words # <<>>
    <3>1. before = Front(words)
      BY <1>3, <2>1 DEF Before
    <3>2. Len(Front(words)) = Len(words) - 1
      <4> DEFINE k == Len(words) - 1
      <4>1. Len(words) # 0
        BY <1>2, <2>1, EmptySeq
      <4>2. Front(words) = SubSeq(words, 1, k)
        BY DEF Front
      <4>3. k \in Nat /\ \A i \in 1..k : words[i] \in Text
        BY <1>2, <1>5, <4>1, ElementOfSeq
      <4> HIDE DEF Text, k
      <4>4. Len(SubSeq(words, 1, k)) = IF 1 <= k THEN k - 1 + 1 ELSE 0
        BY <4>3, SubSeqProperties
      <4>5. Len(SubSeq(words, 1, k)) = k
        BY <4>3, <4>4
      <4> QED
        BY <4>2, <4>5 DEF k
    <3> QED
      BY <1>5, <3>1, <3>2
  <2>2. CASE ~(prefix # <<>> /\ words # <<>>)
    <3>1. before = words
      BY <1>3, <2>2 DEF Before
    <3> QED
      BY <1>5, <3>1
  <2> QED
    BY <2>1, <2>2
<1> QED
  BY <1>4, <1>5, <1>6 DEF words

\* Tab and the dispatcher agree on every line without quotes and escapes, at every
\* cursor another word may follow, for any accepted tables whose leaves have handlers
\* and whose providers offer words, each once (sh_complete_line_internal next to
\* sh_tokenize and sh_command_dispatch_internal): completion offers what the
\* dispatcher, asked with each name there is, accepts.
THEOREM LineEditorCompletion ==
  ASSUME PlainOffers, LeavesRun
  PROVE  Spec => []CompletionAgreesWithDispatch
<1>1. TypeOK => CompletionAgreesWithDispatch
  <2> DEFINE start == TokenStart(line, cursor)
             before == PlainWords(Left(start))
             prefix == SubSeq(line, start + 1, cursor)
             follow == {name \in MayFollow(before) : IsPrefix(prefix, name)}
             r == Completed(Roots, Builtins, Capacity, line, cursor, LineMax)
  <2> SUFFICES ASSUME TypeOK, \A i \in 1..cursor : line[i] \notin Quotes \cup {Backslash},
                      ~IsFull(before)
               PROVE  \E result \in {r}, names \in {follow} :
                        LET grown == LongestCommonPrefix(names)
                            single == Cardinality(names) = 1
                            room == Len(line) - (TokenEnd(line, cursor) - start) + Len(grown)
                                      + (IF single THEN 1 ELSE 0) <= LineMax
                        IN IF result.replaced
                           THEN /\ names # {}
                                /\ PlainWords(SubSeq(result.line, 1, result.cursor))
                                     = Append(before, grown)
                                /\ single => IsSpace(result.line[start + Len(grown) + 1])
                           ELSE names = {} \/ ~room \/ (~single /\ grown = prefix)
    BY DEF CompletionAgreesWithDispatch
  <2>1. line \in Text /\ LineMax \in Nat /\ cursor \in 0..Len(line)
    BY LineMaxAssumption DEF TypeOK, String, Text, CharCode
  <2>2. before = PlainWords(SubSeq(line, 1, start))
    BY DEF Left
  <2>3. before \in Seq(Text)
    <3>1. 1 \in CharCode
      BY DEF CharCode
    <3>2. SubSeq(line, 1, start) \in Text
      BY <2>1, BeforeCursor
    <3> QED
      BY <2>2, <3>1, <3>2, PlainAppend
  <2>4. MayFollow(before) = Follow(before)
    <3> HIDE DEF before
    <3> QED
      BY <2>3, WhatFollows
  <2>5. Len(PlainWords(SubSeq(line, 1, cursor))) <= Capacity
    BY <2>1, <2>2, RoomForCursor
  <2>6. \/ Grows(r, {name \in Follow(before) : IsPrefix(prefix, name)}, prefix, line, cursor,
                 LineMax)
        \/ ~r.replaced /\ Len(PlainWords(SubSeq(line, 1, cursor))) > Capacity
    <3> HIDE DEF r
    <3> QED
      BY <2>1, <2>2, CompletedAgrees DEF r
  <2>7. Grows(r, follow, prefix, line, cursor, LineMax)
    <3>1. PlainWords(SubSeq(line, 1, cursor)) \in Seq(Text)
      <4>1. 1 \in CharCode
        BY DEF CharCode
      <4>2. SubSeq(line, 1, cursor) \in Text
        BY <2>1, CutLine
      <4> QED
        BY <4>1, <4>2, PlainAppend
    <3>2. ~(Len(PlainWords(SubSeq(line, 1, cursor))) > Capacity)
      BY <2>5, <3>1, CapacityAssumption, LenProperties
    <3> HIDE DEF r, before, prefix
    <3> QED
      BY <2>4, <2>6, <3>2
  <2> QED
    <3> HIDE DEF r, prefix, follow
    <3> QED
      BY <2>2, <2>7 DEF Grows
<1> QED
  BY <1>1, LineEditorTypeOK, PTL

-----------------------------------------------------------------------------
\* The queue and the poll: the queue holds the end of what arrived, and a poll that
\* found nothing has taken what had arrived when it was called.
QueueInv ==
  /\ raw \in Seq(Typing) /\ queue \in Seq(Typing) /\ Len(queue) <= Len(raw)
  /\ \A i \in 1..Len(queue) : queue[i] = raw[Taken + i]
  /\ quota \in Nat /\ known \in Nat /\ known <= Len(raw)
  /\ NoDataMeansDrained

LEMMA QueueNumbers ==
  ASSUME QueueInv
  PROVE  /\ Len(raw) \in Nat /\ Len(queue) \in Nat /\ Taken \in Nat /\ Taken <= Len(raw)
         /\ known \in Nat /\ Len(raw) = Taken + Len(queue)
BY LenProperties DEF QueueInv, Taken

\* A byte that arrives changes nothing of what came before it.
LEMMA ArriveRaw ==
  ASSUME QueueInv, NEW byte \in Typing, Arrive(byte)
  PROVE  /\ raw' \in Seq(Typing) /\ queue' \in Seq(Typing)
         /\ Len(raw') = Len(raw) + 1 /\ Len(queue') = Len(queue) + 1 /\ Taken' = Taken
         /\ \A i \in 1..Len(raw) : raw'[i] = raw[i]
         /\ \A i \in 1..Len(queue') : queue'[i] = raw'[Taken + i]
<1>1. /\ raw' = Append(raw, byte) /\ queue' = Append(queue, byte)
      /\ raw \in Seq(Typing) /\ queue \in Seq(Typing)
  BY DEF Arrive, QueueInv
<1>2. /\ raw' \in Seq(Typing) /\ Len(raw') = Len(raw) + 1
      /\ \A i \in 1..Len(raw) : raw'[i] = raw[i]
      /\ raw'[Len(raw) + 1] = byte
  BY <1>1, AppendProperties
<1>3. /\ queue' \in Seq(Typing) /\ Len(queue') = Len(queue) + 1
      /\ \A i \in 1..Len(queue) : queue'[i] = queue[i]
      /\ queue'[Len(queue) + 1] = byte
  BY <1>1, AppendProperties
<1>4. Taken' = Taken
  BY <1>2, <1>3, QueueNumbers DEF Taken
<1>5. ASSUME NEW i \in 1..Len(queue') PROVE queue'[i] = raw'[Taken + i]
  <2>1. CASE i <= Len(queue)
    <3>1. i \in 1..Len(queue) /\ Taken + i \in 1..Len(raw)
      BY <2>1, QueueNumbers
    <3> QED
      BY <1>2, <1>3, <3>1 DEF QueueInv
  <2>2. CASE i = Len(queue) + 1
    <3>1. Taken + i = Len(raw) + 1
      BY <2>2, QueueNumbers
    <3> QED
      BY <1>2, <1>3, <2>2, <3>1
  <2>3. i <= Len(queue) \/ i = Len(queue) + 1
    BY <1>3, QueueNumbers
  <2> QED
    BY <2>1, <2>2, <2>3
<1> QED
  BY <1>2, <1>3, <1>4, <1>5

\* The byte that is read is the next one that arrived.
LEMMA ReadRaw ==
  ASSUME QueueInv, queue # <<>>, raw' = raw, queue' = Tail(queue)
  PROVE  /\ queue' \in Seq(Typing) /\ Len(queue') = Len(queue) - 1
         /\ Taken' = Taken + 1 /\ Taken + 1 \in 1..Len(raw)
         /\ Head(queue) = raw[Taken + 1] /\ Head(queue) \in Typing
         /\ \A i \in 1..Len(queue') : queue'[i] = raw[(Taken + 1) + i]
<1>1. queue \in Seq(Typing) /\ Len(queue) > 0
  BY QueueNumbers, EmptySeq DEF QueueInv
<1>2. /\ queue' \in Seq(Typing) /\ Len(queue') = Len(queue) - 1
      /\ \A i \in 1..Len(queue') : queue'[i] = queue[i + 1]
      /\ Head(queue) \in Typing /\ Head(queue) = queue[1]
  BY <1>1, HeadTailProperties
<1>3. Taken' = Taken + 1 /\ Taken + 1 \in 1..Len(raw) /\ 1 \in 1..Len(queue)
  BY <1>1, <1>2, QueueNumbers DEF Taken
<1>4. Head(queue) = raw[Taken + 1]
  BY <1>2, <1>3 DEF QueueInv
<1>5. ASSUME NEW i \in 1..Len(queue') PROVE queue'[i] = raw[(Taken + 1) + i]
  <2>1. i + 1 \in 1..Len(queue) /\ Taken + (i + 1) = (Taken + 1) + i
    BY <1>2, QueueNumbers
  <2>2. queue[i + 1] = raw[Taken + (i + 1)]
    BY <2>1 DEF QueueInv
  <2> QED
    BY <1>2, <2>1, <2>2
<1> QED
  BY <1>2, <1>3, <1>4, <1>5

LEMMA QueueStep ==
  ASSUME QueueInv, [PolledNext]_polledVars
  PROVE  QueueInv'
<1>1. ASSUME NEW byte \in Typing, Arrive(byte) PROVE QueueInv'
  <2>1. polling' = polling /\ status' = status /\ quota' = quota /\ known' = known
    BY <1>1 DEF Arrive, port
  <2>2. Len(queue') <= Len(raw') /\ known <= Len(raw')
    BY <1>1, ArriveRaw, QueueNumbers DEF QueueInv
  <2> QED
    BY <1>1, <2>1, <2>2, ArriveRaw DEF QueueInv, NoDataMeansDrained
<1>2. ASSUME NEW limit \in Limits, Poll(limit) PROVE QueueInv'
  <2>1. /\ raw' = raw /\ queue' = queue /\ polling' = TRUE /\ quota' = limit
        /\ known' = Len(raw) /\ Taken' = Taken
    BY <1>2 DEF Poll, Taken
  <2>2. limit \in Nat
    BY LimitsAssumption
  <2> QED
    BY <2>1, <2>2, QueueNumbers DEF QueueInv, NoDataMeansDrained
<1>3. CASE ReadByte
  <2>1. /\ raw' = raw /\ queue' = Tail(queue) /\ polling /\ polling' = polling
        /\ quota' = quota - 1 /\ quota > 0 /\ known' = known /\ queue # <<>>
    BY <1>3 DEF ReadByte
  <2>2. quota' \in Nat
    BY <2>1 DEF QueueInv
  <2>3. /\ queue' \in Seq(Typing) /\ Len(queue') = Len(queue) - 1 /\ Taken' = Taken + 1
        /\ \A i \in 1..Len(queue') : queue'[i] = raw[(Taken + 1) + i]
    BY <2>1, ReadRaw
  <2>4. Len(queue') <= Len(raw')
    BY <2>1, <2>3, QueueNumbers
  <2> QED
    BY <2>1, <2>2, <2>3, <2>4 DEF QueueInv, NoDataMeansDrained
<1>4. CASE NoData
  <2>1. /\ raw' = raw /\ queue' = queue /\ quota' = quota /\ known' = known
        /\ queue = <<>> /\ Taken' = Taken
    BY <1>4 DEF NoData, PollReturns, Taken
  <2>2. Taken' >= known'
    <3>1. Len(queue) = 0
      BY <2>1
    <3> QED
      BY <2>1, <3>1, QueueNumbers DEF QueueInv
  <2> QED
    BY <2>1, <2>2 DEF QueueInv, NoDataMeansDrained
<1>5. CASE ReadFails \/ LimitReached
  <2>1. /\ raw' = raw /\ queue' = queue /\ quota' = quota /\ known' = known
        /\ status' \in {"ERR_READ", "LIMIT_REACHED"} /\ Taken' = Taken
    BY <1>5 DEF ReadFails, LimitReached, PollReturns, Taken
  <2> QED
    BY <2>1 DEF QueueInv, NoDataMeansDrained
<1>6. CASE ClearReadErrors \/ UNCHANGED polledVars
  <2>1. /\ raw' = raw /\ queue' = queue /\ quota' = quota /\ known' = known
        /\ status' = status /\ polling' = polling /\ Taken' = Taken
    BY <1>6 DEF ClearReadErrors, polledVars, port, Taken
  <2> QED
    BY <2>1 DEF QueueInv, NoDataMeansDrained
<1> QED
  BY <1>1, <1>2, <1>3, <1>4, <1>5, <1>6 DEF PolledNext, MainLoopPolls, PollSteps

LEMMA QueueInit == PolledInit => QueueInv
<1>1. <<>> \in Seq(Typing) /\ Len(<<>>) = 0
  BY EmptySeq
<1> QED
  BY <1>1 DEF PolledInit, QueueInv, NoDataMeansDrained, Taken

\* After NO_DATA a main loop may sleep: sh_port_baremetal_poll has handed over
\* every byte that was in the queue when it was called.
THEOREM PolledNoDataMeansDrained == PolledSpec => []NoDataMeansDrained
<1>1. QueueInv => NoDataMeansDrained
  BY DEF QueueInv
<1>2. QueueInv /\ [PolledNext]_polledVars => QueueInv'
  BY QueueStep
<1> QED
  BY <1>1, <1>2, QueueInit, PTL DEF PolledSpec

-----------------------------------------------------------------------------
\* A terminal that sends no editing control and opens no CSI sequence.
PlainTyping ==
  Typing \cap ({Tab, CtrlC, CtrlU, CtrlW, Decoder!OpenBracket} \cup BackspaceKeys) = {}

Printable == 32..126

\* One more byte of a line being typed: kept when it is printable and fits.
LEMMA FittedOne ==
  ASSUME NEW t \in Text, NEW byte \in CharCode
  PROVE  /\ Fitted(t) \in Text /\ Len(Fitted(t)) \in Nat
         /\ Fitted(Append(t, byte)) = IF Len(Fitted(t)) + 1 >= LineMax + 1 THEN Fitted(t)
                                      ELSE Append(Fitted(t), byte)
<1>1. /\ Append(t, byte) \in Text /\ Len(Append(t, byte)) = Len(t) + 1 /\ Len(t) \in Nat
      /\ \A i \in 1..Len(t) : Append(t, byte)[i] = t[i]
  BY AppendProperties, LenProperties DEF Text
<1> DEFINE u == Append(t, byte)
<1> HIDE DEF u
<1>2. LineMax \in Nat
  BY LineMaxAssumption
<1>3. CASE Len(t) < LineMax
  <2>1. Fitted(t) = t /\ Fitted(u) = u /\ ~(Len(t) + 1 >= LineMax + 1)
    BY <1>1, <1>2, <1>3 DEF Fitted, u
  <2> QED
    BY <1>1, <2>1 DEF u
<1>4. CASE Len(t) >= LineMax
  <2>1. LineMax \in 0..Len(t) /\ LineMax \in 0..Len(u) /\ Len(u) > LineMax
    BY <1>1, <1>2, <1>4 DEF u
  <2>2. /\ SubSeq(t, 1, LineMax) \in Text /\ Len(SubSeq(t, 1, LineMax)) = LineMax
        /\ SubSeq(u, 1, LineMax) \in Text /\ Len(SubSeq(u, 1, LineMax)) = LineMax
        /\ \A i \in 1..LineMax : SubSeq(t, 1, LineMax)[i] = t[i]
        /\ \A i \in 1..LineMax : SubSeq(u, 1, LineMax)[i] = u[i]
    BY <1>1, <2>1, CutLine DEF u
  <2>3. \A i \in 1..LineMax : u[i] = t[i]
    <3>1. \A i \in 1..LineMax : i \in 1..Len(t)
      BY <2>1
    <3> QED
      BY <1>1, <3>1 DEF u
  <2>4. SubSeq(u, 1, LineMax) = SubSeq(t, 1, LineMax)
    BY <2>2, <2>3, SeqEqual DEF Text
  <2>5. Fitted(t) = SubSeq(t, 1, LineMax)
    <3>1. CASE Len(t) > LineMax
      BY <3>1 DEF Fitted
    <3>2. CASE Len(t) = LineMax
      <4>1. \A i \in 1..Len(t) : SubSeq(t, 1, LineMax)[i] = t[i]
        BY <2>2, <3>2
      <4>2. SubSeq(t, 1, LineMax) = t
        BY <2>2, <3>2, <4>1, SeqEqual DEF Text
      <4> QED
        BY <3>2, <4>2 DEF Fitted
    <3> QED
      BY <1>1, <1>2, <1>4, <3>1, <3>2
  <2>6. Fitted(u) = SubSeq(u, 1, LineMax)
    BY <2>1 DEF Fitted
  <2>7. Len(Fitted(t)) + 1 >= LineMax + 1 /\ Fitted(t) \in Text /\ Len(Fitted(t)) \in Nat
    BY <1>2, <2>2, <2>5
  <2> QED
    BY <2>4, <2>5, <2>6, <2>7 DEF u
<1> QED
  BY <1>1, <1>2, <1>3, <1>4

\* What is typed from a place on, byte by byte.
LEMMA TypedOne ==
  ASSUME QueueInv, NEW n \in Nat, n + 1 <= Len(raw), NEW from \in 1..(n + 1)
  PROVE  /\ Typed(from, n) \in Text /\ Len(Typed(from, n)) \in Nat
         /\ Typed(from, n + 1) = IF raw[n + 1] \in Printable
                                    /\ ~(Len(Typed(from, n)) + 1 >= LineMax + 1)
                                 THEN Append(Typed(from, n), raw[n + 1]) ELSE Typed(from, n)
         /\ Typed(n + 2, n + 1) = <<>>
<1> DEFINE s == SubSeq(raw, from, n)
           e == raw[n + 1]
           kept == Only(s, Printable)
<1>1. raw \in Seq(Typing) /\ Len(raw) \in Nat /\ e \in Typing
  <2>1. raw \in Seq(Typing) /\ Len(raw) \in Nat /\ n + 1 \in 1..Len(raw)
    BY QueueNumbers DEF QueueInv
  <2> QED
    BY <2>1, ElementOfSeq
<1>2. \A i \in 1..Len(raw) : raw[i] \in Typing
  BY <1>1, ElementOfSeq
<1>3. s \in Seq(Typing) /\ SubSeq(raw, from, n + 1) = Append(s, e)
  <2>1. /\ from \in Int /\ n \in Int /\ n + 1 \in Int /\ from <= n + 1
        /\ \A i \in from..n : raw[i] \in Typing
        /\ \A i \in from..(n + 1) : raw[i] \in Typing
    BY <1>1, <1>2
  <2>2. /\ s \in Seq(Typing) /\ Len(s) = IF from <= n THEN n - from + 1 ELSE 0
        /\ \A i \in 1..(n - from + 1) : s[i] = raw[from + i - 1]
    BY <2>1, SubSeqProperties
  <2> DEFINE t == SubSeq(raw, from, n + 1)
  <2>3. /\ t \in Seq(Typing) /\ Len(t) = IF from <= n + 1 THEN (n + 1) - from + 1 ELSE 0
        /\ \A i \in 1..((n + 1) - from + 1) : t[i] = raw[from + i - 1]
    BY <2>1, SubSeqProperties
  <2> HIDE DEF s, t, e
  <2>4. Len(s) = n - from + 1 /\ Len(t) = Len(s) + 1 /\ Len(s) \in Nat
    <3>1. /\ (IF from <= n THEN n - from + 1 ELSE 0) = n - from + 1
          /\ (IF from <= n + 1 THEN (n + 1) - from + 1 ELSE 0) = (n - from + 1) + 1
          /\ n - from + 1 \in Nat
      BY <2>1
    <3> QED
      BY <2>2, <2>3, <3>1
  <2>5. /\ Append(s, e) \in Seq(Typing) /\ Len(Append(s, e)) = Len(s) + 1
        /\ \A i \in 1..Len(s) : Append(s, e)[i] = s[i]
        /\ Append(s, e)[Len(s) + 1] = e
    BY <1>1, <2>2, AppendProperties
  <2>6. ASSUME NEW i \in 1..Len(t) PROVE t[i] = Append(s, e)[i]
    <3>1. (n + 1) - from + 1 = Len(t) /\ (i <= Len(s) \/ i = Len(s) + 1)
      BY <2>1, <2>4
    <3>2. t[i] = raw[from + i - 1]
      BY <2>3, <3>1
    <3>3. CASE i <= Len(s)
      <4>1. i \in 1..Len(s) /\ i \in 1..(n - from + 1)
        BY <2>4, <3>3
      <4> QED
        BY <2>2, <2>5, <3>2, <4>1
    <3>4. CASE i = Len(s) + 1
      <4>1. from + i - 1 = n + 1
        BY <2>1, <2>4, <3>4
      <4> QED
        BY <2>5, <3>2, <3>4, <4>1 DEF e
    <3> QED
      BY <3>1, <3>3, <3>4
  <2> QED
    BY <2>2, <2>3, <2>4, <2>5, <2>6, SeqEqual DEF t
<1> HIDE DEF s, e
<1>4. /\ Only(<<>>, Printable) = <<>>
      /\ Only(Append(s, e), Printable) = IF e \in Printable THEN Append(kept, e) ELSE kept
  BY <1>1, <1>3, OnlyAppend
<1>5. kept \in Text
  <2>1. kept \in Seq(Typing \cap Printable)
    BY <1>3, OnlyType
  <2>2. Typing \cap Printable \subseteq CharCode
    BY DEF Printable, CharCode
  <2> HIDE DEF kept
  <2> QED
    BY <2>1, <2>2, SeqMonotonic DEF Text
<1>6. /\ Typed(from, n) = Fitted(kept)
      /\ Typed(from, n + 1) = Fitted(IF e \in Printable THEN Append(kept, e) ELSE kept)
  BY <1>3, <1>4 DEF Typed, Printable, s
<1> HIDE DEF kept
<1>7. Fitted(kept) \in Text /\ Len(Fitted(kept)) \in Nat
  <2>1. 1 \in CharCode
    BY DEF CharCode
  <2> QED
    BY <1>5, <2>1, FittedOne
<1>8. e \in Printable => /\ e \in CharCode
                         /\ Fitted(Append(kept, e)) =
                              IF Len(Fitted(kept)) + 1 >= LineMax + 1 THEN Fitted(kept)
                              ELSE Append(Fitted(kept), e)
  <2>1. e \in Printable => e \in CharCode
    BY DEF Printable, CharCode
  <2> QED
    BY <1>5, <2>1, FittedOne
<1>9. Typed(n + 2, n + 1) = <<>>
  <2>1. SubSeq(raw, n + 2, n + 1) = <<>>
    <3>1. n + 2 \in Int /\ n + 1 \in Int /\ n + 1 < n + 2
      OBVIOUS
    <3> QED
      BY <3>1, SubSeqEmpty
  <2>2. Fitted(<<>>) = <<>>
    <3>1. ~(Len(<<>>) > LineMax)
      <4>1. Len(<<>>) = 0
        OBVIOUS
      <4> QED
        BY <4>1, LineMaxAssumption
    <3> QED
      BY <3>1 DEF Fitted
  <2> QED
    BY <1>4, <2>1, <2>2 DEF Typed, Printable
<1> QED
  BY <1>6, <1>7, <1>8, <1>9 DEF e

\* The line ends among one byte more.
LEMMA EndsOne ==
  ASSUME NEW n \in Nat
  PROVE  /\ IsFiniteSet(LineEnds(n)) /\ Cardinality(LineEnds(n)) \in Nat
         /\ LastEnd(n) \in 0..n
         /\ LineEnd(n + 1) => /\ LineEnds(n + 1) = LineEnds(n) \cup {n + 1}
                              /\ Cardinality(LineEnds(n + 1)) = Cardinality(LineEnds(n)) + 1
                              /\ LastEnd(n + 1) = n + 1
         /\ ~LineEnd(n + 1) => /\ LineEnds(n + 1) = LineEnds(n)
                               /\ LastEnd(n + 1) = LastEnd(n)
         /\ \A i \in LineEnds(n) : Cardinality(LineEnds(i)) \in 1..Cardinality(LineEnds(n))
<1>1. IsFiniteSet(LineEnds(n)) /\ Cardinality(LineEnds(n)) \in Nat
  <2>1. IsFiniteSet(1..n) /\ LineEnds(n) \subseteq 1..n
    BY FS_Interval DEF LineEnds
  <2> QED
    BY <2>1, FS_Subset, FS_CardinalityType
<1>2. ASSUME NEW m \in Nat
      PROVE  /\ LastEnd(m) \in {0} \cup LineEnds(m)
             /\ \A y \in {0} \cup LineEnds(m) : y <= LastEnd(m)
  <2>1. {0} \cup LineEnds(m) \in SUBSET (0..m) /\ {0} \cup LineEnds(m) # {}
    BY DEF LineEnds
  <2> QED
    BY <2>1, LastAndFirst DEF LastEnd
<1>3. LastEnd(n) \in 0..n
  BY <1>2 DEF LineEnds
<1>4. ASSUME LineEnd(n + 1)
      PROVE  /\ LineEnds(n + 1) = LineEnds(n) \cup {n + 1}
             /\ Cardinality(LineEnds(n + 1)) = Cardinality(LineEnds(n)) + 1
             /\ LastEnd(n + 1) = n + 1
  <2>1. LineEnds(n + 1) = LineEnds(n) \cup {n + 1} /\ n + 1 \notin LineEnds(n)
    BY <1>4 DEF LineEnds
  <2>2. Cardinality(LineEnds(n) \cup {n + 1}) = Cardinality(LineEnds(n)) + 1
    BY <1>1, <2>1, FS_AddElement
  <2>3. LastEnd(n + 1) = n + 1
    <3>1. n + 1 <= LastEnd(n + 1) /\ LastEnd(n + 1) \in 0..(n + 1)
      BY <1>2, <2>1 DEF LineEnds
    <3> QED
      BY <3>1
  <2> QED
    BY <2>1, <2>2, <2>3
<1>5. ASSUME ~LineEnd(n + 1)
      PROVE  LineEnds(n + 1) = LineEnds(n) /\ LastEnd(n + 1) = LastEnd(n)
  <2>1. LineEnds(n + 1) = LineEnds(n)
    BY <1>5 DEF LineEnds
  <2> QED
    BY <2>1 DEF LastEnd
<1>6. ASSUME NEW i \in LineEnds(n)
      PROVE  Cardinality(LineEnds(i)) \in 1..Cardinality(LineEnds(n))
  <2>1. /\ i \in 1..n /\ LineEnds(i) \subseteq LineEnds(n) /\ i \in LineEnds(i)
    BY DEF LineEnds
  <2>2. /\ IsFiniteSet(LineEnds(i)) /\ Cardinality(LineEnds(i)) \in Nat
        /\ Cardinality(LineEnds(i)) <= Cardinality(LineEnds(n))
    BY <1>1, <2>1, FS_Subset, FS_CardinalityType
  <2>3. Cardinality(LineEnds(i)) # 0
    BY <2>1, <2>2, FS_EmptySet
  <2> QED
    BY <1>1, <2>2, <2>3
<1> QED
  BY <1>1, <1>3, <1>4, <1>5, <1>6

LEMMA TypedNothing ==
  ASSUME NEW n \in Nat
  PROVE  Typed(n + 1, n) = <<>>
<1>1. SubSeq(raw, n + 1, n) = <<>>
  <2>1. n + 1 \in Int /\ n \in Int /\ n < n + 1
    OBVIOUS
  <2> QED
    BY <2>1, SubSeqEmpty
<1>2. Only(<<>>, 32..126) = <<>>
  <2>1. <<>> \in Seq(CharCode) /\ 1 \in CharCode
    BY DEF CharCode
  <2>2. \A T : Only(<<>>, T) = <<>>
    BY <2>1, OnlyAppend, Zenon
  <2> QED
    BY <2>2, Zenon
<1>3. ~(Len(<<>>) > LineMax)
  <2>1. Len(<<>>) = 0
    OBVIOUS
  <2> QED
    BY <2>1, LineMaxAssumption
<1> QED
  BY <1>1, <1>2, <1>3 DEF Typed, Fitted

\* What LinesAsTyped says of the lines executed and of the one being edited when n
\* bytes have been read.
AsTyped(n, lines, text) ==
  /\ Len(lines) = Cardinality(LineEnds(n))
  /\ \A i \in LineEnds(n) :
       lines[Cardinality(LineEnds(i))] = Typed(LastEnd(i - 1) + 1, i - 1)
  /\ text = Typed(LastEnd(n) + 1, n)

\* It is about the bytes read: those that arrive later do not matter.
LEMMA SameRaw ==
  ASSUME raw \in Seq(Typing), raw' \in Seq(Typing), Len(raw) <= Len(raw'),
         \A i \in 1..Len(raw) : raw'[i] = raw[i],
         NEW n \in 0..Len(raw), Taken' = n
  PROVE  LinesAsTyped' <=> AsTyped(n, executed', line')
<1>0. Len(raw) \in Nat /\ Len(raw') \in Nat
  BY LenProperties
<1>1. ASSUME NEW i \in 1..Len(raw) PROVE LineEnd(i)' <=> LineEnd(i)
  <2>1. i # 1 => i - 1 \in 1..Len(raw)
    BY <1>0
  <2> QED
    BY <2>1 DEF LineEnd
<1>2. ASSUME NEW m \in 0..Len(raw)
      PROVE  LineEnds(m)' = LineEnds(m) /\ LastEnd(m)' = LastEnd(m)
  <2>1. LineEnds(m)' = LineEnds(m)
    <3>1. \A i \in 1..m : i \in 1..Len(raw)
      BY <1>0
    <3> QED
      BY <1>1, <3>1 DEF LineEnds
  <2> QED
    BY <2>1 DEF LastEnd
<1>3. ASSUME NEW m \in 0..Len(raw), NEW from \in Nat \ {0}
      PROVE  Typed(from, m)' = Typed(from, m)
  <2> DEFINE s == SubSeq(raw, from, m)
             t == SubSeq(raw', from, m)
  <2>1. /\ from \in Int /\ m \in Int
        /\ \A i \in from..m : raw[i] \in Typing /\ raw'[i] \in Typing /\ raw'[i] = raw[i]
    <3>1. \A i \in from..m : i \in 1..Len(raw) /\ i \in 1..Len(raw')
      BY <1>0
    <3>2. \A i \in 1..Len(raw) : raw[i] \in Typing
      BY ElementOfSeq
    <3> QED
      BY <3>1, <3>2
  <2>2. /\ s \in Seq(Typing) /\ Len(s) = IF from <= m THEN m - from + 1 ELSE 0
        /\ \A i \in 1..(m - from + 1) : s[i] = raw[from + i - 1]
    BY <2>1, SubSeqProperties
  <2>3. /\ t \in Seq(Typing) /\ Len(t) = IF from <= m THEN m - from + 1 ELSE 0
        /\ \A i \in 1..(m - from + 1) : t[i] = raw'[from + i - 1]
    BY <2>1, SubSeqProperties
  <2> HIDE DEF s, t
  <2>4. ASSUME NEW i \in 1..Len(s) PROVE s[i] = t[i]
    <3>1. from <= m /\ i \in 1..(m - from + 1) /\ from + i - 1 \in from..m
      <4>1. CASE from <= m
        BY <2>1, <2>2, <4>1
      <4>2. CASE ~(from <= m)
        BY <2>2, <4>2
      <4> QED
        BY <4>1, <4>2
    <3> QED
      BY <2>1, <2>2, <2>3, <3>1
  <2>5. s = t
    BY <2>2, <2>3, <2>4, SeqEqual
  <2> QED
    BY <2>5 DEF Typed, Fitted, s, t
<1>4. LineEnds(Taken)' = LineEnds(n) /\ LastEnd(Taken)' = LastEnd(n)
  <2>1. LineEnds(Taken)' = LineEnds(n)' /\ LastEnd(Taken)' = LastEnd(n)'
    BY DEF LineEnds, LastEnd
  <2> QED
    BY <1>2, <2>1
<1>5. Typed(LastEnd(Taken) + 1, Taken)' = Typed(LastEnd(n) + 1, n)
  <2>1. LastEnd(n) + 1 \in Nat \ {0}
    <3>1. n \in Nat
      BY <1>0
    <3>2. LastEnd(n) \in 0..n
      BY <3>1, EndsOne
    <3> QED
      BY <3>1, <3>2
  <2>2. Typed(LastEnd(Taken) + 1, Taken)' = Fitted(Only(SubSeq(raw', LastEnd(n) + 1, n), 32..126))
    BY <1>4 DEF Typed, Fitted
  <2>3. \A from : Typed(from, n)' = Fitted(Only(SubSeq(raw', from, n), 32..126))
    BY DEF Typed, Fitted
  <2> QED
    BY <1>3, <2>1, <2>2, <2>3
<1>6. ASSUME NEW i \in LineEnds(n)
      PROVE  /\ LineEnds(i)' = LineEnds(i)
             /\ Typed(LastEnd(i - 1) + 1, i - 1)' = Typed(LastEnd(i - 1) + 1, i - 1)
  <2>1. i \in 0..Len(raw) /\ i - 1 \in 0..Len(raw) /\ i - 1 \in Nat
    BY <1>0 DEF LineEnds
  <2>2. LastEnd(i - 1) + 1 \in Nat \ {0}
    <3>1. LastEnd(i - 1) \in 0..(i - 1)
      BY <2>1, EndsOne
    <3> QED
      BY <2>1, <3>1
  <2>3. LastEnd(i - 1)' = LastEnd(i - 1)
    BY <1>2, <2>1
  <2>4. /\ Typed(LastEnd(i - 1) + 1, i - 1)'
             = Fitted(Only(SubSeq(raw', LastEnd(i - 1) + 1, i - 1), 32..126))
        /\ \A from : Typed(from, i - 1)' = Fitted(Only(SubSeq(raw', from, i - 1), 32..126))
    BY <2>3 DEF Typed, Fitted
  <2> QED
    BY <1>2, <1>3, <2>1, <2>2, <2>4
<1> QED
  BY <1>4, <1>5, <1>6 DEF LinesAsTyped, AsTyped

\* How one byte changes it: a line end adds the line, anything else what is typed.
LEMMA AsTypedOne ==
  ASSUME QueueInv, NEW n \in Nat, n + 1 <= Len(raw),
         NEW lines \in Seq(Text), NEW text, AsTyped(n, lines, text)
  PROVE  /\ text \in Text /\ Len(text) \in Nat
         /\ LineEnd(n + 1) => AsTyped(n + 1, Append(lines, text), <<>>)
         /\ ~LineEnd(n + 1) /\ raw[n + 1] \in Printable /\ ~(Len(text) + 1 >= LineMax + 1)
              => AsTyped(n + 1, lines, Append(text, raw[n + 1]))
         /\ ~LineEnd(n + 1) /\ ~(raw[n + 1] \in Printable /\ ~(Len(text) + 1 >= LineMax + 1))
              => AsTyped(n + 1, lines, text)
<1>1. LastEnd(n) \in 0..n /\ LastEnd(n) + 1 \in 1..(n + 1)
  <2>1. LastEnd(n) \in 0..n
    BY EndsOne
  <2> QED
    BY <2>1
<1>2. /\ text = Typed(LastEnd(n) + 1, n)
      /\ text \in Text /\ Len(text) \in Nat
      /\ Typed(LastEnd(n) + 1, n + 1)
           = IF raw[n + 1] \in Printable /\ ~(Len(text) + 1 >= LineMax + 1)
             THEN Append(text, raw[n + 1]) ELSE text
  BY <1>1, TypedOne DEF AsTyped
<1>3. ASSUME LineEnd(n + 1) PROVE AsTyped(n + 1, Append(lines, text), <<>>)
  <2>1. /\ LineEnds(n + 1) = LineEnds(n) \cup {n + 1}
        /\ Cardinality(LineEnds(n + 1)) = Cardinality(LineEnds(n)) + 1
        /\ LastEnd(n + 1) = n + 1
        /\ \A i \in LineEnds(n) : Cardinality(LineEnds(i)) \in 1..Cardinality(LineEnds(n))
    BY <1>3, EndsOne
  <2>2. /\ Len(Append(lines, text)) = Len(lines) + 1
        /\ \A k \in 1..Len(lines) : Append(lines, text)[k] = lines[k]
        /\ Append(lines, text)[Len(lines) + 1] = text
    BY <1>2, AppendProperties
  <2>3. Len(lines) = Cardinality(LineEnds(n))
    BY DEF AsTyped
  <2>4. ASSUME NEW i \in LineEnds(n + 1)
        PROVE  Append(lines, text)[Cardinality(LineEnds(i))]
                 = Typed(LastEnd(i - 1) + 1, i - 1)
    <3>1. CASE i \in LineEnds(n)
      <4>1. lines[Cardinality(LineEnds(i))] = Typed(LastEnd(i - 1) + 1, i - 1)
        BY <3>1 DEF AsTyped
      <4>2. Cardinality(LineEnds(i)) \in 1..Len(lines)
        BY <2>1, <2>3, <3>1
      <4> QED
        BY <2>2, <4>1, <4>2
    <3>2. CASE i = n + 1
      <4>1. i - 1 = n
        BY <3>2
      <4>2. Append(lines, text)[Cardinality(LineEnds(i))] = text
        BY <2>1, <2>2, <2>3, <3>2
      <4> QED
        BY <1>2, <4>1, <4>2
    <3> QED
      BY <2>1, <3>1, <3>2
  <2>5. Typed(LastEnd(n + 1) + 1, n + 1) = <<>>
    <3>1. Typed((n + 1) + 1, n + 1) = <<>>
      BY TypedNothing
    <3> QED
      BY <2>1, <3>1
  <2> QED
    BY <2>1, <2>2, <2>3, <2>4, <2>5 DEF AsTyped
<1>4. ASSUME ~LineEnd(n + 1), NEW more, more = Typed(LastEnd(n) + 1, n + 1)
      PROVE  AsTyped(n + 1, lines, more)
  <2>1. LineEnds(n + 1) = LineEnds(n) /\ LastEnd(n + 1) = LastEnd(n)
    BY <1>4, EndsOne
  <2> QED
    BY <1>4, <2>1 DEF AsTyped
<1> QED
  BY <1>2, <1>3, <1>4

\* Where a plain terminal leaves the editor: at the end of the line, outside CSI,
\* knowing whether the last byte was a CR.
TypedInv ==
  /\ QueueInv /\ LinesAsTyped
  /\ executed \in Seq(Text)
  /\ cursor = Len(line) /\ state \in {"IDLE", "ESCAPE"}
  /\ lastCr = (Taken > 0 /\ raw[Taken] = CR)

\* What one of its bytes does.
LEMMA PlainInput ==
  ASSUME PlainTyping, NEW byte \in Typing, InputByte(byte), line \in Text,
         cursor = Len(line), state \in {"IDLE", "ESCAPE"}
  PROVE  /\ state' \in {"IDLE", "ESCAPE"} /\ lastCr' = (byte = CR)
         /\ Enters(byte) <=> byte = CR \/ (byte = LF /\ ~lastCr)
         /\ cursor' = Len(line')
         /\ Enters(byte) => line' = <<>>
         /\ ~Enters(byte) /\ byte \in Printable /\ ~(Len(line) + 1 >= LineMax + 1)
              => line' = Append(line, byte)
         /\ ~Enters(byte) /\ ~(byte \in Printable /\ ~(Len(line) + 1 >= LineMax + 1))
              => line' = line
<1>1. /\ byte \notin BackspaceKeys /\ byte # Tab /\ byte # CtrlC /\ byte # CtrlU
      /\ byte # CtrlW /\ byte # Decoder!OpenBracket
  BY DEF PlainTyping
<1>2. /\ Decoder!Event(byte) = "NONE"
      /\ Decoder!Consumes(byte) <=> byte = Decoder!ESC
      /\ Enters(byte) <=> byte = CR \/ (byte = LF /\ ~lastCr)
  BY <1>1 DEF Decoder!Event, Decoder!Consumes, Decoder!ESC, Enters, CR, LF
<1>3. Decoder!Feed(byte) => state' \in {"IDLE", "ESCAPE"}
  BY <1>1 DEF Decoder!Feed, Decoder!Escape, Decoder!OpenCsi, Decoder!Parameter,
              Decoder!Finish, Decoder!Reset, Decoder!decoder
<1>4. CASE SwallowLf(byte)
  <2>1. byte = LF /\ lastCr /\ lastCr' = FALSE /\ line' = line /\ cursor' = cursor /\ state' = state
    BY <1>4 DEF SwallowLf, editVars, decoderVars
  <2>2. byte # CR /\ byte \notin Printable
    BY <2>1 DEF CR, LF, Printable
  <2> QED
    BY <1>2, <2>1, <2>2
<1>5. CASE SequenceByte(byte)
  <2>1. byte = Decoder!ESC /\ line' = line /\ cursor' = cursor /\ lastCr' = (byte = CR)
    BY <1>2, <1>5 DEF SequenceByte, editVars
  <2>2. byte \notin Printable /\ ~Enters(byte)
    BY <1>2, <2>1 DEF Decoder!ESC, CR, LF, Printable
  <2>3. state' \in {"IDLE", "ESCAPE"}
    BY <1>3, <1>5 DEF SequenceByte
  <2> QED
    BY <1>2, <2>1, <2>2, <2>3
<1>6. CASE PlainByte(byte)
  <2>1. /\ ~(byte = LF /\ lastCr) /\ lastCr' = (byte = CR) /\ HandleByte(byte)
        /\ state' \in {"IDLE", "ESCAPE"}
    BY <1>3, <1>6 DEF PlainByte
  <2>2. CASE Enters(byte)
    <3>1. HandleEnter
      <4>1. byte \in {CR, LF}
        BY <1>2, <2>2
      <4>2. ~IsPrintable(byte)
        BY <4>1 DEF CR, LF, IsPrintable
      <4> QED
        BY <1>1, <2>1, <4>1, <4>2 DEF HandleByte
    <3>2. line' = <<>> /\ cursor' = 0 /\ Len(<<>>) = 0
      BY <3>1 DEF HandleEnter, EmptyEditor
    <3> QED
      BY <1>2, <2>1, <2>2, <3>2
  <2>3. CASE ~Enters(byte) /\ byte \in Printable
    <3>1. InsertChar(byte)
      BY <1>1, <1>2, <2>1, <2>3 DEF HandleByte, CR, LF, Tab, CtrlC, CtrlU, CtrlW,
                                    IsPrintable, Printable
    <3>2. /\ Left(cursor) = line /\ RightOf(cursor) = <<>> /\ Len(line) \in Nat
      <4>1. Len(line) \in Nat /\ Len(line) \in 0..Len(line)
        BY LenProperties DEF Text
      <4>2. /\ SubSeq(line, 1, Len(line)) \in Text
            /\ Len(SubSeq(line, 1, Len(line))) = Len(line)
            /\ \A i \in 1..Len(line) : SubSeq(line, 1, Len(line))[i] = line[i]
        BY <4>1, CutLine
      <4>3. SubSeq(line, 1, Len(line)) = line
        BY <4>2, SeqEqual DEF Text
      <4>4. SubSeq(line, Len(line) + 1, Len(line)) = <<>>
        <5>1. Len(line) + 1 \in Int /\ Len(line) \in Int /\ Len(line) < Len(line) + 1
          BY <4>1
        <5> QED
          BY <5>1, SubSeqEmpty
      <4> QED
        BY <4>1, <4>3, <4>4 DEF Left, RightOf
    <3>3. byte \in CharCode
      BY <2>3 DEF Printable, CharCode
    <3>4. /\ Append(line, byte) \in Text /\ Len(Append(line, byte)) = Len(line) + 1
          /\ Append(line, byte) \o <<>> = Append(line, byte)
      <4>1. Append(line, byte) \in Text /\ Len(Append(line, byte)) = Len(line) + 1
        BY <3>3, AppendProperties DEF Text
      <4> QED
        BY <4>1, ConcatEmptySeq DEF Text
    <3>5. IF Len(line) + 1 >= LineMax + 1 THEN line' = line /\ cursor' = cursor
          ELSE line' = Append(line, byte) /\ cursor' = Len(line) + 1
      BY <3>1, <3>2, <3>4 DEF InsertChar, Nothing, editVars, Edit
    <3> QED
      BY <1>2, <2>1, <2>3, <3>4, <3>5
  <2>4. CASE ~Enters(byte) /\ byte \notin Printable
    <3>1. Nothing
      BY <1>1, <1>2, <2>1, <2>4 DEF HandleByte, IsPrintable, Printable
    <3> QED
      BY <1>2, <2>1, <2>4, <3>1 DEF Nothing, editVars
  <2> QED
    BY <2>2, <2>3, <2>4
<1>7. CASE KeyByte(byte)
  BY <1>2, <1>7 DEF KeyByte
<1> QED
  BY <1>4, <1>5, <1>6, <1>7 DEF InputByte

LEMMA TypedStep ==
  ASSUME PlainTyping, TypedInv, [PolledNext]_polledVars
  PROVE  TypedInv'
<1>0. QueueInv'
  BY QueueStep DEF TypedInv
<1>1. QueueInv /\ raw \in Seq(Typing) /\ AsTyped(Taken, executed, line)
  BY DEF TypedInv, QueueInv, LinesAsTyped, AsTyped
<1>2. CASE ReadByte
  <2>1. PICK n \in Nat : n = Taken
    BY <1>1, QueueNumbers
  <2>2. /\ raw' = raw /\ queue' = Tail(queue) /\ queue # <<>>
        /\ InputByte(Head(queue))
        /\ executed' = IF Enters(Head(queue)) THEN Append(executed, line) ELSE executed
    BY <1>2 DEF ReadByte
  <2> DEFINE byte == Head(queue)
  <2>3. /\ Taken' = n + 1 /\ n + 1 \in 1..Len(raw) /\ byte = raw[n + 1] /\ byte \in Typing
        /\ Len(raw) \in Nat /\ n + 1 <= Len(raw) /\ n + 1 \in 0..Len(raw)
    <3>1. /\ Taken' = n + 1 /\ n + 1 \in 1..Len(raw) /\ byte = raw[n + 1] /\ byte \in Typing
          /\ Len(raw) \in Nat
      BY <1>1, <2>1, <2>2, ReadRaw, QueueNumbers
    <3> QED
      BY <2>1, <3>1
  <2> HIDE DEF byte
  <2>4. AsTyped(n, executed, line) /\ executed \in Seq(Text)
    BY <1>1, <2>1 DEF TypedInv
  <2>5. /\ line \in Text /\ Len(line) \in Nat
        /\ LineEnd(n + 1) => AsTyped(n + 1, Append(executed, line), <<>>)
        /\ ~LineEnd(n + 1) /\ byte \in Printable /\ ~(Len(line) + 1 >= LineMax + 1)
             => AsTyped(n + 1, executed, Append(line, byte))
        /\ ~LineEnd(n + 1) /\ ~(byte \in Printable /\ ~(Len(line) + 1 >= LineMax + 1))
             => AsTyped(n + 1, executed, line)
    BY <1>1, <2>3, <2>4, AsTypedOne
  <2>6. /\ state' \in {"IDLE", "ESCAPE"} /\ lastCr' = (byte = CR)
        /\ Enters(byte) <=> byte = CR \/ (byte = LF /\ ~lastCr)
        /\ cursor' = Len(line')
        /\ Enters(byte) => line' = <<>>
        /\ ~Enters(byte) /\ byte \in Printable /\ ~(Len(line) + 1 >= LineMax + 1)
             => line' = Append(line, byte)
        /\ ~Enters(byte) /\ ~(byte \in Printable /\ ~(Len(line) + 1 >= LineMax + 1))
             => line' = line
    BY <2>2, <2>3, <2>5, PlainInput DEF TypedInv, byte
  <2>7. Enters(byte) <=> LineEnd(n + 1)
    <3>1. lastCr <=> n > 0 /\ raw[n] = CR
      BY <2>1 DEF TypedInv
    <3>2. (n + 1) - 1 = n /\ (n + 1 = 1 <=> ~(n > 0))
      BY <2>1
    <3> QED
      BY <2>3, <2>6, <3>1, <3>2 DEF LineEnd
  <2>8. AsTyped(n + 1, executed', line')
    BY <2>2, <2>5, <2>6, <2>7 DEF byte
  <2>9. LinesAsTyped'
    <3>1. /\ raw' \in Seq(Typing) /\ Len(raw) <= Len(raw')
          /\ \A i \in 1..Len(raw) : raw'[i] = raw[i]
      BY <1>1, <2>2, <2>3
    <3>2. LinesAsTyped' <=> AsTyped(n + 1, executed', line')
      BY <1>1, <2>3, <3>1, SameRaw
    <3> QED
      BY <2>8, <3>2
  <2>10. executed' \in Seq(Text)
    BY <2>2, <2>4, <2>5, AppendProperties
  <2>11. lastCr' = (Taken' > 0 /\ raw'[Taken'] = CR)
    <3>1. n + 1 > 0
      BY <2>1
    <3> QED
      BY <2>2, <2>3, <2>6, <3>1
  <2> QED
    BY <1>0, <2>6, <2>9, <2>10, <2>11 DEF TypedInv
<1>3. ASSUME UNCHANGED <<line, cursor, lastCr, state, executed>>, Taken' = Taken,
             Len(raw) <= Len(raw'), \A i \in 1..Len(raw) : raw'[i] = raw[i]
      PROVE  TypedInv'
  <2>1. PICK n \in Nat : n = Taken
    BY <1>1, QueueNumbers
  <2>2. n \in 0..Len(raw) /\ Taken' = n /\ raw' \in Seq(Typing)
    BY <1>0, <1>1, <1>3, <2>1, QueueNumbers DEF QueueInv
  <2>3. LinesAsTyped' <=> AsTyped(n, executed', line')
    BY <1>1, <1>3, <2>2, SameRaw
  <2>4. LinesAsTyped'
    BY <1>1, <1>3, <2>1, <2>3
  <2>5. lastCr' = (Taken' > 0 /\ raw'[Taken'] = CR)
    <3>1. n > 0 => n \in 1..Len(raw)
      BY <2>2
    <3> QED
      BY <1>3, <2>1, <3>1 DEF TypedInv
  <2> QED
    BY <1>0, <1>3, <2>4, <2>5 DEF TypedInv
<1>4. ASSUME NEW byte \in Typing, Arrive(byte) PROVE TypedInv'
  <2>1. UNCHANGED <<line, cursor, lastCr, state, executed>>
    BY <1>4 DEF Arrive, vars, editVars, decoderVars
  <2>2. /\ Taken' = Taken /\ Len(raw) <= Len(raw')
        /\ \A i \in 1..Len(raw) : raw'[i] = raw[i]
    BY <1>1, <1>4, ArriveRaw, QueueNumbers
  <2> QED
    BY <1>3, <2>1, <2>2
<1>5. ASSUME UNCHANGED <<vars, raw, queue, executed>> PROVE TypedInv'
  <2>1. UNCHANGED <<line, cursor, lastCr, state, executed>> /\ raw' = raw /\ Taken' = Taken
    BY <1>5 DEF vars, editVars, decoderVars, Taken
  <2>2. Len(raw) <= Len(raw')
    BY <1>1, <2>1, QueueNumbers
  <2> QED
    BY <1>3, <2>1, <2>2
<1>6. CASE MainLoopPolls \/ NoData \/ ReadFails \/ LimitReached \/ ClearReadErrors
           \/ UNCHANGED polledVars
  <2>1. UNCHANGED <<vars, raw, queue, executed>>
    BY <1>6 DEF MainLoopPolls, Poll, NoData, ReadFails, LimitReached, PollReturns,
                ClearReadErrors, polledVars
  <2> QED
    BY <1>5, <2>1
<1> QED
  BY <1>2, <1>4, <1>6 DEF PolledNext, PollSteps

LEMMA TypedInit == PolledInit => TypedInv
<1> SUFFICES ASSUME PolledInit PROVE TypedInv
  OBVIOUS
<1>1. /\ line = <<>> /\ cursor = 0 /\ lastCr = FALSE /\ state = "IDLE"
      /\ raw = <<>> /\ queue = <<>> /\ executed = <<>>
  BY DEF PolledInit, Init, Decoder!Init
<1>2. Taken = 0 /\ Len(<<>>) = 0 /\ <<>> \in Seq(Text)
  BY <1>1, EmptySeq DEF Taken
<1>3. LineEnds(0) = {} /\ Cardinality(LineEnds(0)) = 0 /\ LastEnd(0) = 0
  <2>1. LineEnds(0) = {}
    BY DEF LineEnds
  <2>2. Cardinality({}) = 0
    BY FS_EmptySet
  <2>3. LastEnd(0) \in 0..0
    <3>1. 0 \in Nat
      OBVIOUS
    <3> QED
      BY <3>1, EndsOne
  <2> QED
    BY <2>1, <2>2, <2>3
<1>4. Typed(1, 0) = <<>>
  <2>1. 0 \in Nat /\ 0 + 1 = 1
    OBVIOUS
  <2> QED
    BY <2>1, TypedNothing
<1>5. LinesAsTyped
  <2>1. 0 + 1 = 1
    OBVIOUS
  <2> QED
    BY <1>1, <1>2, <1>3, <1>4, <2>1 DEF LinesAsTyped
<1>6. lastCr = (Taken > 0 /\ raw[Taken] = CR)
  <2>1. ~(Taken > 0)
    BY <1>2
  <2> QED
    BY <1>1, <2>1
<1>7. cursor = Len(line)
  BY <1>1, <1>2
<1> QED
  BY <1>1, <1>2, <1>5, <1>6, <1>7, QueueInit DEF TypedInv

\* From the receive interrupt to sh_execute_line: the lines executed are the
\* physical lines of the byte stream, each once and in order, for every stream of
\* a terminal without editing keys, every size of queue, poll and line, whichever
\* reads fail and wherever the polls cut a CRLF or an escape.
THEOREM PolledLinesAsTyped ==
  ASSUME PlainTyping
  PROVE  PolledSpec => []LinesAsTyped
<1>1. TypedInv => LinesAsTyped
  BY DEF TypedInv
<1>2. TypedInv /\ [PolledNext]_polledVars => TypedInv'
  BY TypedStep
<1> QED
  BY <1>1, <1>2, TypedInit, PTL DEF PolledSpec
=============================================================================
