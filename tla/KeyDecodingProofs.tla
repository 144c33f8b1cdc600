------------------------- MODULE KeyDecodingProofs -------------------------
(***************************************************************************)
(* Theorems about the host program, for every byte stream, every set of    *)
(* console records and every size of the parameter buffer: the escape      *)
(* decoder in it, the modes of the terminal it leaves, and what becomes of *)
(* what is pressed at a console.                                           *)
(***************************************************************************)
EXTENDS HostTerminal, LineSyntaxProofs

\* What the decoder remembers is what an observer of the bytes since the last ESC
\* would: where the sequence is, how many parameters came, and the first of them.
Remembers ==
  /\ state \in {"IDLE", "ESCAPE", "CSI"}
  /\ state = "IDLE" => ~Open(raw) /\ csi = <<>> /\ overflow = FALSE
  /\ state = "ESCAPE" => raw = <<ESC>> /\ csi = <<>> /\ overflow = FALSE
  /\ state = "CSI" =>
       /\ raw \in Seq(Int) /\ Len(raw) >= 2 /\ raw[1] = ESC /\ raw[2] = OpenBracket
       /\ \A i \in 3..Len(raw) : IsParameter(raw[i])
       /\ csi \in Seq(Int)
       /\ Len(csi) = IF Len(raw) - 2 <= CsiMax THEN Len(raw) - 2 ELSE CsiMax
       /\ Len(raw) > 2 => csi[1] = raw[3]
       /\ overflow \in BOOLEAN /\ (overflow <=> Len(raw) - 2 > CsiMax)

Correct == EventMatchesBytes /\ SwallowsExactlySequences

IInv == Remembers /\ Correct

\* What the port holds back are bytes, and the next one is among them.
QueueOK ==
  /\ queue \in Seq(Int) /\ high \in Int /\ position \in Nat
  /\ queue # <<>> => position < Len(queue)

-----------------------------------------------------------------------------
\* No sequence of a key is as short as an escape, or empty.
LEMMA KeysAreLonger ==
  \A key \in Keys : <<>> \notin KeySequences[key] /\ <<ESC>> \notin KeySequences[key]
                      /\ <<ESC, OpenBracket>> \notin KeySequences[key]
<1>1. \A key \in Keys : \A s \in KeySequences[key] : Len(s) \in {3, 4}
  BY DEF Keys, KeySequences
<1>2. Len(<<>>) = 0 /\ Len(<<ESC>>) = 1 /\ Len(<<ESC, OpenBracket>>) = 2
  OBVIOUS
<1>3. QED
  BY <1>1, <1>2

\* Which bytes complete which key after an open sequence.
LEMMA CompletesKey ==
  ASSUME NEW s \in Seq(Int), Len(s) >= 2, s[1] = ESC, s[2] = OpenBracket,
         NEW byte \in Int, NEW key \in Keys
  PROVE  Append(s, byte) \in KeySequences[key] <=>
           \/ Len(s) = 2 /\ FinalKey(byte) = key
           \/ Len(s) = 3 /\ byte = Tilde /\ ParameterKey(s[3]) = key
<1>1. /\ Append(s, byte) \in Seq(Int) /\ Len(Append(s, byte)) = Len(s) + 1
      /\ Append(s, byte)[Len(s) + 1] = byte
      /\ \A i \in 1..Len(s) : Append(s, byte)[i] = s[i]
      /\ Len(s) \in Nat
  BY AppendProperties, LenProperties
<1>2. ASSUME NEW t \in Seq(Int)
      PROVE  Append(s, byte) = t <=>
               /\ Len(t) = Len(s) + 1 /\ t[Len(s) + 1] = byte
               /\ \A i \in 1..Len(s) : t[i] = s[i]
  <2>1. ASSUME Append(s, byte) = t
        PROVE  /\ Len(t) = Len(s) + 1 /\ t[Len(s) + 1] = byte
               /\ \A i \in 1..Len(s) : t[i] = s[i]
    BY <1>1, <2>1
  <2>2. ASSUME Len(t) = Len(s) + 1, t[Len(s) + 1] = byte,
               \A i \in 1..Len(s) : t[i] = s[i]
        PROVE  Append(s, byte) = t
    <3>1. \A i \in 1..Len(t) : Append(s, byte)[i] = t[i]
      BY <1>1, <2>2, SMTT(20)
    <3>2. QED
      BY <1>1, <2>2, <3>1, SeqEqual
  <2>3. QED
    BY <2>1, <2>2
<1>3. ASSUME NEW x \in Int
      PROVE  Append(s, byte) = <<ESC, 91, x>> <=> Len(s) = 2 /\ byte = x
  <2>1. /\ <<ESC, 91, x>> \in Seq(Int) /\ Len(<<ESC, 91, x>>) = 3
        /\ <<ESC, 91, x>>[1] = ESC /\ <<ESC, 91, x>>[2] = 91 /\ <<ESC, 91, x>>[3] = x
    BY DEF ESC
  <2> DEFINE t == <<ESC, 91, x>>
  <2>2. /\ t \in Seq(Int) /\ Len(t) = 3 /\ t[1] = ESC /\ t[2] = 91 /\ t[3] = x
    BY <2>1
  <2> HIDE DEF t
  <2>3. Append(s, byte) = t <=> Len(s) = 2 /\ byte = x
    <3>1. Append(s, byte) = t <=>
            /\ Len(t) = Len(s) + 1 /\ t[Len(s) + 1] = byte
            /\ \A i \in 1..Len(s) : t[i] = s[i]
      BY <1>2, <2>2
    <3>2. CASE Len(s) = 2
      <4>1. \A i \in 1..Len(s) : t[i] = s[i]
        BY <2>2, <3>2 DEF OpenBracket
      <4>2. QED
        BY <2>2, <3>1, <3>2, <4>1
    <3>3. CASE Len(s) # 2
      <4>1. PICK n \in Nat : n = Len(s)
        BY <1>1
      <4>2. n # 2 /\ Len(t) = 3
        BY <2>2, <3>3, <4>1
      <4>3. Len(t) # n + 1
        BY <4>1, <4>2
      <4>4. QED
        BY <3>1, <3>3, <4>1, <4>3
    <3>4. QED
      BY <3>2, <3>3
  <2>4. QED
    BY <2>3 DEF t
<1>4. ASSUME NEW x \in Int
      PROVE  Append(s, byte) = <<ESC, 91, x, 126>> <=>
               Len(s) = 3 /\ s[3] = x /\ byte = 126
  <2>1. /\ <<ESC, 91, x, 126>> \in Seq(Int) /\ Len(<<ESC, 91, x, 126>>) = 4
        /\ <<ESC, 91, x, 126>>[1] = ESC /\ <<ESC, 91, x, 126>>[2] = 91
        /\ <<ESC, 91, x, 126>>[3] = x /\ <<ESC, 91, x, 126>>[4] = 126
    BY DEF ESC
  <2> DEFINE t == <<ESC, 91, x, 126>>
  <2>2. /\ t \in Seq(Int) /\ Len(t) = 4 /\ t[1] = ESC /\ t[2] = 91 /\ t[3] = x
        /\ t[4] = 126
    BY <2>1
  <2> HIDE DEF t
  <2>3. Append(s, byte) = t <=> Len(s) = 3 /\ s[3] = x /\ byte = 126
    <3>1. Append(s, byte) = t <=>
            /\ Len(t) = Len(s) + 1 /\ t[Len(s) + 1] = byte
            /\ \A i \in 1..Len(s) : t[i] = s[i]
      BY <1>2, <2>2
    <3>2. CASE Len(s) = 3
      <4>1. (\A i \in 1..Len(s) : t[i] = s[i]) <=> s[3] = x
        BY <2>2, <3>2 DEF OpenBracket
      <4>2. QED
        BY <2>2, <3>1, <3>2, <4>1
    <3>3. CASE Len(s) # 3
      <4>1. PICK n \in Nat : n = Len(s)
        BY <1>1
      <4>2. n # 3 /\ Len(t) = 4
        BY <2>2, <3>3, <4>1
      <4>3. Len(t) # n + 1
        BY <4>1, <4>2
      <4>4. QED
        BY <3>1, <3>3, <4>1, <4>3
    <3>4. QED
      BY <3>2, <3>3
  <2>4. QED
    BY <2>3 DEF t
<1>5. CASE key \in {"UP", "DOWN", "RIGHT", "LEFT"}
  <2>1. PICK x \in {65, 66, 67, 68} :
          /\ KeySequences[key] = {<<ESC, 91, x>>}
          /\ FinalKey(byte) = key <=> byte = x
    BY <1>5, SMTT(20) DEF Keys, KeySequences, FinalKey
  <2>2. ParameterKey(s[3]) # key
    BY <1>5 DEF ParameterKey
  <2>3. Append(s, byte) = <<ESC, 91, x>> <=> Len(s) = 2 /\ byte = x
    BY <1>3
  <2>4. QED
    BY <2>1, <2>2, <2>3
<1>6. CASE key = "HOME"
  <2>1. /\ KeySequences[key] = {<<ESC, 91, 72>>, <<ESC, 91, 49, 126>>}
        /\ FinalKey(byte) = key <=> byte = 72
        /\ ParameterKey(s[3]) = key <=> s[3] = 49
    BY <1>6 DEF Keys, KeySequences, FinalKey, ParameterKey
  <2>2. Append(s, byte) = <<ESC, 91, 72>> <=> Len(s) = 2 /\ byte = 72
    BY <1>3, SMTT(20)
  <2>3. Append(s, byte) = <<ESC, 91, 49, 126>> <=>
          Len(s) = 3 /\ s[3] = 49 /\ byte = 126
    BY <1>4, SMTT(20)
  <2>4. QED
    BY <2>1, <2>2, <2>3 DEF Tilde
<1>7. CASE key = "END"
  <2>1. /\ KeySequences[key] = {<<ESC, 91, 70>>, <<ESC, 91, 52, 126>>}
        /\ FinalKey(byte) = key <=> byte = 70
        /\ ParameterKey(s[3]) = key <=> s[3] = 52
    BY <1>7 DEF Keys, KeySequences, FinalKey, ParameterKey
  <2>2. Append(s, byte) = <<ESC, 91, 70>> <=> Len(s) = 2 /\ byte = 70
    BY <1>3, SMTT(20)
  <2>3. Append(s, byte) = <<ESC, 91, 52, 126>> <=>
          Len(s) = 3 /\ s[3] = 52 /\ byte = 126
    BY <1>4, SMTT(20)
  <2>4. QED
    BY <2>1, <2>2, <2>3 DEF Tilde
<1>8. CASE key = "DELETE"
  <2>1. /\ KeySequences[key] = {<<ESC, 91, 51, 126>>}
        /\ FinalKey(byte) # key
        /\ ParameterKey(s[3]) = key <=> s[3] = 51
    BY <1>8 DEF Keys, KeySequences, FinalKey, ParameterKey
  <2>2. Append(s, byte) = <<ESC, 91, 51, 126>> <=>
          Len(s) = 3 /\ s[3] = 51 /\ byte = 126
    BY <1>4, SMTT(20)
  <2>3. QED
    BY <2>1, <2>2 DEF Tilde
<1>9. QED
  BY <1>5, <1>6, <1>7, <1>8 DEF Keys

\* A decoder that has been reset, or has not seen a byte, remembers nothing.
LEMMA FreshIInv ==
  /\ KDInit => IInv
  /\ ResetDecoder => IInv'
<1>1. \A key \in Keys : "NONE" # key
  BY DEF Keys
<1>2. KDInit => IInv
  BY <1>1, KeysAreLonger
     DEF KDInit, Init, IInv, Remembers, Correct, Open, EventMatchesBytes,
         SwallowsExactlySequences
<1>3. ResetDecoder => IInv'
  BY <1>1, KeysAreLonger
     DEF ResetDecoder, Reset, IInv, Remembers, Correct, Open, EventMatchesBytes,
         SwallowsExactlySequences
<1>4. QED
  BY <1>2, <1>3

\* An escape begins a sequence whatever came before.
LEMMA EscapeByte == ASSUME IInv, Byte(ESC) PROVE IInv'
<1>1. /\ event' = "NONE" /\ swallowed' = TRUE /\ raw' = <<ESC>>
  BY DEF Byte, Event, Consumes, Extended, IsFinal, ESC
<1>2. state' = "ESCAPE" /\ csi' = <<>> /\ overflow' = FALSE
  BY DEF Byte, Feed, Escape, OpenCsi, Parameter, Finish, IsParameter, ESC,
         OpenBracket, IInv, Remembers
<1>3. \A key \in Keys : "NONE" # key
  BY DEF Keys
<1>4. QED
  BY <1>1, <1>2, <1>3, KeysAreLonger
     DEF IInv, Remembers, Correct, EventMatchesBytes, SwallowsExactlySequences

\* Outside a sequence a byte is the editor's.
LEMMA IdleByte ==
  ASSUME IInv, NEW byte \in Int, byte # ESC, state = "IDLE", Byte(byte)
  PROVE  IInv'
<1>1. event' = "NONE" /\ swallowed' = FALSE /\ raw' = <<>>
  BY DEF Byte, Event, Consumes, Extended, IInv, Remembers
<1>2. UNCHANGED <<state, csi, overflow>>
  BY DEF Byte, Feed, Escape, OpenCsi, Parameter, Finish, decoder
<1>3. \A key \in Keys : "NONE" # key
  BY DEF Keys
<1>4. QED
  BY <1>1, <1>2, <1>3, KeysAreLonger
     DEF IInv, Remembers, Correct, Open, EventMatchesBytes, SwallowsExactlySequences

\* After an escape only an opening bracket belongs to the sequence.
LEMMA EscapedByte ==
  ASSUME IInv, NEW byte \in Int, byte # ESC, state = "ESCAPE", Byte(byte)
  PROVE  IInv'
<1>1. /\ raw = <<ESC>> /\ Len(raw) = 1 /\ raw # <<>> /\ Open(raw)
      /\ event' = "NONE"
  <2>1. raw = <<ESC>> /\ event' = "NONE"
    BY DEF Byte, Event, IInv, Remembers
  <2>2. Len(<<ESC>>) = 1 /\ <<ESC>> # <<>>
    OBVIOUS
  <2>3. Open(<<ESC>>)
    BY <2>2 DEF Open
  <2>4. QED
    BY <2>1, <2>2, <2>3
<1>2. \A key \in Keys : "NONE" # key
  BY DEF Keys
<1>3. CASE byte = OpenBracket
  <2>1. swallowed' = TRUE /\ raw' = <<ESC, OpenBracket>>
    <3>1. raw' = Append(<<ESC>>, OpenBracket)
      BY <1>1, <1>3 DEF Byte, Extended
    <3>2. QED
      BY <1>3, <3>1 DEF Byte, Consumes
  <2>2. state' = "CSI" /\ csi' = <<>> /\ overflow' = FALSE
    BY <1>3 DEF Byte, Feed, Escape, OpenCsi, Parameter, Finish
  <2>3. raw' \in Seq(Int) /\ Len(raw') = 2 /\ raw'[1] = ESC /\ raw'[2] = OpenBracket
    BY <2>1 DEF ESC, OpenBracket
  <2>4. Remembers'
    <3>1. /\ csi' \in Seq(Int) /\ Len(csi') = 0 /\ CsiMax \in Nat /\ CsiMax >= 1
          /\ 3..2 = {}
      BY <2>2, CsiMaxAssumption
    <3>2. Len(raw') - 2 <= CsiMax /\ Len(csi') = Len(raw') - 2
      BY <2>3, <3>1
    <3>3. ~(Len(raw') - 2 > CsiMax)
      BY <2>3, <3>1
    <3>4. overflow' \in BOOLEAN /\ (overflow' <=> Len(raw') - 2 > CsiMax)
      BY <2>2, <3>3
    <3>5. ~(Len(raw') > 2) /\ \A i \in 3..Len(raw') : IsParameter(raw'[i])
      BY <2>3, <3>1
    <3>6. QED
      BY <2>2, <2>3, <3>1, <3>2, <3>4, <3>5 DEF Remembers
  <2>5. QED
    BY <1>1, <1>2, <2>1, <2>4, KeysAreLonger
       DEF IInv, Correct, EventMatchesBytes, SwallowsExactlySequences
<1>4. CASE byte # OpenBracket
  <2>1. swallowed' = FALSE /\ raw' = <<>>
    BY <1>1, <1>4 DEF Byte, Consumes, Extended
  <2>2. state' = "IDLE" /\ csi' = <<>> /\ overflow' = FALSE
    BY <1>4 DEF Byte, Feed, Escape, OpenCsi, Parameter, Finish, Reset
  <2>3. QED
    BY <1>1, <1>2, <2>1, <2>2, KeysAreLonger
       DEF IInv, Remembers, Correct, Open, EventMatchesBytes,
           SwallowsExactlySequences
<1>5. QED
  BY <1>3, <1>4

\* Inside a sequence the decoder returns the key the bytes spell, if any.
LEMMA CsiEvent ==
  ASSUME IInv, NEW byte \in Int, state = "CSI", NEW key \in Keys
  PROVE  Event(byte) = key <=> Append(raw, byte) \in KeySequences[key]
<1>1. /\ raw \in Seq(Int) /\ Len(raw) >= 2 /\ raw[1] = ESC /\ raw[2] = OpenBracket
      /\ csi \in Seq(Int)
      /\ Len(csi) = IF Len(raw) - 2 <= CsiMax THEN Len(raw) - 2 ELSE CsiMax
      /\ Len(raw) > 2 => csi[1] = raw[3]
      /\ overflow \in BOOLEAN /\ (overflow <=> Len(raw) - 2 > CsiMax)
      /\ CsiMax \in Nat /\ CsiMax >= 1 /\ Len(raw) \in Nat
  BY CsiMaxAssumption, LenProperties DEF IInv, Remembers
<1>2. /\ csi = <<>> /\ ~overflow <=> Len(raw) = 2
      /\ Len(csi) = 1 /\ ~overflow <=> Len(raw) = 3
  <2>1. csi = <<>> <=> Len(csi) = 0
    BY <1>1, EmptySeq
  <2>2. PICK n \in Nat, m \in Nat : n = Len(raw) /\ m = Len(csi)
    BY <1>1, LenProperties
  <2>3. /\ m = (IF n - 2 <= CsiMax THEN n - 2 ELSE CsiMax) /\ n >= 2
        /\ overflow <=> n - 2 > CsiMax
    BY <1>1, <2>2
  <2>4. /\ m = 0 /\ ~overflow <=> n = 2
        /\ m = 1 /\ ~overflow <=> n = 3
    BY <1>1, <2>3
  <2>5. QED
    BY <2>1, <2>2, <2>4
<1>3. Event(byte) = key <=>
        /\ IsFinal(byte)
        /\ \/ Len(raw) = 2 /\ FinalKey(byte) = key
           \/ Len(raw) = 3 /\ byte = Tilde /\ ParameterKey(raw[3]) = key
  <2>1. key # "NONE"
    BY DEF Keys
  <2>2. CASE Len(raw) = 2
    BY <1>2, <2>1, <2>2 DEF Event, DecodeCsi
  <2>3. CASE Len(raw) = 3
    <3>1. csi # <<>> /\ Len(csi) = 1 /\ ~overflow /\ csi[1] = raw[3]
      BY <1>1, <1>2, <2>3
    <3>2. QED
      BY <2>1, <2>3, <3>1 DEF Event, DecodeCsi
  <2>4. CASE Len(raw) # 2 /\ Len(raw) # 3
    <3>1. overflow \/ (csi # <<>> /\ Len(csi) # 1)
      BY <1>2, <2>4
    <3>2. QED
      BY <2>1, <2>4, <3>1 DEF Event, DecodeCsi
  <2>5. QED
    BY <2>2, <2>3, <2>4
<1>4. FinalKey(byte) = key => IsFinal(byte)
  BY DEF FinalKey, IsFinal, Keys
<1>5. byte = Tilde => IsFinal(byte)
  BY DEF Tilde, IsFinal
<1>6. QED
  BY <1>1, <1>3, <1>4, <1>5, CompletesKey

\* A byte after ESC [ goes on with the sequence or ends it.
LEMMA CsiByte ==
  ASSUME IInv, NEW byte \in Int, byte # ESC, state = "CSI", Byte(byte)
  PROVE  IInv'
<1>1. /\ raw \in Seq(Int) /\ Len(raw) >= 2 /\ raw[1] = ESC /\ raw[2] = OpenBracket
      /\ \A i \in 3..Len(raw) : IsParameter(raw[i])
      /\ csi \in Seq(Int) /\ Len(raw) \in Nat /\ Len(csi) \in Nat
      /\ CsiMax \in Nat /\ CsiMax >= 1
      /\ Len(csi) = IF Len(raw) - 2 <= CsiMax THEN Len(raw) - 2 ELSE CsiMax
      /\ Len(raw) > 2 => csi[1] = raw[3]
  BY CsiMaxAssumption, LenProperties DEF IInv, Remembers
<1>0. overflow \in BOOLEAN /\ (overflow <=> Len(raw) - 2 > CsiMax)
  BY DEF IInv, Remembers
<1>2. raw # <<>> /\ Open(raw)
  BY <1>1 DEF Open
<1>3. raw' = Append(raw, byte) /\ swallowed' = TRUE /\ event' = Event(byte)
  BY <1>1, <1>2 DEF Byte, Extended, Consumes
<1>4. /\ raw' \in Seq(Int) /\ Len(raw') = Len(raw) + 1
      /\ raw'[Len(raw) + 1] = byte
      /\ \A i \in 1..Len(raw) : raw'[i] = raw[i]
  BY <1>1, <1>3, AppendProperties
<1>5. Correct'
  <2>1. EventMatchesBytes'
    BY <1>3, CsiEvent DEF EventMatchesBytes
  <2>2. raw' # <<>>
    BY <1>1, <1>4
  <2>3. QED
    BY <1>3, <2>1, <2>2 DEF Correct, SwallowsExactlySequences
<1>6. Remembers'
  <2>1. CASE IsParameter(byte)
    <3>1. /\ state' = "CSI"
          /\ IF Len(csi) < CsiMax THEN csi' = Append(csi, byte) /\ overflow' = overflow
             ELSE overflow' = TRUE /\ csi' = csi
      BY <2>1 DEF Byte, Feed, Escape, OpenCsi, Parameter, Finish
    <3>2. /\ raw'[1] = ESC /\ raw'[2] = OpenBracket /\ Len(raw') >= 2
          /\ \A i \in 3..Len(raw') : IsParameter(raw'[i])
      <4>1. ASSUME NEW i \in 3..Len(raw') PROVE IsParameter(raw'[i])
        <5>1. CASE i = Len(raw) + 1
          BY <1>4, <2>1, <5>1
        <5>2. CASE i # Len(raw) + 1
          <6>1. i \in 3..Len(raw)
            BY <1>1, <1>4, <5>2
          <6>2. QED
            BY <1>1, <1>4, <6>1
        <5>3. QED
          BY <5>1, <5>2
      <4>2. 1 \in 1..Len(raw) /\ 2 \in 1..Len(raw) /\ Len(raw') >= 2
        BY <1>1, <1>4
      <4>3. raw'[1] = ESC /\ raw'[2] = OpenBracket
        BY <1>1, <1>4, <4>2
      <4>4. QED
        BY <4>1, <4>2, <4>3
    <3>3. CASE Len(csi) < CsiMax
      <4>1. /\ csi' \in Seq(Int) /\ Len(csi') = Len(csi) + 1
            /\ csi'[Len(csi) + 1] = byte
            /\ \A i \in 1..Len(csi) : csi'[i] = csi[i]
        <5>1. csi \in Seq(Int) /\ csi' = Append(csi, byte)
          BY <1>1, <3>1, <3>3
        <5>2. QED
          BY <5>1, AppendProperties
      <4>2. Len(csi) = Len(raw) - 2
        BY <1>1, <3>3
      <4>3. csi'[1] = raw'[3]
        <5>1. CASE Len(csi) = 0
          <6>1. Len(raw) + 1 = 3 /\ Len(csi) + 1 = 1
            <7>1. Len(raw) \in Nat /\ Len(raw) - 2 = 0
              BY <1>1, <4>2, <5>1
            <7>2. Len(raw) = 2
              BY <7>1
            <7>3. QED
              BY <5>1, <7>2
          <6>2. csi'[1] = byte /\ raw'[3] = byte
            BY <1>4, <4>1, <6>1
          <6>3. QED
            BY <6>2
        <5>2. CASE Len(csi) > 0
          <6>1. 3 \in 1..Len(raw) /\ 1 \in 1..Len(csi) /\ Len(raw) > 2
            BY <1>1, <4>2, <5>2
          <6>2. csi'[1] = csi[1] /\ raw'[3] = raw[3]
            BY <1>4, <4>1, <6>1
          <6>3. QED
            BY <1>1, <6>1, <6>2
        <5>3. Len(csi) = 0 \/ Len(csi) > 0
          <6>1. Len(csi) \in Nat
            BY <1>1
          <6>2. QED
            BY <6>1
        <5>4. QED
          BY <5>1, <5>2, <5>3
      <4>4. overflow' \in BOOLEAN /\ (overflow' <=> Len(raw') - 2 > CsiMax)
        <5>1. overflow' = overflow /\ Len(raw) - 2 < CsiMax
          BY <1>1, <3>1, <3>3, <4>2
        <5>2. ~(Len(raw) - 2 > CsiMax) /\ ~(Len(raw') - 2 > CsiMax)
          <6>1. PICK n \in Nat : n = Len(raw) /\ Len(raw') = n + 1 /\ n - 2 < CsiMax
            BY <1>1, <1>4, <5>1
          <6>2. ~(n - 2 > CsiMax) /\ ~(n + 1 - 2 > CsiMax)
            BY <1>1, <6>1
          <6>3. QED
            BY <6>1, <6>2
        <5>3. QED
          BY <1>0, <5>1, <5>2
      <4>5. QED
        BY <1>1, <1>4, <3>1, <3>2, <3>3, <4>1, <4>2, <4>3, <4>4 DEF Remembers
    <3>4. CASE ~(Len(csi) < CsiMax)
      <4>1. csi' = csi /\ overflow' = TRUE /\ Len(csi) = CsiMax /\ Len(raw) - 2 >= CsiMax
        BY <1>1, <3>1, <3>4
      <4>2. csi'[1] = raw'[3]
        <5>1. 3 \in 1..Len(raw) /\ Len(raw) > 2
          BY <1>1, <4>1
        <5>2. QED
          BY <1>1, <1>4, <4>1, <5>1
      <4>3. /\ Len(raw') - 2 > CsiMax /\ ~(Len(raw') - 2 <= CsiMax)
            /\ Len(csi') = CsiMax /\ csi' \in Seq(Int)
        <5>1. Len(csi') = CsiMax /\ csi' \in Seq(Int)
          BY <1>1, <4>1
        <5>2. PICK n \in Nat : n = Len(raw) /\ Len(raw') = n + 1 /\ n - 2 >= CsiMax
          BY <1>1, <1>4, <4>1
        <5>3. n + 1 - 2 > CsiMax /\ ~(n + 1 - 2 <= CsiMax)
          BY <1>1, <5>2, CsiMaxAssumption, SMTT(20)
        <5>4. QED
          BY <5>1, <5>2, <5>3
      <4>4. QED
        BY <1>4, <3>1, <3>2, <4>1, <4>2, <4>3 DEF Remembers
    <3>5. QED
      BY <3>3, <3>4
  <2>2. CASE ~IsParameter(byte)
    <3>1. state' = "IDLE" /\ csi' = <<>> /\ overflow' = FALSE
      BY <2>2 DEF Byte, Feed, Escape, OpenCsi, Parameter, Finish, Reset
    <3>2. ~Open(raw')
      <4>1. Len(raw) + 1 \in 3..Len(raw')
        BY <1>1, <1>4
      <4>2. QED
        BY <1>4, <2>2, <4>1 DEF Open
    <3>3. QED
      BY <3>1, <3>2 DEF Remembers
  <2>3. QED
    BY <2>1, <2>2
<1>7. QED
  BY <1>5, <1>6 DEF IInv

\* A byte preserves the invariant in every state.
LEMMA ByteIInv == ASSUME IInv, NEW byte \in Int, Byte(byte) PROVE IInv'
BY EscapeByte, IdleByte, EscapedByte, CsiByte DEF IInv, Remembers

\* A record leaves bytes in the queue, from the first one on.
LEMMA RecordQueue ==
  ASSUME QueueOK, NEW record \in Record, ReadRecord(record)
  PROVE  QueueOK'
<1>1. /\ record.key = "NONE" \/ record.key \in Keys
      /\ record.unit \in Int /\ high \in Int
  <2>1. record.key \in KeyCode /\ record.unit \in Unit
    BY RecordAssumption
  <2>2. /\ \A key \in KeyCode : key = "NONE" \/ key \in Keys
        /\ \A unit \in Unit : unit \in Int
    BY DEF KeyCode, Unit
  <2>3. high \in Int
    BY DEF QueueOK
  <2>4. QED
    BY <2>1, <2>2, <2>3, Zenon
<1>2. \A key \in Keys : KeyBytes(key) \in Seq(Int)
  BY DEF Keys, KeyBytes, ESC
<1>3. ASSUME NEW c \in Int PROVE Utf8(c) \in Seq(Int)
  <2>1. /\ Trailing(c, 1) \in Int /\ Trailing(c, 64) \in Int /\ Trailing(c, 4096) \in Int
        /\ 192 + (c \div 64) \in Int /\ 224 + (c \div 4096) \in Int
        /\ 240 + (c \div 262144) \in Int
    BY DEF Trailing
  <2>2. /\ <<c>> \in Seq(Int)
        /\ <<192 + (c \div 64), Trailing(c, 1)>> \in Seq(Int)
        /\ <<224 + (c \div 4096), Trailing(c, 64), Trailing(c, 1)>> \in Seq(Int)
        /\ <<240 + (c \div 262144), Trailing(c, 4096), Trailing(c, 64),
              Trailing(c, 1)>> \in Seq(Int)
    BY <2>1
  <2>3. CASE c < 128
    BY <2>2, <2>3 DEF Utf8
  <2>4. CASE ~(c < 128) /\ c < 2048
    BY <2>2, <2>4 DEF Utf8
  <2>5. CASE ~(c < 128) /\ ~(c < 2048) /\ c < 65536
    BY <2>2, <2>5 DEF Utf8
  <2>6. CASE ~(c < 128) /\ ~(c < 2048) /\ ~(c < 65536)
    BY <2>2, <2>6 DEF Utf8
  <2>7. QED
    BY <2>3, <2>4, <2>5, <2>6
<1>4. CodePoint(high, record.unit) \in Int
  <2>1. \A unit \in Int : CodePoint(high, unit) \in Int
    BY <1>1 DEF CodePoint
  <2>2. QED
    BY <1>1, <2>1, Zenon
<1>5. RecordBytes(record) \in Seq(Int)
  <2>1. \/ RecordBytes(record) = <<>>
        \/ record.key \in Keys /\ RecordBytes(record) = KeyBytes(record.key)
        \/ RecordBytes(record) = Utf8(CodePoint(high, record.unit))
        \/ RecordBytes(record) = Utf8(record.unit)
    BY <1>1, Zenon DEF RecordBytes
  <2>2. <<>> \in Seq(Int)
    OBVIOUS
  <2>3. QED
    BY <1>1, <1>2, <1>3, <1>4, <2>1, <2>2, Zenon
<1>6. high' \in Int
  <2>1. high' = high \/ high' = record.unit \/ high' = 0
    BY Zenon DEF ReadRecord, NextHigh
  <2>2. 0 \in Int
    OBVIOUS
  <2>3. QED
    BY <1>1, <2>1, <2>2, Zenon
<1>7. CASE RecordBytes(record) = <<>>
  BY <1>6, <1>7 DEF ReadRecord, QueueOK
<1>8. CASE RecordBytes(record) # <<>>
  <2>1. queue' = RecordBytes(record) /\ position' = 0
    BY <1>8 DEF ReadRecord
  <2>2. Len(queue') \in Nat /\ Len(queue') # 0
    BY <1>5, <1>8, <2>1, EmptySeq, LenProperties
  <2>3. QED
    BY <1>5, <1>6, <2>1, <2>2 DEF QueueOK
<1>9. QED
  BY <1>7, <1>8

\* Every step of the program preserves both: bytes come from the stream or from
\* the queue, and the other steps leave the decoder alone or reset it.
LEMMA StepIInv == IInv /\ QueueOK /\ [HostNext]_hostVars => IInv' /\ QueueOK'
<1> SUFFICES ASSUME IInv, QueueOK, [HostNext]_hostVars PROVE IInv' /\ QueueOK'
  OBVIOUS
<1>1. EmptyQueue => QueueOK'
  BY DEF EmptyQueue, QueueOK
<1>2. UNCHANGED keyVars => IInv'
  BY SMTT(20) DEF keyVars, decoder, IInv, Remembers, Correct, Open, EventMatchesBytes,
         SwallowsExactlySequences
<1>3. UNCHANGED portQueue => QueueOK'
  BY DEF portQueue, QueueOK
<1>4. CASE OpenTerminal \/ OpenFails \/ StartShell \/ StartFails
  BY <1>1, <1>2, <1>3, <1>4 DEF OpenTerminal, OpenFails, StartShell, StartFails,
                                CloseTerminal
<1>5. CASE RunAgain \/ ResetBetweenBytes
  BY <1>1, <1>3, <1>5, FreshIInv DEF RunAgain, ResetBetweenBytes
<1>6. ASSUME NEW result \in {0, 8}, Leave(result) PROVE IInv' /\ QueueOK'
  BY <1>1, <1>6, FreshIInv DEF Leave, CloseTerminal
<1>7. ASSUME NEW record \in Record, ReadRecord(record) PROVE IInv' /\ QueueOK'
  BY <1>2, <1>7, RecordQueue DEF ReadRecord
<1>8. ASSUME NEW byte \in InputByte, ReadStream(byte) PROVE IInv' /\ QueueOK'
  <2>1. byte \in Int
    BY InputByteAssumption
  <2>2. QED
    BY <1>3, <1>8, <2>1, ByteIInv DEF ReadStream
<1>9. CASE TakeQueuedByte
  <2>1. /\ queue \in Seq(Int) /\ queue # <<>> /\ position \in Nat
        /\ position < Len(queue) /\ Len(queue) \in Nat
    BY <1>9, LenProperties DEF TakeQueuedByte, QueueOK
  <2>2. queue[position + 1] \in Int
    <3>1. position + 1 \in 1..Len(queue)
      BY <2>1
    <3>2. QED
      BY <2>1, <3>1, ElementOfSeq
  <2>3. IInv'
    BY <1>9, <2>2, ByteIInv DEF TakeQueuedByte, FeedByte
  <2>4. QueueOK'
    <3>1. high' = high /\ Advance
      BY <1>9 DEF TakeQueuedByte
    <3>2. CASE position + 1 < Len(queue)
      BY <2>1, <3>1, <3>2 DEF Advance, QueueOK
    <3>3. CASE ~(position + 1 < Len(queue))
      <4>1. position' = 0 /\ (queue' = queue \/ queue' = <<>>)
        BY <3>1, <3>3 DEF Advance
      <4>2. CASE queue' = queue
        BY <2>1, <3>1, <4>1, <4>2 DEF QueueOK
      <4>3. CASE queue' = <<>>
        BY <3>1, <4>1, <4>3 DEF QueueOK
      <4>4. QED
        BY <4>1, <4>2, <4>3
    <3>4. QED
      BY <3>2, <3>3
  <2>5. QED
    BY <2>3, <2>4
<1>10. CASE UNCHANGED hostVars
  BY <1>2, <1>3, <1>10 DEF hostVars
<1>11. QED
  BY <1>4, <1>5, <1>6, <1>7, <1>8, <1>9, <1>10 DEF HostNext

-----------------------------------------------------------------------------
\* The program starts with a fresh decoder and an empty queue.
LEMMA InitIInv == HostInit => IInv /\ QueueOK
BY FreshIInv DEF HostInit, QueueOK

\* For every stream of bytes and every sequence of console records, a key is
\* decoded exactly when the bytes since the last ESC spell it.
THEOREM HostEventMatchesBytes == HostSpec => []EventMatchesBytes
<1>1. IInv => EventMatchesBytes
  BY DEF IInv, Correct
<1>2. QED
  BY <1>1, InitIInv, StepIInv, PTL DEF HostSpec

\* And the editor is denied exactly the bytes that belong to a sequence.
THEOREM HostSwallowsExactly == HostSpec => []SwallowsExactlySequences
<1>1. IInv => SwallowsExactlySequences
  BY DEF IInv, Correct
<1>2. QED
  BY <1>1, InitIInv, StepIInv, PTL DEF HostSpec

-----------------------------------------------------------------------------
\* While the program has the terminal, each mode either was never touched or is
\* saved as it was found.
InHand(mode, saved, before) == saved = before \/ (saved = "NONE" /\ mode = before)

\* Where the modes are at each phase of main(): as found before the terminal is
\* opened, in hand until it is closed, as the property says after that. A mode
\* has a name of its own, or "nothing saved" could be taken for it.
TerminalKept ==
  /\ phase \in {"begun", "opened", "running", "ended"}
  /\ inputMode # "NONE" /\ outputMode # "NONE"
  /\ found[1] # "NONE" /\ found[2] # "NONE"
  /\ phase = "begun" => found = modes /\ refused = {}
  /\ phase \in {"opened", "running"} =>
       InHand(inputMode, savedInput, found[1]) /\ InHand(outputMode, savedOutput, found[2])
  /\ TerminalLeftAsFound

\* Closing puts back every mode in hand that the system lets it put back.
LEMMA CloseKeepsTerminal ==
  ASSUME NEW inputOk \in BOOLEAN, NEW outputOk \in BOOLEAN,
         CloseTerminal(inputOk, outputOk), TerminalKept, phase \in {"opened", "running"}
  PROVE  /\ inputMode' = found[1] \/ "input" \in refused'
         /\ outputMode' = found[2] \/ "output" \in refused'
         /\ inputMode' # "NONE" /\ outputMode' # "NONE"
<1>1. /\ InHand(inputMode, savedInput, found[1])
      /\ InHand(outputMode, savedOutput, found[2])
      /\ found[1] # "NONE" /\ found[2] # "NONE"
      /\ inputMode # "NONE" /\ outputMode # "NONE"
  BY DEF TerminalKept
<1>2. (inputMode' = found[1] \/ "input" \in refused') /\ inputMode' # "NONE"
  BY <1>1 DEF CloseTerminal, InHand
<1>3. (outputMode' = found[2] \/ "output" \in refused') /\ outputMode' # "NONE"
  BY <1>1 DEF CloseTerminal, InHand
<1>4. QED
  BY <1>2, <1>3

\* Only opening and closing touch the modes, and only a new run what is found.
LEMMA StepTerminal == TerminalKept /\ [HostNext]_hostVars => TerminalKept'
<1> SUFFICES ASSUME TerminalKept, [HostNext]_hostVars PROVE TerminalKept'
  OBVIOUS
<1> DEFINE terminal == <<phase, code, modes, savedInput, savedOutput, found, refused>>
<1>1. CASE OpenTerminal
  <2>1. PICK input \in BOOLEAN, output \in BOOLEAN :
          /\ savedInput' = IF input THEN inputMode ELSE "NONE"
          /\ inputMode' = IF input THEN "raw" ELSE inputMode
          /\ savedOutput' = IF output THEN outputMode ELSE "NONE"
          /\ outputMode' \in IF output THEN {"vt", outputMode} ELSE {outputMode}
    BY <1>1 DEF OpenTerminal
  <2>2. found = <<inputMode, outputMode>> /\ found' = found /\ phase' = "opened"
    BY <1>1 DEF OpenTerminal, TerminalKept, modes
  <2>3. QED
    BY <2>1, <2>2 DEF TerminalKept, TerminalLeftAsFound, InHand
<1>2. CASE OpenFails
  <2>1. found = modes /\ refused = {}
    BY <1>2 DEF OpenFails, TerminalKept
  <2>2. QED
    BY <1>2, <2>1 DEF OpenFails, TerminalKept, TerminalLeftAsFound, modes
<1>3. CASE StartShell
  BY <1>3 DEF StartShell, TerminalKept, TerminalLeftAsFound, modes
<1>4. CASE StartFails
  <2>1. PICK inputOk \in BOOLEAN, outputOk \in BOOLEAN : CloseTerminal(inputOk, outputOk)
    BY <1>4 DEF StartFails
  <2>2. phase = "opened" /\ phase' = "ended" /\ code' = 4 /\ found' = found
    BY <1>4 DEF StartFails
  <2>3. QED
    BY <2>1, <2>2, CloseKeepsTerminal DEF TerminalKept, TerminalLeftAsFound
<1>5. ASSUME NEW result \in {0, 8}, Leave(result) PROVE TerminalKept'
  <2>1. PICK inputOk \in BOOLEAN, outputOk \in BOOLEAN : CloseTerminal(inputOk, outputOk)
    BY <1>5 DEF Leave
  <2>2. phase = "running" /\ phase' = "ended" /\ found' = found
    BY <1>5 DEF Leave
  <2>3. refused' # {} => code' = 7
    BY <1>5 DEF Leave
  <2>4. QED
    BY <2>1, <2>2, <2>3, CloseKeepsTerminal DEF TerminalKept, TerminalLeftAsFound
<1>6. CASE RunAgain
  BY <1>6 DEF RunAgain, TerminalKept, TerminalLeftAsFound, modes
<1>7. ASSUME UNCHANGED terminal PROVE TerminalKept'
  BY <1>7 DEF TerminalKept, TerminalLeftAsFound, InHand, modes
<1>8. ASSUME NEW record \in Record, ReadRecord(record) PROVE TerminalKept'
  BY <1>7, <1>8 DEF ReadRecord
<1>9. ASSUME NEW byte \in InputByte, ReadStream(byte) PROVE TerminalKept'
  BY <1>7, <1>9 DEF ReadStream
<1>10. CASE TakeQueuedByte \/ ResetBetweenBytes
  BY <1>7, <1>10 DEF TakeQueuedByte, ResetBetweenBytes
<1>11. CASE UNCHANGED hostVars
  BY <1>7, <1>11 DEF hostVars
<1>12. QED
  BY <1>1, <1>2, <1>3, <1>4, <1>5, <1>6, <1>8, <1>9, <1>10, <1>11 DEF HostNext

\* However the program ends, in every run on the terminal, each mode is as that
\* run found it or the system refused to restore it, and main() says so.
THEOREM HostTerminalLeftAsFound == HostSpec => []TerminalLeftAsFound
<1>1. HostInit => TerminalKept
  BY DEF HostInit, TerminalKept, TerminalLeftAsFound, modes
<1>2. TerminalKept => TerminalLeftAsFound
  BY DEF TerminalKept
<1>3. QED
  BY <1>1, <1>2, StepTerminal, PTL DEF HostSpec

-----------------------------------------------------------------------------
\* What reaches the editor: bytes and keys.
Out == Int \cup Keys

\* Between keys the decoder is outside a sequence, or just after an escape.
Quiet == state \in {"IDLE", "ESCAPE"}

\* Where the decoder is after p bytes of a key.
AtKey(p) ==
  CASE p = 0 -> Quiet
    [] p = 1 -> state = "ESCAPE"
    [] p = 2 -> state = "CSI" /\ csi = <<>> /\ overflow = FALSE
    [] OTHER -> state = "CSI" /\ csi = <<51>> /\ overflow = FALSE

\* A byte the decoder lets through.
Plain(byte) == state = "IDLE" \/ (state = "ESCAPE" /\ byte # OpenBracket)

\* Bytes of a character: no escape.
IsText(bytes) ==
  bytes \in Seq(Int) /\ bytes # <<>> /\ \A i \in 1..Len(bytes) : bytes[i] # ESC

\* An escape was typed, and nothing after it reached the editor.
Escaped ==
  \E i \in DOMAIN pressed :
    Typed(i, ESC) /\ \A k \in (i + 1)..Len(pressed) : Meaning(k) = <<>>

\* What the records read so far ask for.
Wanted == FlattenSeq([i \in DOMAIN pressed |-> Pressed(i)])

\* What the queue still has to give: a key for each repeat that is left, nothing
\* for an escape, or the rest of a character and its repeats.
QueuedKey(key) ==
  queue = KeyBytes(key) /\ AtKey(position) /\ Wanted = got \o Copies(<<key>>, repeat)

QueuedEscape == queue = <<ESC>> /\ Quiet /\ Escaped /\ Wanted = got

QueuedText ==
  /\ IsText(queue) /\ Plain(queue[position + 1])
  /\ Wanted = got \o (SubSeq(queue, position + 1, Len(queue)) \o Copies(queue, repeat - 1))

\* A console read on: what is asked for is what was got and what is queued.
Delivered ==
  /\ pressed \in Seq(Record) /\ got \in Seq(Out)
  /\ \A i \in DOMAIN pressed : Meaning(i) \in Seq(Out)
  /\ high = Waiting(Len(pressed) + 1)
  /\ IF queue = <<>> THEN Quiet /\ (state = "ESCAPE" => Escaped) /\ Wanted = got
     ELSE /\ repeat \in Nat \ {0}
          /\ (\E key \in Keys : QueuedKey(key)) \/ QueuedEscape \/ QueuedText

\* A byte of a character reaches the editor.
LEMMA TextFed ==
  ASSUME IInv, NEW byte \in Int, byte # ESC, Plain(byte), Byte(byte)
  PROVE  event' = "NONE" /\ ~swallowed' /\ state' = "IDLE"
<1>1. state = "IDLE" \/ (state = "ESCAPE" /\ byte # OpenBracket)
  BY DEF Plain
<1>2. event' = "NONE" /\ ~swallowed'
  BY <1>1 DEF Byte, Event, Consumes
<1>3. state' = "IDLE"
  BY <1>1 DEF Byte, Feed, Escape, OpenCsi, Parameter, Finish, Reset, decoder
<1> QED
  BY <1>2, <1>3

\* An escape does not.
LEMMA EscapeFed ==
  ASSUME IInv, Byte(ESC)
  PROVE  event' = "NONE" /\ swallowed' /\ state' = "ESCAPE"
<1>1. event' = "NONE" /\ swallowed'
  BY DEF Byte, Event, Consumes, IsFinal, ESC
<1>2. state' = "ESCAPE"
  BY DEF Byte, Feed, Escape, OpenCsi, Parameter, Finish, IsParameter, ESC, OpenBracket,
         IInv, Remembers
<1> QED
  BY <1>1, <1>2

\* The bytes of a key go through the decoder one by one and come out as the key.
LEMMA KeyFed ==
  ASSUME IInv, NEW key \in Keys, NEW p \in Nat, p < Len(KeyBytes(key)), AtKey(p),
         Byte(KeyBytes(key)[p + 1])
  PROVE  IF p + 1 < Len(KeyBytes(key)) THEN event' = "NONE" /\ swallowed' /\ AtKey(p + 1)'
         ELSE event' = key /\ state' = "IDLE"
<1> DEFINE byte == KeyBytes(key)[p + 1]
           bytes == KeyBytes(key)
<1>1. /\ Len(bytes) \in {3, 4} /\ bytes[1] = ESC /\ bytes[2] = OpenBracket
      /\ \/ Len(bytes) = 3 /\ bytes[3] \in 64..126 /\ FinalKey(bytes[3]) = key
         \/ Len(bytes) = 4 /\ bytes[3] = 51 /\ bytes[4] = Tilde /\ key = "DELETE"
  <2>1. CASE key = "DELETE"
    <3>1. bytes = <<27, 91, 51, 126>>
      BY <2>1 DEF KeyBytes, ESC
    <3>2. /\ Len(bytes) = 4
          /\ bytes[1] = 27 /\ bytes[2] = 91 /\ bytes[3] = 51 /\ bytes[4] = 126
      BY <3>1
    <3> QED
      BY <2>1, <3>2 DEF OpenBracket, Tilde, ESC
  <2>2. CASE key # "DELETE"
    <3>1. PICK x \in {65, 66, 67, 68, 70, 72} : bytes = <<ESC, 91, x>> /\ FinalKey(x) = key
      BY <2>2, SMTT(30) DEF KeyBytes, Keys, FinalKey
    <3> QED
      BY <3>1 DEF OpenBracket, ESC
  <2> QED
    BY <2>1, <2>2
<1> HIDE DEF bytes
<1>2. byte = bytes[p + 1] /\ p \in 0..3 /\ p < Len(bytes)
  BY <1>1 DEF bytes
<1>3. CASE p = 0
  <2>1. byte = ESC /\ Byte(ESC)
    BY <1>1, <1>2, <1>3
  <2>2. event' = "NONE" /\ swallowed' /\ state' = "ESCAPE"
    BY <2>1, EscapeFed
  <2>3. AtKey(p + 1)'
    BY <1>3, <2>2 DEF AtKey
  <2>4. p + 1 < Len(bytes)
    BY <1>1, <1>3
  <2> QED
    BY <2>2, <2>3, <2>4 DEF bytes
<1>4. CASE p = 1
  <2>1. state = "ESCAPE" /\ byte = OpenBracket /\ byte # ESC
    BY <1>1, <1>2, <1>4 DEF AtKey, ESC, OpenBracket
  <2>2. event' = "NONE" /\ swallowed'
    BY <2>1 DEF Byte, Event, Consumes
  <2>3. state' = "CSI" /\ csi' = <<>> /\ overflow' = FALSE
    BY <2>1 DEF Byte, Feed, Escape, OpenCsi, Parameter, Finish
  <2>4. AtKey(p + 1)'
    BY <1>4, <2>3 DEF AtKey
  <2>5. p + 1 < Len(bytes)
    BY <1>1, <1>4
  <2> QED
    BY <2>2, <2>4, <2>5 DEF bytes
<1>5. CASE p = 2 /\ Len(bytes) = 3
  <2>1. state = "CSI" /\ csi = <<>> /\ overflow = FALSE
    BY <1>5 DEF AtKey
  <2>2. byte \in 64..126 /\ byte # ESC /\ FinalKey(byte) = key
    <3> HIDE DEF byte
    <3>1. byte = bytes[3] /\ bytes[3] \in 64..126 /\ FinalKey(bytes[3]) = key
      BY <1>1, <1>2, <1>5
    <3>2. byte \in 64..126 /\ FinalKey(byte) = key
      BY <3>1, Zenon
    <3> QED
      BY <3>2 DEF ESC
  <2>3. event' = key
    BY <2>1, <2>2 DEF Byte, Event, DecodeCsi, IsFinal
  <2>4. state' = "IDLE"
    <3>1. ~IsParameter(byte)
      <4> HIDE DEF byte
      <4> QED
        BY <2>2 DEF IsParameter
    <3> QED
      BY <2>1, <2>2, <3>1 DEF Byte, Feed, Escape, OpenCsi, Parameter, Finish, Reset
  <2> QED
    BY <1>5, <2>3, <2>4 DEF bytes
<1>6. CASE p = 2 /\ Len(bytes) = 4
  <2>1. state = "CSI" /\ csi = <<>> /\ overflow = FALSE
    BY <1>6 DEF AtKey
  <2>2. byte = 51 /\ IsParameter(byte) /\ ~IsFinal(byte) /\ byte # ESC
    <3>1. byte = 51
      BY <1>1, <1>2, <1>6
    <3> HIDE DEF byte
    <3> QED
      BY <3>1 DEF IsParameter, IsFinal, ESC
  <2>3. event' = "NONE" /\ swallowed'
    BY <2>1, <2>2 DEF Byte, Event, Consumes
  <2>4. state' = "CSI" /\ csi' = <<51>> /\ overflow' = FALSE
    <3>1. 0 < CsiMax
      BY CsiMaxAssumption
    <3>2. Len(csi) = 0 /\ Append(csi, 51) = <<51>>
      BY <2>1
    <3> QED
      BY <2>1, <2>2, <3>1, <3>2 DEF Byte, Feed, Escape, OpenCsi, Parameter, Finish
  <2>5. AtKey(p + 1)'
    BY <1>6, <2>4 DEF AtKey
  <2> QED
    BY <1>6, <2>3, <2>5 DEF bytes
<1>7. CASE p = 3
  <2>1. /\ state = "CSI" /\ csi = <<51>> /\ overflow = FALSE
        /\ Len(bytes) = 4 /\ key = "DELETE" /\ byte = Tilde
    BY <1>1, <1>2, <1>7 DEF AtKey
  <2>2. IsFinal(byte) /\ ~IsParameter(byte) /\ byte # ESC
    <3> HIDE DEF byte
    <3> QED
      BY <2>1 DEF IsFinal, IsParameter, Tilde, ESC
  <2>3. csi # <<>> /\ Len(csi) = 1 /\ csi[1] = 51
    BY <2>1
  <2>4. event' = key
    <3>1. ParameterKey(51) = "DELETE"
      BY DEF ParameterKey
    <3> QED
      BY <2>1, <2>2, <2>3, <3>1 DEF Byte, Event, DecodeCsi
  <2>5. state' = "IDLE"
    BY <2>1, <2>2 DEF Byte, Feed, Escape, OpenCsi, Parameter, Finish, Reset
  <2> QED
    BY <1>7, <2>1, <2>4, <2>5 DEF bytes
<1> QED
  BY <1>1, <1>2, <1>3, <1>4, <1>5, <1>6, <1>7

-----------------------------------------------------------------------------
\* A character is one byte, itself, or several from 128 on.
LEMMA Utf8Bytes ==
  ASSUME NEW c \in Nat
  PROVE  /\ Utf8(c) \in Seq(Int) /\ Utf8(c) # <<>>
         /\ c < 128 => Utf8(c) = <<c>>
         /\ c >= 128 => \A i \in 1..Len(Utf8(c)) : Utf8(c)[i] >= 128
<1>1. \A low \in {1, 64, 4096} : Trailing(c, low) \in Int /\ Trailing(c, low) >= 128
  BY DEF Trailing
<1>2. /\ 192 + (c \div 64) \in Int /\ 192 + (c \div 64) >= 128
      /\ 224 + (c \div 4096) \in Int /\ 224 + (c \div 4096) >= 128
      /\ 240 + (c \div 262144) \in Int /\ 240 + (c \div 262144) >= 128
  OBVIOUS
<1> DEFINE Large(bytes) ==
             bytes \in Seq(Int) /\ bytes # <<>> /\ \A i \in 1..Len(bytes) : bytes[i] >= 128
<1>3. ASSUME NEW x \in Int, x >= 128, NEW y \in Int, y >= 128
      PROVE  Large(<<x, y>>)
  BY <1>3
<1>4. ASSUME NEW x \in Int, x >= 128, NEW y \in Int, y >= 128, NEW z \in Int, z >= 128
      PROVE  Large(<<x, y, z>>)
  BY <1>4
<1>5. ASSUME NEW x \in Int, x >= 128, NEW y \in Int, y >= 128, NEW z \in Int, z >= 128,
             NEW w \in Int, w >= 128
      PROVE  Large(<<x, y, z, w>>)
  BY <1>5
<1>6. CASE c < 128
  BY <1>6 DEF Utf8
<1>7. CASE c >= 128
  <2> HIDE DEF Large
  <2>1. ~(c < 128)
    BY <1>7
  <2>2. Large(Utf8(c))
    BY <1>1, <1>2, <1>3, <1>4, <1>5, <2>1 DEF Utf8
  <2> QED
    BY <1>7, <2>1, <2>2 DEF Large
<1> QED
  BY <1>6, <1>7

\* A UTF-16 unit is a number.
LEMMA UnitIsNat == \A x \in Unit : x \in Nat
BY SMT DEF Unit

\* What waits is the first half of a pair, or nothing.
LEMMA HalfWaits == \A i : Waiting(i) = 0 \/ IsHigh(Waiting(i))
BY DEF Waiting

\* More than half a character is no byte.
LEMMA PairIsLarge ==
  ASSUME NEW first, IsHigh(first), NEW second, IsLow(second)
  PROVE  CodePoint(first, second) \in Nat /\ CodePoint(first, second) >= 128
BY DEF CodePoint, IsHigh, IsLow

\* While no record is read, nothing else is meant or asked for.
LEMMA NoRecordRead ==
  ASSUME pressed' = pressed
  PROVE  /\ \A i : Waiting(i)' = Waiting(i) /\ Meaning(i)' = Meaning(i)
         /\ Wanted' = Wanted /\ Escaped' = Escaped /\ EscapeBracket' = EscapeBracket
<1>1. \A i : CharactersBefore(i)' = CharactersBefore(i)
  BY DEF CharactersBefore
<1>2. \A i : Waiting(i)' = Waiting(i)
  BY <1>1 DEF Waiting
<1>3. \A i : Meaning(i)' = Meaning(i)
  BY <1>2, Zenon DEF Meaning
<1>4. \A i : Pressed(i)' = Pressed(i)
  BY <1>3 DEF Pressed
<1>5. Wanted' = Wanted
  BY <1>4 DEF Wanted
<1>6. Escaped' = Escaped /\ EscapeBracket' = EscapeBracket
  BY <1>3 DEF Escaped, EscapeBracket, Typed
<1> QED
  BY <1>2, <1>3, <1>5, <1>6

\* One more record leaves what those before it mean, and what waits for it.
LEMMA RecordRead ==
  ASSUME pressed \in Seq(Record), NEW record \in Record, pressed' = Append(pressed, record),
         NEW n, n = Len(pressed)
  PROVE  /\ n \in Nat /\ pressed' \in Seq(Record) /\ Len(pressed') = n + 1
         /\ pressed'[n + 1] = record /\ \A i \in 1..n : pressed'[i] = pressed[i]
         /\ \A i \in 1..(n + 1) : Waiting(i)' = Waiting(i)
         /\ \A i \in 1..n : Meaning(i)' = Meaning(i) /\ Pressed(i)' = Pressed(i)
         /\ high = Waiting(n + 1) => Waiting(n + 2)' = NextHigh(record)
<1>1. /\ n \in Nat /\ pressed' \in Seq(Record) /\ Len(pressed') = n + 1
      /\ pressed'[n + 1] = record /\ \A i \in 1..n : pressed'[i] = pressed[i]
  BY AppendProperties, LenProperties
<1>2. ASSUME NEW i \in 1..(n + 1)
      PROVE  CharactersBefore(i)' = CharactersBefore(i) /\ CharactersBefore(i) \subseteq 1..n
  BY <1>1 DEF CharactersBefore
<1>3. ASSUME NEW S \in SUBSET (1..n), S # {}
      PROVE  pressed'[Max(S)] = pressed[Max(S)]
  <2>1. S \in SUBSET (0..n)
    BY <1>1
  <2>2. Max(S) \in S
    BY <1>1, <1>3, <2>1, LastAndFirst
  <2> QED
    BY <1>1, <2>2
<1>4. ASSUME NEW i \in 1..(n + 1) PROVE Waiting(i)' = Waiting(i)
  BY <1>2, <1>3 DEF Waiting
<1>5. ASSUME NEW i \in 1..n PROVE Meaning(i)' = Meaning(i) /\ Pressed(i)' = Pressed(i)
  <2>1. Waiting(i)' = Waiting(i) /\ pressed'[i] = pressed[i]
    BY <1>1, <1>4
  <2>2. Meaning(i)' = Meaning(i)
    BY <2>1, Zenon DEF Meaning
  <2> QED
    BY <2>1, <2>2 DEF Pressed
<1>6. ASSUME high = Waiting(n + 1) PROVE Waiting(n + 2)' = NextHigh(record)
  <2> DEFINE before == CharactersBefore(n + 1)
             after == CharactersBefore(n + 2)'
  <2>1. before \subseteq 1..n /\ CharactersBefore(n + 1)' = before
    BY <1>1, <1>2
  <2>2. CASE record.down /\ record.key = "NONE"
    <3>1. after \in SUBSET (0..(n + 1)) /\ n + 1 \in after
      BY <1>1, <2>2 DEF CharactersBefore
    <3>2. ASSUME NEW S \in SUBSET (0..(n + 1)), n + 1 \in S PROVE Max(S) = n + 1
      <4>1. n + 1 \in Nat /\ S # {}
        BY <1>1, <3>2
      <4>2. Max(S) \in S /\ \A y \in S : y <= Max(S)
        BY <3>2, <4>1, LastAndFirst
      <4>3. Max(S) \in 0..(n + 1) /\ n + 1 <= Max(S)
        BY <3>2, <4>2
      <4> QED
        BY <1>1, <4>3
    <3>3. Max(after) = n + 1
      BY <3>1, <3>2
    <3>4. Waiting(n + 2)' = IF IsHigh(record.unit) THEN record.unit ELSE 0
      BY <1>1, <3>1, <3>3 DEF Waiting
    <3> QED
      BY <2>2, <3>4 DEF NextHigh
  <2>3. CASE ~(record.down /\ record.key = "NONE")
    <3>1. after = before
      BY <1>1, <2>1, <2>3 DEF CharactersBefore
    <3>2. Waiting(n + 2)' = Waiting(n + 1)
      BY <1>3, <2>1, <3>1 DEF Waiting
    <3> QED
      BY <1>6, <2>3, <3>2 DEF NextHigh
  <2> QED
    BY <2>2, <2>3
<1> QED
  BY <1>1, <1>4, <1>5, <1>6

\* What a record puts in the queue is what it means: the bytes of its key, of an
\* escape, or of a character.
LEMMA RecordMeaning ==
  ASSUME pressed \in Seq(Record), NEW record \in Record, pressed' = Append(pressed, record),
         NEW n, n = Len(pressed), high = Waiting(n + 1)
  PROVE  /\ Meaning(n + 1)' \in Seq(Out)
         /\ \/ RecordBytes(record) = <<>> /\ Meaning(n + 1)' = <<>>
            \/ \E key \in Keys :
                 RecordBytes(record) = KeyBytes(key) /\ Meaning(n + 1)' = <<key>>
            \/ RecordBytes(record) = <<ESC>> /\ Meaning(n + 1)' = <<>> /\ Typed(n + 1, ESC)'
            \/ /\ IsText(RecordBytes(record)) /\ Meaning(n + 1)' = RecordBytes(record)
               /\ RecordBytes(record)[1] = OpenBracket => Typed(n + 1, OpenBracket)'
<1>1. /\ n \in Nat /\ pressed'[n + 1] = record /\ Waiting(n + 1)' = high
  <2>1. n \in Nat /\ pressed'[n + 1] = record /\ \A i \in 1..(n + 1) : Waiting(i)' = Waiting(i)
    BY RecordRead
  <2> QED
    BY <2>1
<1>2. /\ record.down \in BOOLEAN /\ record.unit \in Nat
      /\ record.key = "NONE" \/ record.key \in Keys
  <2>1. record.down \in BOOLEAN /\ record.key \in KeyCode /\ record.unit \in Unit
    BY RecordAssumption
  <2> QED
    BY <2>1, UnitIsNat, Zenon DEF KeyCode
<1>3. Meaning(n + 1)' =
        CASE ~record.down -> <<>>
          [] record.down /\ record.key # "NONE" -> <<record.key>>
          [] OTHER -> IF IsLow(record.unit)
                      THEN IF high = 0 THEN <<>> ELSE Utf8(CodePoint(high, record.unit))
                      ELSE IF IsHigh(record.unit) \/ record.unit \in {0, ESC} THEN <<>>
                      ELSE Utf8(record.unit)
  BY <1>1, Zenon DEF Meaning
<1>4. <<>> \in Seq(Out) /\ \A key \in Keys : <<key>> \in Seq(Out)
  BY DEF Out
<1>5. \A bytes \in Seq(Int) : bytes \in Seq(Out)
  BY DEF Out
<1>6. CASE ~record.down
  BY <1>3, <1>4, <1>6 DEF RecordBytes
<1>7. CASE record.down /\ record.key # "NONE"
  BY <1>2, <1>3, <1>4, <1>7 DEF RecordBytes
<1>8. CASE record.down /\ record.key = "NONE" /\ IsLow(record.unit)
  <2>1. CASE high = 0
    BY <1>3, <1>4, <1>8, <2>1 DEF RecordBytes
  <2>2. CASE high # 0
    <3> DEFINE c == CodePoint(high, record.unit)
    <3>1. c \in Nat /\ c >= 128
      BY <1>8, <2>2, HalfWaits, PairIsLarge
    <3>2. RecordBytes(record) = Utf8(c) /\ Meaning(n + 1)' = Utf8(c)
      BY <1>3, <1>8, <2>2 DEF RecordBytes
    <3> HIDE DEF c
    <3>3. /\ Utf8(c) \in Seq(Int) /\ Utf8(c) # <<>>
          /\ \A i \in 1..Len(Utf8(c)) : Utf8(c)[i] >= 128
      BY <3>1, Utf8Bytes
    <3>4. IsText(Utf8(c)) /\ Utf8(c)[1] # OpenBracket
      BY <3>3 DEF IsText, ESC, OpenBracket
    <3> QED
      BY <1>5, <3>2, <3>3, <3>4
  <2> QED
    BY <2>1, <2>2
<1>9. CASE record.down /\ record.key = "NONE" /\ ~IsLow(record.unit)
  <2> DEFINE c == record.unit
  <2>1. CASE IsHigh(c) \/ c = 0
    BY <1>3, <1>4, <1>9, <2>1 DEF RecordBytes
  <2>2. CASE ~IsHigh(c) /\ c = ESC
    <3>1. Utf8(c) = <<ESC>> /\ c # 0
      BY <2>2 DEF Utf8, ESC
    <3>2. RecordBytes(record) = <<ESC>> /\ Meaning(n + 1)' = <<>>
      BY <1>3, <1>9, <2>2, <3>1 DEF RecordBytes
    <3>3. Typed(n + 1, ESC)'
      BY <1>1, <1>9, <2>2 DEF Typed
    <3> QED
      BY <1>4, <3>2, <3>3
  <2>3. CASE ~IsHigh(c) /\ c # 0 /\ c # ESC
    <3>1. RecordBytes(record) = Utf8(c) /\ Meaning(n + 1)' = Utf8(c)
      BY <1>3, <1>9, <2>3 DEF RecordBytes
    <3>2. Utf8(c) \in Seq(Int) /\ Utf8(c) # <<>>
      BY <1>2, Utf8Bytes
    <3>3. IsText(Utf8(c)) /\ (Utf8(c)[1] = OpenBracket => c = OpenBracket)
      <4>1. CASE c < 128
        <5>1. Utf8(c) = <<c>>
          BY <1>2, <4>1, Utf8Bytes
        <5> QED
          BY <2>3, <3>2, <5>1 DEF IsText
      <4>2. CASE c >= 128
        <5>1. \A i \in 1..Len(Utf8(c)) : Utf8(c)[i] >= 128
          BY <1>2, <4>2, Utf8Bytes
        <5> HIDE DEF c
        <5> QED
          BY <3>2, <5>1 DEF IsText, ESC, OpenBracket
      <4> QED
        BY <1>2, <4>1, <4>2
    <3>4. c = OpenBracket => Typed(n + 1, OpenBracket)'
      BY <1>1, <1>9 DEF Typed
    <3> QED
      BY <1>5, <3>1, <3>2, <3>3, <3>4
  <2> QED
    BY <2>1, <2>2, <2>3
<1> QED
  BY <1>2, <1>6, <1>7, <1>8, <1>9

\* What is asked for grows by the meaning of the record, once per repeat.
LEMMA WantedGrows ==
  ASSUME pressed \in Seq(Record), NEW record \in Record, pressed' = Append(pressed, record),
         NEW n, n = Len(pressed), high = Waiting(n + 1),
         \A i \in DOMAIN pressed : Meaning(i) \in Seq(Out)
  PROVE  /\ Wanted \in Seq(Out)
         /\ Wanted' = Wanted \o Copies(Meaning(n + 1)',
                                      IF record.repeat = 0 THEN 1 ELSE record.repeat)
<1>1. /\ n \in Nat /\ pressed' \in Seq(Record) /\ Len(pressed') = n + 1
      /\ pressed'[n + 1] = record /\ \A i \in 1..n : pressed'[i] = pressed[i]
      /\ \A i \in 1..n : Pressed(i)' = Pressed(i)
  BY RecordRead
<1>2. DOMAIN pressed = 1..n /\ DOMAIN pressed' = 1..(n + 1)
  BY <1>1
<1>3. ASSUME NEW r \in Nat
      PROVE  Max({1, r}) \in Nat /\ Max({1, r}) = IF r = 0 THEN 1 ELSE r
  <2>1. {1, r} \in SUBSET (0..(r + 1)) /\ {1, r} # {}
    OBVIOUS
  <2>2. Max({1, r}) \in {1, r} /\ \A y \in {1, r} : y <= Max({1, r})
    <3>1. r + 1 \in Nat
      OBVIOUS
    <3> QED
      BY <2>1, <3>1, LastAndFirst
  <2> QED
    BY <2>2
<1>4. ASSUME NEW i \in 1..n PROVE pressed[i].repeat \in Nat /\ pressed[i] \in Record
  <2>1. pressed[i] \in Record
    BY <1>1, <1>4, ElementOfSeq
  <2> QED
    BY <2>1, RecordAssumption, UnitIsNat
<1>5. ASSUME NEW i \in 1..n PROVE Pressed(i) \in Seq(Out)
  BY <1>2, <1>3, <1>4, CopiesType DEF Pressed, Copies
<1>6. record.repeat \in Nat /\ Meaning(n + 1)' \in Seq(Out)
  <2>1. record.repeat \in Nat
    BY RecordAssumption, UnitIsNat
  <2> QED
    BY <2>1, RecordMeaning
<1> DEFINE m == IF record.repeat = 0 THEN 1 ELSE record.repeat
           more == Copies(Meaning(n + 1)', m)
           row == [i \in 1..n |-> Pressed(i)]
<1>7. m \in Nat /\ more \in Seq(Out)
  BY <1>6, CopiesType
<1>8. Pressed(n + 1)' = more
  BY <1>1, <1>3, <1>6 DEF Pressed, Copies
<1>9. row \in Seq(Seq(Out)) /\ Wanted = FlattenSeq(row)
  BY <1>1, <1>2, <1>5 DEF Wanted
<1>10. Wanted' = FlattenSeq([i \in 1..(n + 1) |-> Pressed(i)'])
  BY <1>2 DEF Wanted
<1> HIDE DEF more, m
<1>11. [i \in 1..(n + 1) |-> Pressed(i)'] = Append(row, more)
  BY <1>1, <1>7, <1>8, <1>9
<1> QED
  BY <1>7, <1>9, <1>10, <1>11, FlattenAppend, Flattened DEF more, m

\* Any number of nothing is nothing.
LEMMA CopiesOfNothing == \A m \in Nat : Copies(<<>>, m) = <<>>
<1> DEFINE T == {m \in Nat : Copies(<<>>, m) = <<>>}
<1>1. <<>> \in Seq(Int) /\ <<>> \o <<>> = <<>>
  OBVIOUS
<1>2. \A m \in Nat : Copies(<<>>, 0) = <<>> /\ Copies(<<>>, m + 1) = Copies(<<>>, m) \o <<>>
  BY <1>1, CopiesType
<1>3. 0 \in T
  BY <1>2
<1>4. ASSUME NEW m \in T PROVE m + 1 \in T
  <2>1. m \in Nat /\ Copies(<<>>, m) = <<>> /\ Copies(<<>>, m + 1) = Copies(<<>>, m) \o <<>>
    BY <1>2
  <2>2. Copies(<<>>, m + 1) = <<>>
    BY <1>1, <2>1, Zenon
  <2> QED
    BY <2>1, <2>2
<1>5. T = Nat
  <2>1. T \in SUBSET Nat
    OBVIOUS
  <2> HIDE DEF T
  <2> QED
    BY <1>3, <1>4, <2>1, InductionOnNat
<1> QED
  BY <1>5

\* A key has bytes.
LEMMA KeyBytesType == \A key \in Keys : KeyBytes(key) \in Seq(Int) /\ KeyBytes(key) # <<>>
BY DEF Keys, KeyBytes, ESC

-----------------------------------------------------------------------------
\* A record is read: what it adds to the queue is what it adds to what is asked for.
LEMMA ReadDelivers ==
  ASSUME Delivered, NEW record \in Record, ReadRecord(record), ~EscapeBracket'
  PROVE  Delivered'
<1>0. PICK n : n = Len(pressed)
  OBVIOUS
<1> DEFINE bytes == RecordBytes(record)
           m == IF record.repeat = 0 THEN 1 ELSE record.repeat
           meant == Meaning(n + 1)'
<1>1. /\ pressed \in Seq(Record) /\ got \in Seq(Out) /\ high = Waiting(n + 1)
      /\ \A i \in DOMAIN pressed : Meaning(i) \in Seq(Out)
      /\ queue = <<>> /\ Quiet /\ (state = "ESCAPE" => Escaped) /\ Wanted = got
  BY <1>0 DEF Delivered, ReadRecord
<1>2. /\ pressed' = Append(pressed, record) /\ high' = NextHigh(record) /\ got' = got
      /\ state' = state
      /\ IF bytes = <<>> THEN queue' = <<>>
         ELSE queue' = bytes /\ position' = 0 /\ repeat' = m
  BY <1>1 DEF ReadRecord, keyVars, decoder
<1>3. /\ n \in Nat /\ pressed' \in Seq(Record) /\ Len(pressed') = n + 1
      /\ pressed'[n + 1] = record /\ \A i \in 1..n : pressed'[i] = pressed[i]
      /\ \A i \in 1..n : Meaning(i)' = Meaning(i)
      /\ Waiting(n + 2)' = NextHigh(record)
  BY <1>0, <1>1, <1>2, RecordRead
<1>4. Wanted' = got \o Copies(meant, m)
  BY <1>0, <1>1, <1>2, WantedGrows
<1>5. /\ meant \in Seq(Out)
      /\ \/ bytes = <<>> /\ meant = <<>>
         \/ \E key \in Keys : bytes = KeyBytes(key) /\ meant = <<key>>
         \/ bytes = <<ESC>> /\ meant = <<>> /\ Typed(n + 1, ESC)'
         \/ /\ IsText(bytes) /\ meant = bytes
            /\ bytes[1] = OpenBracket => Typed(n + 1, OpenBracket)'
  BY <1>0, <1>1, <1>2, RecordMeaning
<1>6. m \in Nat \ {0}
  BY RecordAssumption, UnitIsNat
<1>7. DOMAIN pressed = 1..n /\ DOMAIN pressed' = 1..(n + 1)
  BY <1>0, <1>1, <1>3
<1> HIDE DEF bytes, m, meant
<1>8. /\ pressed' \in Seq(Record) /\ got' \in Seq(Out)
      /\ high' = Waiting(Len(pressed) + 1)'
      /\ \A i \in DOMAIN pressed' : Meaning(i)' \in Seq(Out)
  <2>1. Len(pressed') + 1 = n + 2
    BY <1>3
  <2>2. high' = Waiting(Len(pressed) + 1)'
    BY <1>2, <1>3, <2>1 DEF Waiting, CharactersBefore
  <2>3. ASSUME NEW i \in DOMAIN pressed' PROVE Meaning(i)' \in Seq(Out)
    <3>1. CASE i \in 1..n
      BY <1>1, <1>3, <1>7, <3>1
    <3>2. CASE i = n + 1
      BY <1>5, <3>2 DEF meant
    <3> QED
      BY <1>3, <1>7, <2>3, <3>1, <3>2
  <2> QED
    BY <1>1, <1>2, <1>3, <2>2, <2>3
<1>9. Quiet'
  BY <1>1, <1>2 DEF Quiet
<1>10. CASE bytes = <<>> /\ meant = <<>>
  <2>1. Wanted' = got
    BY <1>1, <1>4, <1>6, <1>10, CopiesOfNothing, ConcatEmptySeq
  <2>2. Escaped => Escaped'
    <3> SUFFICES ASSUME Escaped PROVE Escaped'
      OBVIOUS
    <3>1. PICK i \in 1..n : Typed(i, ESC) /\ \A k \in (i + 1)..n : Meaning(k) = <<>>
      BY <1>0, <1>7 DEF Escaped
    <3>2. Typed(i, ESC)'
      BY <1>3, <3>1 DEF Typed
    <3>3. ASSUME NEW k \in (i + 1)..(n + 1) PROVE Meaning(k)' = <<>>
      <4>1. CASE k = n + 1
        BY <1>10, <4>1 DEF meant
      <4>2. CASE k # n + 1
        <5>1. k \in 1..n /\ k \in (i + 1)..n
          BY <1>3, <4>2
        <5> QED
          BY <1>3, <3>1, <5>1
      <4> QED
        BY <4>1, <4>2
    <3>4. i \in DOMAIN pressed'
      BY <1>3, <1>7
    <3> QED
      BY <1>3, <3>2, <3>3, <3>4 DEF Escaped
  <2> QED
    BY <1>1, <1>2, <1>8, <1>9, <1>10, <2>1, <2>2 DEF Delivered
<1>11. ASSUME NEW key \in Keys, bytes = KeyBytes(key), meant = <<key>> PROVE Delivered'
  <2>1. queue' = KeyBytes(key) /\ queue' # <<>> /\ position' = 0 /\ repeat' = m
    BY <1>2, <1>11, KeyBytesType
  <2>2. AtKey(position)'
    BY <1>9, <2>1 DEF AtKey
  <2>3. Wanted' = got' \o Copies(<<key>>, repeat')
    BY <1>2, <1>4, <1>11, <2>1
  <2>4. QueuedKey(key)'
    BY <2>1, <2>2, <2>3 DEF QueuedKey
  <2> QED
    BY <1>6, <1>8, <2>1, <2>4 DEF Delivered
<1>12. CASE bytes = <<ESC>> /\ meant = <<>> /\ Typed(n + 1, ESC)'
  <2>1. queue' = <<ESC>> /\ queue' # <<>> /\ position' = 0 /\ repeat' = m
    BY <1>2, <1>12
  <2>2. Wanted' = got'
    BY <1>1, <1>2, <1>4, <1>6, <1>12, CopiesOfNothing, ConcatEmptySeq
  <2>3. Escaped'
    <3>1. n + 1 \in DOMAIN pressed' /\ \A k \in (n + 2)..Len(pressed') : FALSE
      BY <1>3, <1>7
    <3>2. n + 1 + 1 = n + 2
      BY <1>3
    <3> QED
      BY <1>12, <3>1, <3>2 DEF Escaped
  <2>4. QueuedEscape'
    BY <1>9, <2>1, <2>2, <2>3 DEF QueuedEscape
  <2> QED
    BY <1>6, <1>8, <2>1, <2>4 DEF Delivered
<1>13. CASE /\ IsText(bytes) /\ meant = bytes
            /\ bytes[1] = OpenBracket => Typed(n + 1, OpenBracket)'
  <2>1. bytes \in Seq(Int) /\ bytes # <<>>
    BY <1>13 DEF IsText
  <2>2. queue' = bytes /\ queue' # <<>> /\ position' = 0 /\ repeat' = m
    BY <1>2, <2>1
  <2>3. Escaped => ~Typed(n + 1, OpenBracket)'
    <3> SUFFICES ASSUME Escaped, Typed(n + 1, OpenBracket)' PROVE EscapeBracket'
      OBVIOUS
    <3>1. PICK i \in 1..n : Typed(i, ESC) /\ \A k \in (i + 1)..n : Meaning(k) = <<>>
      BY <1>0, <1>7 DEF Escaped
    <3>2. Typed(i, ESC)'
      BY <1>3, <3>1 DEF Typed
    <3>3. ASSUME NEW k \in (i + 1)..n PROVE Meaning(k)' = <<>>
      <4>1. k \in 1..n /\ k \in (i + 1)..n
        BY <1>3
      <4> QED
        BY <1>3, <3>1, <4>1
    <3>4. i \in DOMAIN pressed' /\ n + 1 \in DOMAIN pressed' /\ i < n + 1
      BY <1>3, <1>7
    <3>5. \E j \in DOMAIN pressed' :
            /\ i < j /\ Typed(i, ESC)' /\ Typed(j, OpenBracket)'
            /\ \A k \in (i + 1)..(j - 1) : Meaning(k)' = <<>>
      <4>1. PICK j : j = n + 1
        OBVIOUS
      <4>2. j \in DOMAIN pressed' /\ i < j
        BY <3>4, <4>1
      <4>3. Typed(j, OpenBracket)'
        BY <4>1 DEF Typed
      <4>4. \A k \in (i + 1)..(j - 1) : Meaning(k)' = <<>>
        <5>1. j - 1 = n
          BY <1>3, <4>1
        <5> QED
          BY <3>3, <5>1
      <4> QED
        BY <3>2, <4>2, <4>3, <4>4, Zenon
    <3> QED
      BY <3>4, <3>5, Zenon DEF EscapeBracket
  <2>4. Plain(queue[position + 1])'
    <3>1. queue'[position' + 1] = bytes[1]
      BY <2>2
    <3>2. state' = "IDLE" \/ (state' = "ESCAPE" /\ bytes[1] # OpenBracket)
      BY <1>1, <1>2, <1>13, <2>3 DEF Quiet
    <3> QED
      BY <3>1, <3>2 DEF Plain
  <2>5. SubSeq(bytes, 1, Len(bytes)) = bytes
    BY <2>1
  <2>6. m - 1 \in Nat /\ m - 1 + 1 = m
    BY <1>6
  <2>7. Copies(bytes, m) = bytes \o Copies(bytes, m - 1)
    BY <2>1, <2>6, CopiesFirst
  <2>8. QueuedText'
    <3>1. position' + 1 = 1 /\ repeat' - 1 = m - 1
      BY <2>2
    <3>2. Wanted' = got' \o (SubSeq(queue', position' + 1, Len(queue'))
                               \o Copies(queue', repeat' - 1))
      BY <1>2, <1>4, <1>13, <2>2, <2>5, <2>7, <3>1, Zenon
    <3>3. IsText(queue)'
      BY <1>13, <2>2, Zenon DEF IsText
    <3> QED
      BY <2>4, <3>2, <3>3, Zenon DEF QueuedText
  <2> QED
    BY <1>6, <1>8, <2>2, <2>8 DEF Delivered
<1> QED
  BY <1>5, <1>10, <1>11, <1>12, <1>13

\* The first of what is left leaves.
LEMMA FirstLeaves ==
  ASSUME NEW S, NEW q \in Seq(S), NEW i \in 1..Len(q)
  PROVE  /\ SubSeq(q, i + 1, Len(q)) \in Seq(S)
         /\ SubSeq(q, i, Len(q)) = <<q[i]>> \o SubSeq(q, i + 1, Len(q))
         /\ i = Len(q) => SubSeq(q, i + 1, Len(q)) = <<>>
<1>1. Len(q) \in Nat /\ q[i] \in S
  BY ElementOfSeq, LenProperties
<1> DEFINE rest == SubSeq(q, i + 1, Len(q))
           all == SubSeq(q, i, Len(q))
           one == <<q[i]>>
<1>2. /\ rest \in Seq(S) /\ Len(rest) = Len(q) - i
      /\ \A k \in 1..(Len(q) - i) : rest[k] = q[i + k]
  BY <1>1
<1>3. /\ all \in Seq(S) /\ Len(all) = Len(q) - i + 1
      /\ \A k \in 1..(Len(q) - i + 1) : all[k] = q[i + k - 1]
  BY <1>1
<1>4. one \in Seq(S) /\ Len(one) = 1 /\ one[1] = q[i]
  BY <1>1
<1> HIDE DEF rest, all, one
<1>5. all = one \o rest
  <2>1. /\ one \o rest \in Seq(S) /\ Len(one \o rest) = Len(q) - i + 1
        /\ \A k \in 1..(Len(q) - i + 1) :
             (one \o rest)[k] = IF k <= 1 THEN one[k] ELSE rest[k - 1]
    <3>1. /\ one \o rest \in Seq(S) /\ Len(one \o rest) = Len(one) + Len(rest)
          /\ \A k \in 1..(Len(one) + Len(rest)) :
               (one \o rest)[k] = IF k <= Len(one) THEN one[k] ELSE rest[k - Len(one)]
      BY <1>2, <1>4, ConcatProperties
    <3>2. Len(one) + Len(rest) = Len(q) - i + 1
      BY <1>1, <1>2, <1>4
    <3> QED
      BY <1>4, <3>1, <3>2
  <2>2. ASSUME NEW k \in 1..Len(all) PROVE all[k] = (one \o rest)[k]
    <3>1. CASE k = 1
      BY <1>1, <1>3, <1>4, <2>1, <3>1
    <3>2. CASE k # 1
      <4>1. k - 1 \in 1..(Len(q) - i) /\ ~(k <= 1) /\ i + (k - 1) = i + k - 1
        BY <1>1, <1>3, <3>2
      <4> QED
        BY <1>2, <1>3, <2>1, <4>1
    <3> QED
      BY <3>1, <3>2
  <2> QED
    BY <1>3, <2>1, <2>2, SeqEqual
<1>6. i = Len(q) => rest = <<>>
  BY <1>1, <1>2, EmptySeq
<1> QED
  BY <1>2, <1>5, <1>6 DEF all, one, rest

\* And joins what has arrived.
LEMMA FirstArrives ==
  ASSUME NEW S, NEW g \in Seq(S), NEW one \in Seq(S), NEW a \in Seq(S), NEW b \in Seq(S)
  PROVE  g \o ((one \o a) \o b) = (g \o one) \o (a \o b)
<1>1. one \o a \in Seq(S) /\ a \o b \in Seq(S) /\ g \o one \in Seq(S)
  BY ConcatProperties
<1>2. (one \o a) \o b = one \o (a \o b)
  BY ConcatAssociative, SMTT(60)
<1>3. (g \o one) \o (a \o b) = g \o (one \o (a \o b))
  <2>1. PICK c \in Seq(S) : c = a \o b
    BY <1>1
  <2>2. (g \o one) \o c = g \o (one \o c)
    BY ConcatAssociative, SMTT(60)
  <2> QED
    BY <2>1, <2>2, Zenon
<1> QED
  BY <1>2, <1>3, Zenon

\* A byte is taken: what reaches the editor is what leaves the queue.
LEMMA TakeDelivers ==
  ASSUME IInv, QueueOK, Delivered, TakeQueuedByte
  PROVE  Delivered'
<1>0. PICK p, byte : p = position /\ byte = queue[p + 1]
  OBVIOUS
<1>1. /\ queue \in Seq(Int) /\ queue # <<>> /\ p \in Nat /\ p < Len(queue)
      /\ Len(queue) \in Nat /\ p + 1 \in 1..Len(queue) /\ byte \in Int
  <2>1. /\ queue \in Seq(Int) /\ queue # <<>> /\ p \in Nat /\ p < Len(queue)
        /\ Len(queue) \in Nat
    BY <1>0, LenProperties DEF TakeQueuedByte, QueueOK
  <2>2. p + 1 \in 1..Len(queue)
    BY <2>1
  <2> QED
    BY <1>0, <2>1, <2>2, ElementOfSeq
<1>2. /\ pressed \in Seq(Record) /\ got \in Seq(Out) /\ high = Waiting(Len(pressed) + 1)
      /\ \A i \in DOMAIN pressed : Meaning(i) \in Seq(Out)
      /\ repeat \in Nat \ {0}
      /\ (\E key \in Keys : QueuedKey(key)) \/ QueuedEscape \/ QueuedText
  BY <1>1 DEF Delivered
<1>3. /\ Byte(byte) /\ pressed' = pressed /\ high' = high
      /\ got' = IF event' # "NONE" THEN Append(got, event')
                ELSE IF swallowed' THEN got ELSE Append(got, byte)
  BY <1>0, Zenon DEF TakeQueuedByte, FeedByte
<1>4. IF p + 1 < Len(queue) THEN position' = p + 1 /\ queue' = queue /\ repeat' = repeat
      ELSE /\ position' = 0
           /\ IF repeat > 1 THEN repeat' = repeat - 1 /\ queue' = queue
              ELSE repeat' = 0 /\ queue' = <<>>
  BY <1>0 DEF TakeQueuedByte, Advance
<1>5. /\ \A i : Waiting(i)' = Waiting(i) /\ Meaning(i)' = Meaning(i)
      /\ Wanted' = Wanted /\ Escaped' = Escaped
  BY <1>3, NoRecordRead
<1>6. /\ pressed' \in Seq(Record)
      /\ \A i \in DOMAIN pressed' : Meaning(i)' \in Seq(Out)
      /\ high' = Waiting(Len(pressed) + 1)'
  <2>1. high' = Waiting(Len(pressed) + 1)'
    BY <1>2, <1>3 DEF Waiting, CharactersBefore
  <2> QED
    BY <1>2, <1>3, <1>5, <2>1
<1>7. repeat \in Nat /\ repeat - 1 \in Nat /\ repeat - 1 + 1 = repeat
  BY <1>2
<1>8. Int \subseteq Out /\ Keys \subseteq Out /\ \A s \in Seq(Int) : s \in Seq(Out)
  BY DEF Out
<1>9. CASE p + 1 < Len(queue)
  <2>1. position' = p + 1 /\ queue' = queue /\ repeat' = repeat
    BY <1>4, <1>9
  <2>2. ASSUME NEW key \in Keys, QueuedKey(key) PROVE Delivered'
    <3>1. queue = KeyBytes(key) /\ AtKey(p) /\ Wanted = got \o Copies(<<key>>, repeat)
      BY <1>0, <2>2 DEF QueuedKey
    <3>2. event' = "NONE" /\ swallowed' /\ AtKey(p + 1)'
      BY <1>0, <1>1, <1>3, <1>9, <3>1, KeyFed
    <3>3. got' = got /\ AtKey(position)'
      BY <1>0, <1>3, <2>1, <3>2 DEF AtKey
    <3>4. QueuedKey(key)'
      BY <1>5, <2>1, <3>1, <3>3 DEF QueuedKey
    <3> QED
      BY <1>1, <1>2, <1>6, <2>1, <3>3, <3>4 DEF Delivered
  <2>3. ASSUME QueuedText PROVE Delivered'
    <3>1. /\ IsText(queue) /\ Plain(byte)
          /\ Wanted = got \o (SubSeq(queue, p + 1, Len(queue)) \o Copies(queue, repeat - 1))
      BY <1>0, <2>3 DEF QueuedText
    <3>2. byte # ESC
      BY <1>0, <1>1, <3>1 DEF IsText
    <3>3. event' = "NONE" /\ ~swallowed' /\ state' = "IDLE"
      BY <1>1, <1>3, <3>1, <3>2, TextFed
    <3>4. got' = Append(got, byte)
      BY <1>3, <3>3
    <3>5. /\ SubSeq(queue, p + 1, Len(queue))
               = <<byte>> \o SubSeq(queue, p + 1 + 1, Len(queue))
          /\ SubSeq(queue, p + 1 + 1, Len(queue)) \in Seq(Int)
      BY <1>0, <1>1, FirstLeaves
    <3>6. Wanted' = got' \o (SubSeq(queue, p + 1 + 1, Len(queue)) \o Copies(queue, repeat - 1))
      <4>1. /\ SubSeq(queue, p + 1 + 1, Len(queue)) \in Seq(Out)
            /\ Copies(queue, repeat - 1) \in Seq(Out) /\ byte \in Out
        BY <1>1, <1>7, <1>8, <3>5, CopiesType
      <4> DEFINE a == SubSeq(queue, p + 1 + 1, Len(queue))
                 b == Copies(queue, repeat - 1)
      <4>2. <<byte>> \in Seq(Out) /\ Append(got, byte) = got \o <<byte>>
        BY <1>2, <4>1, AppendIsConcat
      <4>3. got \o ((<<byte>> \o a) \o b) = (got \o <<byte>>) \o (a \o b)
        <5>1. PICK u \in Seq(Out), v \in Seq(Out), one \in Seq(Out) :
                u = a /\ v = b /\ one = <<byte>>
          BY <4>1, <4>2
        <5>2. got \o ((one \o u) \o v) = (got \o one) \o (u \o v)
          BY <1>2, FirstArrives, SMTT(60)
        <5> QED
          BY <5>1, <5>2, Zenon
      <4> QED
        BY <1>5, <3>1, <3>4, <3>5, <4>2, <4>3, Zenon
    <3>7. QueuedText'
      BY <2>1, <3>1, <3>3, <3>6 DEF QueuedText, Plain
    <3>8. got' \in Seq(Out)
      BY <1>1, <1>2, <1>8, <3>4
    <3> QED
      BY <1>1, <1>2, <1>6, <2>1, <3>7, <3>8 DEF Delivered
  <2>4. ~QueuedEscape
    <3>1. Len(<<ESC>>) = 1
      OBVIOUS
    <3>2. Len(queue) # 1
      <4>1. \A len \in Nat : p + 1 < len => len # 1
        BY <1>1
      <4> QED
        BY <1>1, <1>9, <4>1
    <3> QED
      BY <3>1, <3>2 DEF QueuedEscape
  <2> QED
    BY <1>2, <2>2, <2>3, <2>4
<1>10. CASE ~(p + 1 < Len(queue))
  <2>1. /\ p + 1 = Len(queue) /\ position' = 0
        /\ \/ repeat' = repeat - 1 /\ repeat' \in Nat \ {0} /\ queue' = queue
           \/ repeat = 1 /\ queue' = <<>>
    BY <1>1, <1>2, <1>4, <1>10
  <2>2. ASSUME NEW key \in Keys, QueuedKey(key) PROVE Delivered'
    <3>1. queue = KeyBytes(key) /\ AtKey(p) /\ Wanted = got \o Copies(<<key>>, repeat)
      BY <1>0, <2>2 DEF QueuedKey
    <3>2. event' = key /\ state' = "IDLE"
      BY <1>0, <1>1, <1>3, <1>10, <3>1, KeyFed
    <3>3. got' = Append(got, key) /\ got' \in Seq(Out)
      <4>1. key # "NONE" /\ key \in Out
        BY <1>8 DEF Keys
      <4> QED
        BY <1>2, <1>3, <3>2, <4>1
    <3>4. <<key>> \in Seq(Out) /\ Append(got, key) = got \o <<key>>
      BY <1>2, <1>8, AppendIsConcat
    <3>5. Wanted' = got' \o Copies(<<key>>, repeat - 1)
      <4>1. /\ Copies(<<key>>, repeat) = <<key>> \o Copies(<<key>>, repeat - 1)
            /\ Copies(<<key>>, repeat - 1) \in Seq(Out)
        <5>1. \A k \in Nat : /\ Copies(<<key>>, k + 1) = <<key>> \o Copies(<<key>>, k)
                             /\ Copies(<<key>>, k) \in Seq(Out)
          BY <3>4, CopiesFirst, CopiesType
        <5> QED
          BY <1>7, <5>1
      <4>2. got \o (<<key>> \o Copies(<<key>>, repeat - 1))
              = (got \o <<key>>) \o Copies(<<key>>, repeat - 1)
        BY <1>2, <3>4, <4>1, ConcatAssociative, SMTT(60)
      <4> QED
        BY <1>5, <3>1, <3>3, <3>4, <4>1, <4>2
    <3>6. Quiet' /\ state' # "ESCAPE"
      BY <3>2 DEF Quiet
    <3>7. CASE repeat' = repeat - 1 /\ repeat' \in Nat \ {0} /\ queue' = queue
      <4>1. QueuedKey(key)'
        BY <2>1, <3>1, <3>5, <3>6, <3>7 DEF QueuedKey, AtKey
      <4> QED
        BY <1>1, <1>6, <3>3, <3>7, <4>1 DEF Delivered
    <3>8. CASE repeat = 1 /\ queue' = <<>>
      <4>1. Copies(<<key>>, repeat - 1) = <<>>
        <5>1. Copies(<<key>>, 0) = <<>>
          BY <3>4, CopiesType
        <5> QED
          BY <3>8, <5>1
      <4>2. Wanted' = got'
        BY <3>3, <3>5, <4>1, ConcatEmptySeq
      <4> QED
        BY <1>6, <3>3, <3>6, <3>8, <4>2 DEF Delivered
    <3> QED
      BY <2>1, <3>7, <3>8
  <2>3. ASSUME QueuedEscape PROVE Delivered'
    <3>1. queue = <<ESC>> /\ Wanted = got /\ Escaped
      BY <2>3 DEF QueuedEscape
    <3>2. byte = ESC
      <4>1. Len(<<ESC>>) = 1 /\ <<ESC>>[1] = ESC
        OBVIOUS
      <4>2. p + 1 = 1
        BY <2>1, <3>1, <4>1
      <4> QED
        BY <1>0, <3>1, <4>1, <4>2
    <3>3. event' = "NONE" /\ swallowed' /\ state' = "ESCAPE"
      BY <1>3, <3>2, EscapeFed
    <3>4. got' = got /\ Quiet' /\ Escaped' /\ Wanted' = got'
      BY <1>3, <1>5, <3>1, <3>3 DEF Quiet
    <3>5. queue' = queue => QueuedEscape'
      BY <3>1, <3>4 DEF QueuedEscape
    <3> QED
      BY <1>1, <1>2, <1>6, <2>1, <3>4, <3>5 DEF Delivered
  <2>4. ASSUME QueuedText PROVE Delivered'
    <3>1. /\ IsText(queue) /\ Plain(byte)
          /\ Wanted = got \o (SubSeq(queue, p + 1, Len(queue)) \o Copies(queue, repeat - 1))
      BY <1>0, <2>4 DEF QueuedText
    <3>2. byte # ESC
      BY <1>0, <1>1, <3>1 DEF IsText
    <3>3. event' = "NONE" /\ ~swallowed' /\ state' = "IDLE"
      BY <1>1, <1>3, <3>1, <3>2, TextFed
    <3>4. got' = Append(got, byte) /\ got' \in Seq(Out) /\ byte \in Out
      BY <1>1, <1>2, <1>3, <1>8, <3>3
    <3>5. Wanted' = got' \o Copies(queue, repeat - 1)
      <4>1. SubSeq(queue, p + 1, Len(queue)) = <<byte>> \o <<>>
        <5>1. /\ SubSeq(queue, p + 1, Len(queue))
                   = <<byte>> \o SubSeq(queue, p + 1 + 1, Len(queue))
              /\ SubSeq(queue, p + 1 + 1, Len(queue)) = <<>>
          BY <1>0, <1>1, <2>1, FirstLeaves
        <5> QED
          BY <5>1
      <4>2. queue \in Seq(Out)
        BY <1>1, <1>8
      <4>3. Copies(queue, repeat - 1) \in Seq(Out) /\ <<>> \in Seq(Out)
        BY <1>7, <4>2, CopiesType
      <4>4. /\ Append(got, byte) = got \o <<byte>> /\ <<byte>> \in Seq(Out)
            /\ got \o ((<<byte>> \o <<>>) \o Copies(queue, repeat - 1))
                 = (got \o <<byte>>) \o (<<>> \o Copies(queue, repeat - 1))
        <5>1. Append(got, byte) = got \o <<byte>> /\ <<byte>> \in Seq(Out)
          BY <1>2, <3>4, AppendIsConcat
        <5> QED
          BY <1>2, <4>3, <5>1, FirstArrives, SMTT(60)
      <4>5. <<>> \o Copies(queue, repeat - 1) = Copies(queue, repeat - 1)
        BY <4>3, ConcatEmptySeq
      <4> QED
        BY <1>5, <3>1, <3>4, <4>1, <4>4, <4>5
    <3>6. Quiet' /\ state' # "ESCAPE"
      BY <3>3 DEF Quiet
    <3>7. CASE repeat' = repeat - 1 /\ repeat' \in Nat \ {0} /\ queue' = queue
      <4>1. SubSeq(queue, 0 + 1, Len(queue)) = queue
        BY <1>1
      <4>2. repeat' - 1 \in Nat /\ repeat' - 1 + 1 = repeat - 1
        BY <1>7, <3>7
      <4>3. Copies(queue, repeat - 1) = queue \o Copies(queue, repeat' - 1)
        <5>1. \A k \in Nat : Copies(queue, k + 1) = queue \o Copies(queue, k)
          BY <1>1, CopiesFirst
        <5> QED
          BY <4>2, <5>1
      <4>4. Wanted' = got' \o (SubSeq(queue', position' + 1, Len(queue'))
                                 \o Copies(queue', repeat' - 1))
        BY <2>1, <3>5, <3>7, <4>1, <4>3, Zenon
      <4>5. QueuedText'
        BY <3>1, <3>3, <3>7, <4>4, Zenon DEF QueuedText, IsText, Plain
      <4> QED
        BY <1>1, <1>6, <3>4, <3>7, <4>5 DEF Delivered
    <3>8. CASE repeat = 1 /\ queue' = <<>>
      <4>1. Copies(queue, repeat - 1) = <<>>
        BY <1>1, <3>8, CopiesType
      <4>2. Wanted' = got'
        BY <3>4, <3>5, <4>1, ConcatEmptySeq
      <4> QED
        BY <1>6, <3>4, <3>6, <3>8, <4>2 DEF Delivered
    <3> QED
      BY <2>1, <3>7, <3>8
  <2> QED
    BY <1>2, <2>2, <2>3, <2>4
<1> QED
  BY <1>9, <1>10

-----------------------------------------------------------------------------
\* Nothing was pressed, waits or was fed.
Untouched == pressed = <<>> /\ got = <<>> /\ queue = <<>> /\ high = 0 /\ state = "IDLE"

\* That is how the shell is started, and from then on a console delivers.
PressedInv ==
  /\ pressed \in Seq(Record)
  /\ phase \in {"begun", "opened"} => Untouched
  /\ phase = "running" /\ console /\ ~EscapeBracket => Delivered

\* Nothing pressed is delivered.
LEMMA UntouchedDelivers == Untouched => Delivered
<1> SUFFICES ASSUME Untouched PROVE Delivered
  OBVIOUS
<1>0. pressed = <<>> /\ got = <<>> /\ queue = <<>> /\ high = 0 /\ state = "IDLE"
  BY DEF Untouched
<1>1. pressed \in Seq(Record) /\ got \in Seq(Out) /\ Len(pressed) = 0 /\ DOMAIN pressed = {}
  BY <1>0
<1>2. Waiting(Len(pressed) + 1) = 0
  <2>1. CharactersBefore(0 + 1) = {}
    BY DEF CharactersBefore
  <2> QED
    BY <1>1, <2>1 DEF Waiting
<1>3. Wanted = <<>>
  <2>1. [i \in DOMAIN pressed |-> Pressed(i)] = <<>>
    BY <1>1
  <2> QED
    BY <2>1 DEF Wanted, FlattenSeq
<1> QED
  BY <1>0, <1>1, <1>2, <1>3 DEF Delivered, Quiet

\* Of the steps of a running console, one reads and one takes.
LEMMA StepPressed == IInv /\ QueueOK /\ PressedInv /\ [HostNext]_hostVars => PressedInv'
<1> SUFFICES ASSUME IInv, QueueOK, PressedInv, [HostNext]_hostVars PROVE PressedInv'
  OBVIOUS
<1>1. CASE OpenTerminal
  <2>1. /\ phase = "begun" /\ phase' = "opened" /\ pressed' = pressed /\ got' = got
        /\ queue' = <<>> /\ high' = 0 /\ state' = state
    BY <1>1 DEF OpenTerminal, EmptyQueue, keyVars, decoder
  <2> QED
    BY <2>1 DEF PressedInv, Untouched
<1>2. CASE OpenFails \/ StartFails
  BY <1>2 DEF OpenFails, StartFails, PressedInv
<1>3. ASSUME NEW result \in {0, 8}, Leave(result) PROVE PressedInv'
  BY <1>3 DEF Leave, PressedInv
<1>4. CASE StartShell
  <2>1. /\ phase = "opened" /\ phase' = "running" /\ pressed' = pressed /\ got' = got
        /\ queue' = queue /\ high' = high /\ state' = state
    BY <1>4 DEF StartShell, portQueue, keyVars, decoder
  <2>2. Untouched'
    BY <2>1 DEF PressedInv, Untouched
  <2>3. Delivered'
    BY <2>2, UntouchedDelivers, PTL
  <2> QED
    BY <2>1, <2>3 DEF PressedInv
<1>5. CASE RunAgain
  BY <1>5 DEF RunAgain, ResetDecoder, Reset, EmptyQueue, PressedInv, Untouched
<1>6. ASSUME NEW record \in Record, ReadRecord(record) PROVE PressedInv'
  <2>1. phase = "running" /\ console /\ phase' = phase
    BY <1>6 DEF ReadRecord
  <2>0. pressed \in Seq(Record) /\ pressed' = Append(pressed, record)
    BY <1>6 DEF ReadRecord, PressedInv
  <2>2. pressed' \in Seq(Record) /\ (EscapeBracket => EscapeBracket')
    <3>1. PICK n : n = Len(pressed)
      OBVIOUS
    <3>2. /\ n \in Nat /\ pressed' \in Seq(Record) /\ Len(pressed') = n + 1
          /\ \A i \in 1..n : pressed'[i] = pressed[i] /\ Meaning(i)' = Meaning(i)
      BY <2>0, <3>1, RecordRead
    <3>3. DOMAIN pressed = 1..n /\ DOMAIN pressed' = 1..(n + 1)
      BY <2>0, <3>1, <3>2
    <3>4. ASSUME NEW i \in 1..n, NEW j \in 1..n, i < j, Typed(i, ESC), Typed(j, OpenBracket),
                 \A k \in (i + 1)..(j - 1) : Meaning(k) = <<>>
          PROVE  EscapeBracket'
      <4>1. i \in DOMAIN pressed' /\ j \in DOMAIN pressed'
        BY <3>2, <3>3
      <4>2. Typed(i, ESC)' /\ Typed(j, OpenBracket)'
        BY <3>2, <3>4 DEF Typed
      <4>3. \A k \in (i + 1)..(j - 1) : k \in 1..n
        BY <3>2
      <4>4. \A k \in (i + 1)..(j - 1) : Meaning(k)' = <<>>
        BY <3>2, <3>4, <4>3
      <4> QED
        BY <3>4, <4>1, <4>2, <4>4, Zenon DEF EscapeBracket
    <3> QED
      BY <3>2, <3>3, <3>4 DEF EscapeBracket
  <2>3. ~EscapeBracket' => Delivered'
    BY <1>6, <2>1, <2>2, ReadDelivers DEF PressedInv
  <2> QED
    BY <2>1, <2>2, <2>3 DEF PressedInv
<1>7. CASE TakeQueuedByte
  <2>1. phase = "running" /\ phase' = phase /\ console' = console /\ pressed' = pressed
    BY <1>7 DEF TakeQueuedByte
  <2>2. EscapeBracket' = EscapeBracket
    BY <2>1, NoRecordRead
  <2>3. Delivered => Delivered'
    BY <1>7, TakeDelivers
  <2> QED
    BY <2>1, <2>2, <2>3 DEF PressedInv
<1>8. ASSUME NEW byte \in InputByte, ReadStream(byte) PROVE PressedInv'
  BY <1>8 DEF ReadStream, PressedInv
<1>9. CASE ResetBetweenBytes
  BY <1>9 DEF ResetBetweenBytes, PressedInv
<1>10. CASE UNCHANGED hostVars
  <2>1. /\ phase' = phase /\ console' = console /\ pressed' = pressed /\ got' = got
        /\ queue' = queue /\ position' = position /\ repeat' = repeat /\ high' = high
        /\ state' = state /\ csi' = csi /\ overflow' = overflow
    BY <1>10 DEF hostVars, portQueue, keyVars, decoder
  <2>2. /\ \A i : Waiting(i)' = Waiting(i) /\ Meaning(i)' = Meaning(i)
        /\ Wanted' = Wanted /\ Escaped' = Escaped /\ EscapeBracket' = EscapeBracket
    BY <2>1, NoRecordRead
  <2>3. Delivered => Delivered'
    <3> SUFFICES ASSUME Delivered PROVE Delivered'
      OBVIOUS
    <3>1. \A key \in Keys : QueuedKey(key) => QueuedKey(key)'
      BY <2>1, <2>2 DEF QueuedKey, AtKey, Quiet
    <3>2. (QueuedEscape => QueuedEscape') /\ (QueuedText => QueuedText')
      BY <2>1, <2>2, Zenon DEF QueuedEscape, QueuedText, IsText, Plain, Quiet
    <3>3. high' = high /\ Waiting(Len(pressed) + 1)' = Waiting(Len(pressed) + 1)
      BY <2>1 DEF Waiting, CharactersBefore
    <3>4. Quiet' = Quiet
      BY <2>1 DEF Quiet
    <3> QED
      BY <2>1, <2>2, <3>1, <3>2, <3>3, <3>4 DEF Delivered
  <2> QED
    BY <2>1, <2>2, <2>3 DEF PressedInv, Untouched
<1> QED
  BY <1>1, <1>2, <1>3, <1>4, <1>5, <1>6, <1>7, <1>8, <1>9, <1>10 DEF HostNext

\* What was got is the beginning of what is wanted, and all of it between records.
LEMMA DeliveredAsPressed ==
  ASSUME QueueOK, Delivered
  PROVE  IsPrefix(got, Wanted) /\ (queue = <<>> => got = Wanted)
<1>1. got \in Seq(Out)
  BY DEF Delivered
<1>2. ASSUME NEW more \in Seq(Out), Wanted = got \o more PROVE IsPrefix(got, Wanted)
  BY <1>1, <1>2 DEF IsPrefix
<1>3. CASE queue = <<>>
  <2>1. Wanted = got
    BY <1>3 DEF Delivered
  <2> QED
    BY <1>1, <2>1 DEF IsPrefix
<1>4. CASE queue # <<>>
  <2>1. /\ repeat \in Nat /\ repeat - 1 \in Nat /\ queue \in Seq(Int) /\ position + 1 \in Nat
        /\ (\E key \in Keys : QueuedKey(key)) \/ QueuedEscape \/ QueuedText
    BY <1>4 DEF Delivered, QueueOK
  <2>2. ASSUME NEW key \in Keys, QueuedKey(key) PROVE IsPrefix(got, Wanted)
    <3>1. <<key>> \in Seq(Out)
      BY DEF Out
    <3>2. Copies(<<key>>, repeat) \in Seq(Out)
      BY <2>1, <3>1, CopiesType
    <3> QED
      BY <1>2, <2>2, <3>2 DEF QueuedKey
  <2>3. ASSUME QueuedEscape PROVE IsPrefix(got, Wanted)
    BY <1>1, <2>3 DEF QueuedEscape, IsPrefix
  <2>4. ASSUME QueuedText PROVE IsPrefix(got, Wanted)
    <3> DEFINE left == SubSeq(queue, position + 1, Len(queue))
               again == Copies(queue, repeat - 1)
    <3>1. queue \in Seq(Out)
      BY <2>1 DEF Out
    <3>2. left \in Seq(Out) /\ again \in Seq(Out)
      <4>1. again \in Seq(Out)
        BY <2>1, <3>1, CopiesType
      <4>2. position + 1 \in 1..Len(queue) /\ Len(queue) \in Nat
        BY <1>4, LenProperties DEF QueueOK
      <4>3. left \in Seq(Out)
        BY <3>1, <4>2
      <4> QED
        BY <4>1, <4>3
    <3>3. left \o again \in Seq(Out) /\ Wanted = got \o (left \o again)
      <4>1. Wanted = got \o (left \o again)
        BY <2>4 DEF QueuedText
      <4> HIDE DEF left, again
      <4> QED
        BY <3>2, <4>1
    <3> QED
      BY <1>2, <3>3
  <2> QED
    BY <1>4, <2>1, <2>2, <2>3, <2>4
<1> QED
  BY <1>3, <1>4

\* For every set of key records: what the editor gets is what is pressed.
THEOREM HostKeysAsPressed == HostSpec => []KeysAsPressed
<1>1. HostInit => PressedInv
  BY DEF HostInit, KDInit, Init, PressedInv, Untouched
<1>2. QueueOK /\ PressedInv => KeysAsPressed
  BY DeliveredAsPressed, Zenon DEF PressedInv, KeysAsPressed, Wanted
<1> QED
  BY <1>1, <1>2, InitIInv, StepIInv, StepPressed, PTL DEF HostSpec
=============================================================================
