-------------------------- MODULE TcpSessionProofs --------------------------
(***************************************************************************)
(* The invariants of TcpSession, for every chunk size and write length.    *)
(*                                                                         *)
(* CloseNotifiedOnce is not inductive: it counts callbacks, while the code *)
(* decides by close_notified and by the state. Inv ties the three together *)
(* and records which points of a poll only an open session reaches.        *)
(***************************************************************************)
EXTENDS TcpSession, TLAPS

\* The flag, the callback and the state agree.
NotifiedIffEnded ==
  /\ notified <=> state \in Terminal
  /\ callback => notified
  /\ CloseNotifiedOnce

\* The switch on the read's status runs in an open session only.
AppliedWhileOpen == pc \in {"data", "empty"} => state = "OPEN"

Inv ==
  /\ TypeOK
  /\ NotifiedIffEnded
  /\ AppliedWhileOpen
  /\ NoIoAfterClose
  /\ ResultMatchesState
  /\ WriteReplyInContract

-----------------------------------------------------------------------------
\* Ending a session notifies its owner in the same step, and only then.
LEMMA SetTerminalStateFacts ==
  ASSUME TypeOK, NotifiedIffEnded,
         NEW s \in Terminal, SetTerminalState(s)
  PROVE  /\ state' \in SessionState /\ notified' \in BOOLEAN
         /\ callback' \in BOOLEAN /\ closes' \in Nat
         /\ NotifiedIffEnded'
         /\ state = "OPEN" => state' = s
         /\ state # "OPEN" => UNCHANGED sessionVars
<1>1. CASE state = "OPEN"
  <2>1. ~notified /\ closes = 0
    BY <1>1 DEF NotifiedIffEnded, CloseNotifiedOnce, Terminal
  <2>2. state' = s /\ notified' = TRUE /\ callback' = TRUE /\ closes' = 1
    BY <1>1, <2>1 DEF SetTerminalState, NotifyClose
  <2> QED
    BY <1>1, <2>2 DEF NotifiedIffEnded, CloseNotifiedOnce, SessionState
<1>2. CASE state # "OPEN"
  BY <1>2 DEF SetTerminalState, sessionVars, TypeOK, NotifiedIffEnded,
              CloseNotifiedOnce
<1> QED
  BY <1>1, <1>2

\* A write attempt answers within its contract, calls the write callback only
\* in an open session, and leaves the poll alone.
LEMMA TransportWriteFacts ==
  ASSUME Inv, NEW len \in 0..MaxLen, TransportWrite(len)
  PROVE  /\ state' \in SessionState /\ notified' \in BOOLEAN
         /\ callback' \in BOOLEAN /\ closes' \in Nat
         /\ NotifiedIffEnded'
         /\ state # "OPEN" => UNCHANGED sessionVars
         /\ NoIoAfterClose' /\ lateIo' \in BOOLEAN
         /\ reply' \in Reply /\ WriteReplyInContract'
         /\ UNCHANGED pollVars
<1> DEFINE Answer(status, n) ==
             reply' = [status |-> status, len |-> len, written |-> n]
           InContract == reply' \in Reply /\ WriteReplyInContract'
<1>1. ASSUME NEW status \in WriteStatus, NEW n \in 0..len,
             status = "OK" /\ len > 0 => n > 0,
             Answer(status, n)
      PROVE  InContract
  BY <1>1, MaxLenAssumption DEF Reply, WriteReplyInContract
<1>2. CASE state # "OPEN"
  <2>1. Answer("ERR_IO", 0) /\ UNCHANGED <<sessionVars, lateIo>>
    BY <1>2 DEF TransportWrite
  <2>2. InContract
    BY <1>1, <2>1 DEF WriteStatus
  <2> QED
    BY <1>2, <2>1, <2>2 DEF TransportWrite, Inv, TypeOK, NoIoAfterClose,
       sessionVars, NotifiedIffEnded, CloseNotifiedOnce
<1>3. CASE state = "OPEN" /\ len = 0
  <2>1. Answer("OK", 0) /\ UNCHANGED <<sessionVars, lateIo>>
    BY <1>3 DEF TransportWrite
  <2>2. InContract
    BY <1>1, <1>3, <2>1 DEF WriteStatus
  <2> QED
    BY <1>3, <2>1, <2>2 DEF TransportWrite, Inv, TypeOK, NoIoAfterClose,
       sessionVars, NotifiedIffEnded, CloseNotifiedOnce
<1>4. CASE state = "OPEN" /\ len # 0
  <2>1. lateIo' = FALSE
    BY <1>4 DEF TransportWrite, IoCallback, Inv, NotifiedIffEnded,
                NoIoAfterClose, Terminal
  <2>2. PICK status \in IoStatus, n \in 0..(len + 1) :
          \/ Overlong(n, len) /\ SetTerminalState("IO_ERROR") /\ Answer("ERR_PROTOCOL", 0)
          \/ /\ ~Overlong(n, len) /\ status = "OK" /\ n = 0
             /\ SetTerminalState("IO_ERROR") /\ Answer("ERR_NO_PROGRESS", 0)
          \/ /\ ~Overlong(n, len) /\ status = "OK" /\ n > 0
             /\ Answer("OK", n) /\ UNCHANGED sessionVars
          \/ /\ ~Overlong(n, len) /\ status = "WOULD_BLOCK"
             /\ Answer("WOULD_BLOCK", n) /\ UNCHANGED sessionVars
          \/ /\ ~Overlong(n, len) /\ status = "CLOSED"
             /\ SetTerminalState("PEER_CLOSED") /\ Answer("ERR_IO", n)
          \/ /\ ~Overlong(n, len) /\ status = "ERROR"
             /\ SetTerminalState("IO_ERROR") /\ Answer("ERR_IO", n)
          \/ /\ ~Overlong(n, len) /\ status = "UNKNOWN"
             /\ SetTerminalState("IO_ERROR") /\ Answer("ERR_PROTOCOL", n)
    BY <1>4 DEF TransportWrite
  <2>3. InContract
    <3>1. \E st \in WriteStatus, k \in 0..len :
            (st = "OK" /\ len > 0 => k > 0) /\ Answer(st, k)
      BY <2>2 DEF WriteStatus, Overlong
    <3> QED
      BY <1>1, <3>1
  <2>4. (\E s \in Terminal : SetTerminalState(s)) \/ UNCHANGED sessionVars
    BY <2>2 DEF Terminal
  <2>5. /\ state' \in SessionState /\ notified' \in BOOLEAN
        /\ callback' \in BOOLEAN /\ closes' \in Nat /\ NotifiedIffEnded'
    <3>1. CASE \E s \in Terminal : SetTerminalState(s)
      BY <3>1, SetTerminalStateFacts DEF Inv
    <3>2. CASE UNCHANGED sessionVars
      BY <3>2 DEF Inv, TypeOK, sessionVars, NotifiedIffEnded, CloseNotifiedOnce
    <3> QED
      BY <2>4, <3>1, <3>2
  <2> QED
    BY <1>4, <2>1, <2>3, <2>5 DEF TransportWrite, NoIoAfterClose
<1> QED
  BY <1>2, <1>3, <1>4

-----------------------------------------------------------------------------
LEMMA InvInit == Init => Inv
<1> SUFFICES ASSUME Init PROVE Inv
  OBVIOUS
<1>1. reply \in Reply /\ WriteReplyInContract
  BY MaxLenAssumption DEF Init, Reply, WriteStatus, WriteReplyInContract
<1>2. notified \in BOOLEAN /\ callback \in BOOLEAN /\ lateIo \in BOOLEAN
  BY DEF Init
<1>3. left \in 0..ChunkSize /\ closes \in Nat
  BY ChunkSizeAssumption DEF Init
<1>4. TypeOK
  BY <1>1, <1>2, <1>3 DEF Init, TypeOK, SessionState, IoStatus, PollStatus
<1>5. NotifiedIffEnded /\ AppliedWhileOpen /\ NoIoAfterClose /\ ResultMatchesState
  BY DEF Init, NotifiedIffEnded, CloseNotifiedOnce, AppliedWhileOpen,
         NoIoAfterClose, ResultMatchesState, Terminal
<1> QED
  BY <1>1, <1>4, <1>5 DEF Inv

\* A write attempt by anyone preserves the invariant: it leaves the poll where
\* it is, and a session that a poll found ended cannot change any more.
LEMMA InvWrite ==
  ASSUME Inv, NEW len \in 0..MaxLen, TransportWrite(len),
         pc \in {"owner", "input"} \/ callback
  PROVE  Inv'
<1>1. /\ state' \in SessionState /\ notified' \in BOOLEAN
      /\ callback' \in BOOLEAN /\ closes' \in Nat /\ NotifiedIffEnded'
      /\ state # "OPEN" => UNCHANGED sessionVars
      /\ NoIoAfterClose' /\ lateIo' \in BOOLEAN
      /\ reply' \in Reply /\ WriteReplyInContract'
      /\ UNCHANGED pollVars
  BY TransportWriteFacts
<1>2. TypeOK'
  BY <1>1 DEF Inv, TypeOK, pollVars
<1>3. pc \in {"data", "empty", "returned"} => UNCHANGED <<state, pc, result>>
  BY <1>1 DEF Inv, NotifiedIffEnded, Terminal, sessionVars, pollVars
<1>4. AppliedWhileOpen' /\ ResultMatchesState'
  BY <1>1, <1>3 DEF Inv, AppliedWhileOpen, ResultMatchesState, pollVars
<1> QED
  BY <1>1, <1>2, <1>4 DEF Inv

LEMMA InvClose == Inv /\ Close => Inv'
<1> SUFFICES ASSUME Inv, Close PROVE Inv'
  OBVIOUS
<1>1. UNCHANGED <<pollVars, reply, lateIo>>
  BY DEF Close
<1>2. CASE state = "OPEN"
  <2>1. ~notified /\ ~callback /\ closes = 0
    BY <1>2 DEF Inv, NotifiedIffEnded, CloseNotifiedOnce, Terminal
  <2>2. state' = "LOCAL_CLOSED" /\ notified' = TRUE /\ callback' = TRUE /\ closes' = 1
    BY <1>2, <2>1 DEF Close, NotifyClose
  <2>3. pc \in {"owner", "input"}
    BY <2>1 DEF Close
  <2> QED
    BY <1>1, <2>2, <2>3
    DEF Inv, TypeOK, NotifiedIffEnded, CloseNotifiedOnce, AppliedWhileOpen,
        NoIoAfterClose, ResultMatchesState, WriteReplyInContract, pollVars,
        SessionState, Terminal
<1>3. CASE state # "OPEN"
  <2>1. notified
    BY <1>3 DEF Inv, NotifiedIffEnded, TypeOK, SessionState, Close
  <2>2. UNCHANGED sessionVars
    BY <1>3, <2>1 DEF Close, NotifyClose, sessionVars
  <2> QED
    BY <1>1, <2>2
    DEF Inv, TypeOK, NotifiedIffEnded, CloseNotifiedOnce, AppliedWhileOpen,
        NoIoAfterClose, ResultMatchesState, WriteReplyInContract, pollVars,
        sessionVars
<1> QED
  BY <1>2, <1>3

LEMMA InvPollRead == Inv /\ PollRead => Inv'
<1> SUFFICES ASSUME Inv, PollRead PROVE Inv'
  OBVIOUS
<1>1. lateIo' = FALSE /\ reply' = reply /\ state = "OPEN"
  BY DEF PollRead, IoCallback, Inv, NotifiedIffEnded, NoIoAfterClose, Terminal
<1>2. PICK status \in IoStatus, count \in 0..(ChunkSize + 1) :
        /\ io' = status
        /\ IF Overlong(count, ChunkSize)
           THEN SetTerminalState("IO_ERROR") /\ Return("ERR_PROTOCOL")
                /\ UNCHANGED <<left, shellStatus>>
           ELSE /\ left' = count
                /\ pc' = IF count > 0 THEN "input" ELSE "empty"
                /\ shellStatus' = IF count > 0 THEN "OK" ELSE shellStatus
                /\ UNCHANGED <<sessionVars, result>>
  BY DEF PollRead
<1>3. CASE Overlong(count, ChunkSize)
  <2>1. SetTerminalState("IO_ERROR") /\ Return("ERR_PROTOCOL")
        /\ UNCHANGED <<left, shellStatus>>
    BY <1>2, <1>3
  <2>2. "IO_ERROR" \in Terminal
    BY DEF Terminal
  <2>3. /\ state' \in SessionState /\ notified' \in BOOLEAN
        /\ callback' \in BOOLEAN /\ closes' \in Nat /\ NotifiedIffEnded'
        /\ state' = "IO_ERROR"
    BY <1>1, <2>1, <2>2, SetTerminalStateFacts DEF Inv
  <2> QED
    BY <1>1, <1>2, <2>1, <2>3
    DEF Inv, TypeOK, Return, AppliedWhileOpen, NoIoAfterClose,
        ResultMatchesState, WriteReplyInContract, PollStatus
<1>4. CASE ~Overlong(count, ChunkSize)
  <2>1. /\ left' = count /\ pc' \in {"input", "empty"}
        /\ shellStatus' \in {"OK", "ERROR"}
        /\ UNCHANGED <<sessionVars, result>>
    BY <1>2, <1>4 DEF Inv, TypeOK
  <2>2. count \in 0..ChunkSize
    BY <1>4, ChunkSizeAssumption DEF Overlong
  <2> QED
    BY <1>1, <1>2, <2>1, <2>2
    DEF Inv, TypeOK, NotifiedIffEnded, CloseNotifiedOnce, AppliedWhileOpen,
        NoIoAfterClose, ResultMatchesState, WriteReplyInContract, sessionVars
<1> QED
  BY <1>3, <1>4

LEMMA InvApply == Inv /\ Apply => Inv'
<1> SUFFICES ASSUME Inv, Apply PROVE Inv'
  OBVIOUS
<1>1. state = "OPEN" /\ UNCHANGED <<io, left, shellStatus, reply, lateIo>>
  BY DEF Apply, Inv, AppliedWhileOpen
<1>2. ASSUME NEW s \in Terminal, NEW r \in PollStatus,
             SetTerminalState(s), Return(r),
             \/ r = "ERR_PROTOCOL" /\ s = "IO_ERROR"
             \/ r = "DISCONNECTED" /\ s = "PEER_CLOSED"
             \/ r = "ERR_IO"
      PROVE  Inv'
  <2>1. /\ state' \in SessionState /\ notified' \in BOOLEAN
        /\ callback' \in BOOLEAN /\ closes' \in Nat /\ NotifiedIffEnded'
        /\ state' = s
    BY <1>1, <1>2, SetTerminalStateFacts DEF Inv
  <2> QED
    BY <1>1, <1>2, <2>1
    DEF Inv, TypeOK, Return, AppliedWhileOpen, NoIoAfterClose,
        ResultMatchesState, WriteReplyInContract, Terminal
<1>3. ASSUME NEW r \in {"RX_DATA", "IDLE"}, Return(r), UNCHANGED sessionVars
      PROVE  Inv'
  BY <1>1, <1>3
  DEF Inv, TypeOK, Return, NotifiedIffEnded, CloseNotifiedOnce,
      AppliedWhileOpen, NoIoAfterClose, ResultMatchesState,
      WriteReplyInContract, sessionVars, PollStatus
<1>4. \/ \E r \in {"RX_DATA", "IDLE"} : Return(r) /\ UNCHANGED sessionVars
      \/ SetTerminalState("IO_ERROR") /\ Return("ERR_PROTOCOL")
      \/ SetTerminalState("PEER_CLOSED") /\ Return("DISCONNECTED")
      \/ SetTerminalState("IO_ERROR") /\ Return("ERR_IO")
  BY DEF Apply
<1> QED
  BY <1>2, <1>3, <1>4 DEF Terminal, PollStatus

LEMMA InvNext == Inv /\ [Next]_vars => Inv'
<1> SUFFICES ASSUME Inv, [Next]_vars PROVE Inv'
  OBVIOUS
<1> USE DEF Inv, TypeOK, NotifiedIffEnded, CloseNotifiedOnce, AppliedWhileOpen,
            NoIoAfterClose, ResultMatchesState, WriteReplyInContract
<1>1. CASE SessionInit
  BY <1>1 DEF SessionInit, SessionState, Terminal
<1>2. CASE PollRefused
  BY <1>2 DEF PollRefused, Return, sessionVars, PollStatus
<1>3. CASE PollRead
  BY <1>3, InvPollRead
<1>4. CASE InputByte
  BY <1>4, ChunkSizeAssumption DEF InputByte, sessionVars
<1>5. CASE InputDone
  BY <1>5 DEF InputDone, Return, sessionVars, PollStatus
<1>6. CASE Apply
  BY <1>6, InvApply
<1>7. CASE OwnerResumes
  BY <1>7 DEF OwnerResumes, sessionVars
<1>8. CASE Close
  BY <1>8, InvClose
<1>9. CASE CloseReturns
  BY <1>9 DEF CloseReturns, pollVars
<1>10. CASE ShellWrites
  BY <1>10, InvWrite DEF ShellWrites
<1>11. CASE Prompt
  <2>1. PICK len \in 1..MaxLen : TransportWrite(len)
    BY <1>11 DEF Prompt
  <2>2. len \in 0..MaxLen /\ pc = "owner"
    BY <1>11, MaxLenAssumption DEF Prompt
  <2> QED
    BY <2>1, <2>2, InvWrite
<1>12. CASE UNCHANGED vars
  BY <1>12 DEF vars, sessionVars, pollVars
<1> QED
  BY <1>1, <1>2, <1>3, <1>4, <1>5, <1>6, <1>7, <1>8, <1>9, <1>10, <1>11, <1>12
  DEF Next

\* The strengthened invariant holds in every state of every session.
THEOREM TcpInvariant == Spec => []Inv
  BY InvInit, InvNext, PTL DEF Spec

\* The owner's close callback runs once for a session that ends, however it
\* ends, and never for one that has not.
THEOREM TcpCloseNotifiedOnce == Spec => []CloseNotifiedOnce
<1>1. Inv => CloseNotifiedOnce
  BY DEF Inv, NotifiedIffEnded
<1> QED
  BY <1>1, TcpInvariant, PTL

\* A session that has ended keeps the reason until it is initialized again.
THEOREM TcpEndIsFinal == Spec => EndIsFinal
<1>1. Inv /\ [Next]_vars => [(state \in Terminal) => state' = state \/ closes' = 0]_vars
  <2> SUFFICES ASSUME Inv, Next, state \in Terminal, closes' # 0
               PROVE  state' = state
    OBVIOUS
  <2>1. state # "OPEN" /\ notified
    BY DEF Inv, NotifiedIffEnded, Terminal
  <2>2. \A len \in 0..MaxLen : TransportWrite(len) => state' = state
    BY <2>1, TransportWriteFacts DEF sessionVars
  <2> QED
    BY <2>1, <2>2
    DEF Next, SessionInit, PollRefused, PollRead, InputByte, InputDone, Apply,
        SetTerminalState, OwnerResumes, Close, CloseReturns, ShellWrites,
        Prompt, sessionVars
<1> QED
  BY <1>1, TcpInvariant, PTL DEF Spec, EndIsFinal

\* No read and no write is asked of a connection after its close callback.
THEOREM TcpNoIoAfterClose == Spec => []NoIoAfterClose
<1>1. Inv => NoIoAfterClose
  BY DEF Inv
<1> QED
  BY <1>1, TcpInvariant, PTL

\* The status a poll returns agrees with the state it leaves.
THEOREM TcpResultMatchesState == Spec => []ResultMatchesState
<1>1. Inv => ResultMatchesState
  BY DEF Inv
<1> QED
  BY <1>1, TcpInvariant, PTL

\* The transport answers as the shell's write loop requires.
THEOREM TcpWriteReplyInContract == Spec => []WriteReplyInContract
<1>1. Inv => WriteReplyInContract
  BY DEF Inv
<1> QED
  BY <1>1, TcpInvariant, PTL
=============================================================================
