----------------------------- MODULE TcpSession -----------------------------
(***************************************************************************)
(* One shell session over TCP (sh_port_tcp.c): a poll reads once, feeds    *)
(* the bytes to the shell and applies what the read said of the            *)
(* connection. While bytes are fed, the shell writes through the session's *)
(* own transport and a command handler may close the session; whoever ends *)
(* it, the owner's close callback runs once.                               *)
(*                                                                         *)
(* The owner drives a session from one thread. The read and write          *)
(* callbacks do not call the session; the close callback may.              *)
(***************************************************************************)
EXTENDS Naturals

CONSTANTS
  ChunkSize, \* SH_TCP_RX_CHUNK_SIZE
  MaxLen     \* bound on the length of one write

ASSUME ChunkSizeAssumption == ChunkSize \in Nat \ {0}
ASSUME MaxLenAssumption == MaxLen \in Nat

VARIABLES
  state,       \* session->state
  notified,    \* session->close_notified
  callback,    \* the owner's close callback is running
  pc,          \* where the poll is: "owner" when none runs
  io,          \* the status the poll's read returned
  left,        \* bytes of the chunk sh_input has not processed
  shellStatus, \* the first error of sh_input, "OK" without one
  result,      \* status of the poll that returned last
  reply,       \* what the last transport write told the shell
  closes,      \* ghost: close callbacks of this connection
  lateIo       \* ghost: a read or write callback ran after the close callback

sessionVars == <<state, notified, callback, closes>>
pollVars == <<pc, io, left, shellStatus, result>>
vars == <<sessionVars, pollVars, reply, lateIo>>

-----------------------------------------------------------------------------
\* sh_tcp_io_status_t, and any other value a callback may return.
IoStatus == {"OK", "WOULD_BLOCK", "CLOSED", "ERROR", "UNKNOWN"}

Terminal == {"PEER_CLOSED", "IO_ERROR", "LOCAL_CLOSED"}
SessionState == {"UNINITIALIZED", "OPEN"} \cup Terminal

PollStatus == {"NONE", "IDLE", "RX_DATA", "DISCONNECTED", "ERR_CLOSED",
               "ERR_IO", "ERR_PROTOCOL", "ERR_SHELL"}
WriteStatus == {"OK", "WOULD_BLOCK", "ERR_IO", "ERR_PROTOCOL", "ERR_NO_PROGRESS"}
Reply == [status : WriteStatus, len : 0..MaxLen, written : Nat]

\* Fault: off by one.
FaultyOverlong(count, limit) == count > limit + 1

\* A callback reported more bytes than the buffer it was given holds.
Overlong(count, limit) == count > limit

\* Fault: every call notifies.
FaultyNotifyClose == notified' = TRUE /\ callback' = TRUE /\ closes' = closes + 1

\* notify_close: the flag is set before the callback runs.
NotifyClose ==
  IF notified THEN UNCHANGED <<notified, callback, closes>>
  ELSE notified' = TRUE /\ callback' = TRUE /\ closes' = closes + 1

\* set_terminal_state.
SetTerminalState(s) ==
  IF state = "OPEN" THEN state' = s /\ NotifyClose ELSE UNCHANGED sessionVars

\* Every read and write callback passes here.
IoCallback == lateIo' = (lateIo \/ notified)

Return(status) == pc' = "returned" /\ result' = status

-----------------------------------------------------------------------------
\* Before sh_tcp_session_init the memory is zero.
Init ==
  /\ state = "UNINITIALIZED" /\ notified = FALSE /\ callback = FALSE
  /\ pc = "owner" /\ io = "OK" /\ left = 0
  /\ shellStatus = "OK" /\ result = "NONE"
  /\ reply = [status |-> "OK", len |-> 0, written |-> 0]
  /\ closes = 0 /\ lateIo = FALSE

\* sh_tcp_session_init, for a first connection or after the last one ended.
\* A shell that cannot be initialized leaves the session closed to use.
SessionInit ==
  /\ pc = "owner" /\ ~callback /\ state # "OPEN"
  /\ state' \in {"OPEN", "UNINITIALIZED"}
  /\ notified' = FALSE /\ closes' = 0 /\ lateIo' = FALSE
  /\ shellStatus' = IF state' = "OPEN" THEN "OK" ELSE "ERROR"
  /\ UNCHANGED <<callback, pc, io, left, result, reply>>

\* sh_tcp_session_poll on a session that is not open.
PollRefused ==
  /\ pc = "owner" /\ ~callback
  /\ state # "OPEN"
  /\ Return("ERR_CLOSED")
  /\ UNCHANGED <<sessionVars, io, left, shellStatus, reply, lateIo>>

\* The poll's one read; a count beyond the buffer ends the session.
PollRead ==
  /\ pc = "owner" /\ ~callback
  /\ state = "OPEN"
  /\ IoCallback
  /\ \E status \in IoStatus, count \in 0..(ChunkSize + 1) :
       /\ io' = status
       /\ IF Overlong(count, ChunkSize)
          THEN SetTerminalState("IO_ERROR") /\ Return("ERR_PROTOCOL")
               /\ UNCHANGED <<left, shellStatus>>
          ELSE /\ left' = count
               /\ pc' = IF count > 0 THEN "input" ELSE "empty"
               /\ shellStatus' = IF count > 0 THEN "OK" ELSE shellStatus
               /\ UNCHANGED <<sessionVars, result>>
  /\ UNCHANGED reply

\* sh_input is done with one byte; it reports the first error.
InputByte ==
  /\ pc = "input" /\ left > 0 /\ ~callback
  /\ left' = left - 1
  /\ shellStatus' \in IF shellStatus = "OK" THEN {"OK", "ERROR"} ELSE {"ERROR"}
  /\ UNCHANGED <<sessionVars, pc, io, result, reply, lateIo>>

\* Fault: the state is not looked at again after sh_input.
FaultyInputDone ==
  /\ pc = "input" /\ left = 0 /\ ~callback
  /\ IF shellStatus # "OK" THEN Return("ERR_SHELL")
     ELSE pc' = "data" /\ UNCHANGED result
  /\ UNCHANGED <<sessionVars, io, left, shellStatus, reply, lateIo>>

\* sh_input returned: its error ends the poll, and so does a session that
\* ended while it ran; otherwise the status of the read is applied.
InputDone ==
  /\ pc = "input" /\ left = 0 /\ ~callback
  /\ IF shellStatus # "OK" THEN Return("ERR_SHELL")
     ELSE IF state # "OPEN" THEN Return("ERR_IO")
     ELSE pc' = "data" /\ UNCHANGED result
  /\ UNCHANGED <<sessionVars, io, left, shellStatus, reply, lateIo>>

\* The switch on the status of the read; "data" when it brought bytes.
Apply ==
  /\ pc \in {"data", "empty"} /\ ~callback
  /\ \/ /\ io \in {"OK", "WOULD_BLOCK"} /\ pc = "data"
        /\ Return("RX_DATA") /\ UNCHANGED sessionVars
     \/ /\ io = "WOULD_BLOCK" /\ pc = "empty"
        /\ Return("IDLE") /\ UNCHANGED sessionVars
     \/ /\ io = "OK" /\ pc = "empty"
        /\ SetTerminalState("IO_ERROR") /\ Return("ERR_PROTOCOL")
     \/ /\ io = "CLOSED"
        /\ SetTerminalState("PEER_CLOSED") /\ Return("DISCONNECTED")
     \/ /\ io = "ERROR"
        /\ SetTerminalState("IO_ERROR") /\ Return("ERR_IO")
     \/ /\ io = "UNKNOWN"
        /\ SetTerminalState("IO_ERROR") /\ Return("ERR_PROTOCOL")
  /\ UNCHANGED <<io, left, shellStatus, reply, lateIo>>

\* The owner takes the result.
OwnerResumes ==
  /\ pc = "returned" /\ ~callback
  /\ pc' = "owner"
  /\ UNCHANGED <<sessionVars, io, left, shellStatus, result, reply, lateIo>>

\* Fault: the connection is closed and the session stays open.
FaultyCloseKeepsOpen ==
  /\ pc = "owner" \/ (pc = "input" /\ left > 0) \/ callback
  /\ state # "UNINITIALIZED"
  /\ NotifyClose
  /\ UNCHANGED <<state, pollVars, reply, lateIo>>

\* Fault: a local close overwrites an earlier end.
FaultyCloseOverwrites ==
  /\ pc = "owner" \/ (pc = "input" /\ left > 0) \/ callback
  /\ state # "UNINITIALIZED"
  /\ state' = "LOCAL_CLOSED"
  /\ NotifyClose
  /\ UNCHANGED <<pollVars, reply, lateIo>>

\* sh_tcp_session_close: by the owner, by a handler while bytes are fed, or by
\* the close callback itself.
Close ==
  /\ pc = "owner" \/ (pc = "input" /\ left > 0) \/ callback
  /\ state # "UNINITIALIZED"
  /\ state' = IF state = "OPEN" THEN "LOCAL_CLOSED" ELSE state
  /\ NotifyClose
  /\ UNCHANGED <<pollVars, reply, lateIo>>

CloseReturns ==
  /\ callback
  /\ callback' = FALSE
  /\ UNCHANGED <<state, notified, closes, pollVars, reply, lateIo>>

\* sh_tcp_session_transport_write once its arguments are checked: one attempt
\* of the shell to write `len` bytes.
TransportWrite(len) ==
  LET Answer(status, n) == reply' = [status |-> status, len |-> len, written |-> n]
  IN /\ IF state # "OPEN" THEN Answer("ERR_IO", 0) /\ UNCHANGED <<sessionVars, lateIo>>
        ELSE IF len = 0 THEN Answer("OK", 0) /\ UNCHANGED <<sessionVars, lateIo>>
        ELSE /\ IoCallback
             /\ \E status \in IoStatus, n \in 0..(len + 1) :
                  \/ /\ Overlong(n, len)
                     /\ SetTerminalState("IO_ERROR") /\ Answer("ERR_PROTOCOL", 0)
                  \/ /\ ~Overlong(n, len) /\ status = "OK" /\ n = 0
                     /\ SetTerminalState("IO_ERROR") /\ Answer("ERR_NO_PROGRESS", 0)
                  \/ /\ ~Overlong(n, len) /\ status = "OK" /\ n > 0
                     /\ Answer("OK", n) /\ UNCHANGED sessionVars
                  \/ /\ ~Overlong(n, len) /\ status = "WOULD_BLOCK"
                     /\ Answer("WOULD_BLOCK", n) /\ UNCHANGED sessionVars
                  \/ /\ ~Overlong(n, len) /\ status = "CLOSED"
                     /\ SetTerminalState("PEER_CLOSED") /\ Answer("ERR_IO", n)
                  \/ /\ ~Overlong(n, len) /\ status = "ERROR"
                     /\ SetTerminalState("IO_ERROR") /\ Answer("ERR_IO", n)
                  \/ /\ ~Overlong(n, len) /\ status = "UNKNOWN"
                     /\ SetTerminalState("IO_ERROR") /\ Answer("ERR_PROTOCOL", n)
     /\ UNCHANGED pollVars

\* The shell writes while it handles a byte, and when the owner or the close
\* callback makes it (sh_puts on the session's shell).
ShellWrites ==
  /\ pc = "owner" \/ (pc = "input" /\ left > 0) \/ callback
  /\ state # "UNINITIALIZED"
  /\ \E len \in 0..MaxLen : TransportWrite(len)

\* sh_tcp_session_prompt: refused unless open; a prompt is not empty text.
Prompt ==
  /\ pc = "owner" /\ ~callback
  /\ state = "OPEN"
  /\ \E len \in 1..MaxLen : TransportWrite(len)

Next ==
  \/ SessionInit
  \/ PollRefused \/ PollRead \/ InputByte \/ InputDone \/ Apply \/ OwnerResumes
  \/ Close \/ CloseReturns
  \/ ShellWrites \/ Prompt

Spec == Init /\ [][Next]_vars

-----------------------------------------------------------------------------
TypeOK ==
  /\ state \in SessionState
  /\ notified \in BOOLEAN /\ callback \in BOOLEAN /\ lateIo \in BOOLEAN
  /\ pc \in {"owner", "input", "data", "empty", "returned"}
  /\ io \in IoStatus /\ left \in 0..ChunkSize
  /\ shellStatus \in {"OK", "ERROR"} /\ result \in PollStatus
  /\ reply \in Reply
  /\ closes \in Nat

\* The close callback has run exactly once when the session has ended, and not
\* at all before: whether the peer, an I/O error, a handler in the middle of a
\* chunk or the owner ended it, and even if the callback closes again.
CloseNotifiedOnce == closes = IF state \in Terminal THEN 1 ELSE 0

\* Once the owner has been told to release the connection, neither of its I/O
\* callbacks is called with it again, though the shell goes on processing the
\* rest of the chunk and writing its output.
NoIoAfterClose == ~lateIo

\* What a poll returns is what became of the session: data and silence mean it
\* is open, even when the shell's own output met a dead connection or a handler
\* closed it, and every end but one behind a shell error is reported as one.
ResultMatchesState ==
  pc = "returned" =>
    CASE result \in {"RX_DATA", "IDLE"} -> state = "OPEN"
      [] result = "DISCONNECTED" -> state = "PEER_CLOSED"
      [] result = "ERR_PROTOCOL" -> state = "IO_ERROR"
      [] result \in {"ERR_IO", "ERR_CLOSED"} -> state # "OPEN"
      [] OTHER -> TRUE

\* What the shell's write loop relies on (Transport): the count never exceeds
\* the request, whatever the write callback reports, and success is progress.
WriteReplyInContract ==
  /\ reply.written <= reply.len
  /\ reply.status = "OK" /\ reply.len > 0 => reply.written > 0

\* The first end of a session is its end: a later error, close or poll cannot
\* turn a peer's close into a failure, until the session is initialized again.
EndIsFinal ==
  [][(state \in Terminal) => state' = state \/ closes' = 0]_vars

\* "It feeds every confirmed byte before applying CLOSED/ERROR state, so a
\* callback may return final bytes together with disconnect" (docs/tcp.md): the
\* poll whose read said that the connection ended leaves an ended session.
EndIsApplied ==
  pc = "returned" /\ result # "ERR_CLOSED" /\ io \in {"CLOSED", "ERROR"}
    => state # "OPEN"
=============================================================================
