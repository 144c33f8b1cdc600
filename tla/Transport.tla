----------------------------- MODULE Transport -----------------------------
(***************************************************************************)
(* Output path of the shell: sh_write, sh_puts and sh_vprintf on top of    *)
(* sh_transport_write_all, which hands one buffer to a backend that may    *)
(* take only a part of it, would block, fail, or break its contract.       *)
(*                                                                         *)
(* One call is in progress at a time (the shell is single-context); each   *)
(* invocation of the backend's write callback is a step of its own, since  *)
(* the backend's queue changes between two of them.                        *)
(***************************************************************************)
EXTENDS Naturals, Sequences

CONSTANTS
  Byte,          \* the bytes a payload is made of
  Payload,       \* the buffers the application asks to write
  MaxAttempts,   \* cfg.transport_write_attempts
  FormatBuffer   \* sizeof(buf) in sh_vprintf

\* sh_init replaces a zero attempt limit by 8, so the limit is never zero.
ASSUME MaxAttemptsAssumption == MaxAttempts \in Nat \ {0}
ASSUME FormatBufferAssumption == FormatBuffer \in Nat \ {0}
ASSUME PayloadAssumption == Payload \subseteq Seq(Byte)

VARIABLES
  backend,    \* which output backend the configuration names
  pc,         \* "idle", or "writing" inside the attempt loop
  text,       \* what the current or last call was asked to write
  data,       \* the buffer it hands to the backend
  truncated,  \* the last call was an sh_vprintf that did not fit its buffer
  total,      \* bytes the callback has confirmed in this call
  attempts,   \* callback invocations of this call
  lastStatus, \* status of the last invocation that did not end the loop
  verdict,    \* what sh_transport_write_all returned
  result,     \* what the shell call returned
  sent,       \* the bytes the backend really took in this call, in order
  flushed     \* what the last sh_flush returned

callVars == <<backend, pc, text, data, truncated, total, attempts, lastStatus,
              verdict, result, sent>>
vars == <<callVars, flushed>>

-----------------------------------------------------------------------------
CallbackStatus == {"OK", "WOULD_BLOCK", "ERR_IO"}

TransportStatus ==
  CallbackStatus \cup {"ERR_NO_PROGRESS", "ERR_PROTOCOL", "ERR_ATTEMPTS_EXHAUSTED"}

ShStatus == {"SH_OK", "SH_ERR_WOULD_BLOCK", "SH_ERR_TRANSPORT",
             "SH_ERR_TRUNCATED", "SH_ERR_INVALID_CONFIG"}

Backends == {"transport", "baremetal", "legacy", "none"}

\* cfg.transport is set: its write callback answers the loop itself, or is that
\* of the bare-metal port.
HasTransport == backend \in {"transport", "baremetal"}

Remaining == Len(data) - total

\* Fault: one invocation too many.
FaultyMayAttempt == total < Len(data) /\ attempts <= MaxAttempts

\* The condition of the write loop.
MayAttempt == total < Len(data) /\ attempts < MaxAttempts

\* Fault: every attempt offers the buffer from its start.
FaultyOffered(n) == SubSeq(data, 1, n)

\* The unwritten bytes the callback is given, and their first n.
Offered(n) == SubSeq(data, total + 1, total + n)

-----------------------------------------------------------------------------
\* What sh_write makes of the status of sh_transport_write_all.
WriteStatus(status, complete) ==
  IF status = "OK" /\ complete THEN "SH_OK"
  ELSE IF status \in {"WOULD_BLOCK", "ERR_ATTEMPTS_EXHAUSTED"}
  THEN "SH_ERR_WOULD_BLOCK"
  ELSE "SH_ERR_TRANSPORT"

\* sh_vprintf drops the status of writing a truncated prefix.
CallStatus(status, cut) == IF cut THEN "SH_ERR_TRUNCATED" ELSE status

\* Fault: WOULD_BLOCK is retried before completion is noticed.
FaultyCompletion(status, n) ==
  IF n > Remaining \/ status \notin CallbackStatus THEN "ERR_PROTOCOL"
  ELSE IF status = "ERR_IO" THEN "ERR_IO"
  ELSE IF status = "WOULD_BLOCK" THEN "CONTINUE"
  ELSE IF n = Remaining THEN "OK"
  ELSE IF n = 0 THEN "ERR_NO_PROGRESS"
  ELSE "CONTINUE"

\* What the loop does after one callback invocation that reported n bytes:
\* it returns a status, or goes round again.
AfterAttempt(status, n) ==
  IF n > Remaining \/ status \notin CallbackStatus THEN "ERR_PROTOCOL"
  ELSE IF status = "ERR_IO" THEN "ERR_IO"
  ELSE IF n = Remaining THEN "OK"
  ELSE IF status = "OK" /\ n = 0 THEN "ERR_NO_PROGRESS"
  ELSE "CONTINUE"

\* The status for a loop that ran out of attempts.
ExhaustedStatus(last) ==
  IF last = "WOULD_BLOCK" THEN "WOULD_BLOCK" ELSE "ERR_ATTEMPTS_EXHAUSTED"

-----------------------------------------------------------------------------
Init ==
  /\ backend \in Backends
  /\ pc = "idle"
  /\ text = <<>> /\ data = <<>> /\ sent = <<>>
  /\ truncated = FALSE
  /\ total = 0 /\ attempts = 0
  /\ lastStatus = "OK" /\ verdict = "OK" /\ result = "SH_OK"
  /\ flushed = "SH_OK"

\* sh_write starts on buffer d, for a call asked to write `whole`; cut says
\* sh_vprintf takes it for shortened.
Begin(whole, d, cut) ==
  /\ pc = "idle"
  /\ text' = whole /\ data' = d /\ truncated' = cut
  /\ total' = 0 /\ attempts' = 0 /\ lastStatus' = "OK"
  /\ \/ /\ backend = "none"
        /\ sent' = <<>>
        /\ result' = CallStatus("SH_ERR_INVALID_CONFIG", cut)
        /\ UNCHANGED <<pc, verdict>>
     \/ /\ backend = "legacy"      \* cfg.write cannot report failure
        /\ sent' = d
        /\ result' = CallStatus("SH_OK", cut)
        /\ UNCHANGED <<pc, verdict>>
     \/ /\ HasTransport /\ d = <<>>
        /\ sent' = <<>>
        /\ verdict' = "OK"
        /\ result' = CallStatus("SH_OK", cut)
        /\ UNCHANGED pc
     \/ /\ HasTransport /\ d # <<>>
        /\ sent' = <<>>
        /\ pc' = "writing"
        /\ UNCHANGED <<verdict, result>>
  /\ UNCHANGED <<backend, flushed>>

\* sh_write and sh_puts hand the caller's buffer on as it is.
Write(d) == Begin(d, d, FALSE)

\* vsnprintf into a fixed buffer: what fits before its NUL.
Formatted(d) == IF Len(d) < FormatBuffer THEN d ELSE SubSeq(d, 1, FormatBuffer - 1)

\* Fault: the place of the NUL is counted as room for a byte.
FaultyPrintf(d) == Begin(d, Formatted(d), Len(d) > FormatBuffer)

\* sh_vprintf.
Printf(d) == Begin(d, Formatted(d), Len(d) >= FormatBuffer)

Return(status, complete) ==
  /\ pc' = "idle"
  /\ verdict' = status
  /\ result' = CallStatus(WriteStatus(status, complete), truncated)

\* Fault: the port cuts an impossible count to the bytes it offered.
FaultyPortAnswer(status, n) ==
  [status |-> IF status \in CallbackStatus THEN status ELSE "ERR_PROTOCOL",
   n |-> IF n > Remaining THEN Remaining ELSE n]

\* sh_port_baremetal_transport_write: an impossible count, or an unknown status
\* of the application's write callback, is a protocol error.
PortAnswer(status, n) ==
  [status |-> IF n <= Remaining /\ status \in CallbackStatus THEN status
              ELSE "ERR_PROTOCOL",
   n |-> IF n > Remaining THEN 0 ELSE n]

\* One invocation of transport->write: the backend takes `taken` of the bytes
\* left, and the loop is told `n`.
Attempt(status, taken, n) ==
  /\ pc = "writing"
  /\ MayAttempt
  /\ taken <= Remaining
  /\ attempts' = attempts + 1
  /\ sent' = sent \o Offered(taken)
  /\ total' = IF n > Remaining THEN total ELSE total + n
  /\ LET next == AfterAttempt(status, n)
     IN IF next = "CONTINUE"
        THEN /\ lastStatus' = status
             /\ UNCHANGED <<pc, verdict, result>>
        ELSE /\ Return(next, total' = Len(data))
             /\ UNCHANGED lastStatus
  /\ UNCHANGED <<backend, text, data, truncated, flushed>>

\* Fault: running out of attempts renews them.
FaultyExhaust ==
  /\ pc = "writing"
  /\ ~MayAttempt
  /\ attempts' = 0
  /\ UNCHANGED <<backend, pc, text, data, truncated, total, lastStatus, verdict,
                 result, sent, flushed>>

\* The loop guard fails with bytes left over.
Exhaust ==
  /\ pc = "writing"
  /\ ~MayAttempt
  /\ Return(ExhaustedStatus(lastStatus), total = Len(data))
  /\ UNCHANGED <<backend, text, data, truncated, total, attempts, lastStatus, sent,
                 flushed>>

\* sh_flush: the callback's status, or success when there is nothing to call.
Flush(status) ==
  /\ pc = "idle"
  /\ flushed' = IF ~HasTransport \/ status \in {"OK", "NO_CALLBACK"}
                THEN "SH_OK"
                ELSE IF status = "WOULD_BLOCK" THEN "SH_ERR_WOULD_BLOCK"
                ELSE "SH_ERR_TRANSPORT"
  /\ UNCHANGED callVars

\* The application's callback reports the bytes it took, or more than there were.
CallbackReturns ==
  \E status \in CallbackStatus \cup {"UNKNOWN"}, taken \in 0..Len(data),
     n \in 0..Len(data) + 1 :
    /\ n = taken \/ n > Remaining
    /\ IF backend = "baremetal"
       THEN Attempt(PortAnswer(status, n).status, taken, PortAnswer(status, n).n)
       ELSE Attempt(status, taken, n)

Next ==
  \/ \E d \in Payload : Write(d)
  \/ \E d \in Payload : Printf(d)
  \/ CallbackReturns
  \/ Exhaust
  \/ \E status \in CallbackStatus \cup {"UNKNOWN", "NO_CALLBACK"} : Flush(status)

\* The callback returns every time it is called, whatever it returns.
Spec == Init /\ [][Next]_vars /\ WF_vars(CallbackReturns) /\ WF_vars(Exhaust)

-----------------------------------------------------------------------------
\* The types of the variables, and the two counters within their limits.
TypeOK ==
  /\ backend \in Backends
  /\ pc \in {"idle", "writing"}
  /\ text \in Seq(Byte) /\ data \in Seq(Byte) /\ sent \in Seq(Byte)
  /\ truncated \in BOOLEAN
  /\ total \in 0..Len(data)
  /\ attempts \in 0..MaxAttempts
  /\ lastStatus \in CallbackStatus
  /\ verdict \in TransportStatus
  /\ result \in ShStatus /\ flushed \in ShStatus

\* Whatever mix of partial progress, WOULD_BLOCK, errors and broken reports
\* the callback answers with, the backend has received a prefix of the buffer,
\* no byte twice and none skipped, and never less than the loop has confirmed.
SentIsPrefix ==
  /\ Len(sent) <= Len(data)
  /\ sent = SubSeq(data, 1, Len(sent))
  /\ HasTransport => total <= Len(sent)

\* A call reports success only when the backend holds all it was asked to write:
\* not only the buffer of sh_write, but the whole text sh_vprintf formatted.
OkMeansDelivered ==
  pc = "idle" /\ result = "SH_OK" => sent = text

\* The retryable status is reported only when bytes are left, and the backend
\* holds exactly the confirmed ones: a caller that sends the rest later neither
\* repeats nor loses a byte.
RetryableMeansIncomplete ==
  pc = "idle" /\ HasTransport /\ result = "SH_ERR_WOULD_BLOCK" =>
    total < Len(data) /\ Len(sent) = total

\* Every write returns, even to a backend that never takes a byte.
WriteReturns == pc = "writing" ~> pc = "idle"
=============================================================================
