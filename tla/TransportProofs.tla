--------------------------- MODULE TransportProofs ---------------------------
(***************************************************************************)
(* Theorems about Transport, for every set of payloads, attempt limit and  *)
(* format buffer size.                                                     *)
(***************************************************************************)
EXTENDS Transport, SequenceTheorems, TLAPS

\* Inside the loop exactly the confirmed bytes have been taken, and some are
\* left: this is what makes the properties inductive.
InLoop ==
  pc = "writing" =>
    /\ HasTransport
    /\ Len(sent) = total
    /\ total < Len(data)

\* The buffer is the text, unless the call knows better.
WholeOrCut == truncated \/ data = text

IInv ==
  /\ TypeOK
  /\ WholeOrCut
  /\ SentIsPrefix
  /\ InLoop
  /\ OkMeansDelivered
  /\ RetryableMeansIncomplete

-----------------------------------------------------------------------------
\* Handing over the next n bytes of a buffer after its first k gives its first
\* k + n bytes.
LEMMA ExtendPrefix ==
  ASSUME NEW s \in Seq(Byte), NEW k \in 0..Len(s), NEW n \in 0..(Len(s) - k)
  PROVE  /\ SubSeq(s, 1, k) \o SubSeq(s, k + 1, k + n) = SubSeq(s, 1, k + n)
         /\ SubSeq(s, 1, k + n) \in Seq(Byte)
         /\ Len(SubSeq(s, 1, k + n)) = k + n
<1>1. /\ 1 \in 1..(Len(s) + 1)
      /\ k \in (1 - 1)..Len(s)
      /\ k + n \in k..Len(s)
  BY LenProperties
<1>2. SubSeq(s, 1, k) \o SubSeq(s, k + 1, k + n) = SubSeq(s, 1, k + n)
  BY <1>1, ConcatAdjacentSubSeq
<1>3. QED
  BY <1>1, <1>2, SubSeqProperties, LenProperties

\* The initial state satisfies the inductive invariant.
LEMMA InitIInv == Init => IInv
<1> SUFFICES ASSUME Init PROVE IInv
  OBVIOUS
<1>1. <<>> \in Seq(Byte) /\ Len(<<>>) = 0 /\ SubSeq(<<>>, 1, 0) = <<>>
  OBVIOUS
<1>2. TypeOK
  <2>1. 0 \in 0..MaxAttempts
    BY MaxAttemptsAssumption
  <2>2. total \in 0..Len(data) /\ text \in Seq(Byte) /\ data \in Seq(Byte) /\ sent \in Seq(Byte)
    BY <1>1 DEF Init
  <2>3. QED
    BY <2>1, <2>2 DEF Init, TypeOK, CallbackStatus, TransportStatus, ShStatus
<1>3. SentIsPrefix
  BY <1>1 DEF Init, SentIsPrefix
<1>4. QED
  BY <1>1, <1>2, <1>3
     DEF Init, IInv, WholeOrCut, InLoop, OkMeansDelivered, RetryableMeansIncomplete

\* Starting a call preserves it, whatever the backend.
LEMMA BeginIInv ==
  ASSUME IInv, NEW whole \in Seq(Byte), NEW d \in Seq(Byte), NEW cut \in BOOLEAN,
         cut \/ d = whole, Begin(whole, d, cut)
  PROVE  IInv'
<1>1. /\ <<>> \in Seq(Byte) /\ Len(<<>>) = 0
      /\ Len(d) \in Nat /\ (d # <<>> => Len(d) > 0)
      /\ SubSeq(d, 1, 0) = <<>> /\ SubSeq(d, 1, Len(d)) = d
  BY SubSeqEmpty, SubSeqFull, LenProperties, EmptySeq
<1>2. pc = "idle" /\ 0 \in 0..MaxAttempts
  BY MaxAttemptsAssumption DEF Begin
<1>3. TypeOK'
  <2>1. /\ text' = whole /\ data' = d /\ total' = 0 /\ attempts' = 0 /\ lastStatus' = "OK"
        /\ truncated' = cut /\ backend' = backend /\ flushed' = flushed
        /\ sent' \in {<<>>, d}
        /\ pc' \in {"idle", "writing"}
        /\ verdict' \in {verdict, "OK"}
        /\ result' \in ShStatus
    BY <1>2 DEF IInv, TypeOK, Begin, CallStatus, ShStatus
  <2>2. total' \in 0..Len(data')
    BY <2>1, <1>1
  <2>3. sent' \in Seq(Byte)
    BY <2>1, <1>1
  <2>4. QED
    BY <2>1, <2>2, <2>3, <1>2
       DEF IInv, TypeOK, CallbackStatus, TransportStatus
<1>4. SentIsPrefix'
  <2>1. data' = d /\ total' = 0 /\ (sent' = <<>> \/ sent' = d)
    BY DEF Begin
  <2>2. CASE sent' = <<>>
    BY <1>1, <2>1, <2>2 DEF SentIsPrefix
  <2>3. CASE sent' = d
    BY <1>1, <2>1, <2>3 DEF SentIsPrefix
  <2>4. QED
    BY <2>1, <2>2, <2>3
<1>5. InLoop'
  BY <1>1, <1>2 DEF Begin, InLoop, HasTransport
<1>6. OkMeansDelivered' /\ RetryableMeansIncomplete'
  BY <1>2 DEF Begin, CallStatus, OkMeansDelivered, RetryableMeansIncomplete
<1>7. WholeOrCut'
  BY DEF Begin, WholeOrCut
<1>8. QED
  BY <1>3, <1>4, <1>5, <1>6, <1>7 DEF IInv

\* The loop is told the truth, an impossible count, or of a protocol error with
\* no more bytes than were taken, with the bare-metal port in between or not.
LEMMA AnswerOfCallback ==
  ASSUME IInv, CallbackReturns
  PROVE  \E status \in CallbackStatus \cup {"UNKNOWN", "ERR_PROTOCOL"},
            taken \in Nat, n \in Nat :
           /\ Attempt(status, taken, n)
           /\ \/ n = taken \/ n > Remaining
              \/ n <= taken /\ status = "ERR_PROTOCOL"
<1>1. PICK status \in CallbackStatus \cup {"UNKNOWN"},
           taken \in 0..Len(data), n \in 0..(Len(data) + 1) :
        /\ n = taken \/ n > Remaining
        /\ IF backend = "baremetal"
           THEN Attempt(PortAnswer(status, n).status, taken, PortAnswer(status, n).n)
           ELSE Attempt(status, taken, n)
  BY DEF CallbackReturns
<1>2. taken \in Nat /\ n \in Nat /\ Remaining \in Int
  BY LenProperties DEF IInv, TypeOK, Remaining
<1>3. CASE backend = "baremetal"
  <2>1. n > Remaining => PortAnswer(status, n) = [status |-> "ERR_PROTOCOL", n |-> 0]
    BY <1>2 DEF PortAnswer
  <2>2. ~(n > Remaining) => PortAnswer(status, n).n = n
    BY <1>2 DEF PortAnswer
  <2>3. CASE n > Remaining
    <3>1. Attempt("ERR_PROTOCOL", taken, 0)
      BY <1>1, <1>3, <2>1, <2>3
    <3>2. QED
      BY <1>2, <3>1
  <2>4. CASE ~(n > Remaining)
    <3>1. /\ Attempt(PortAnswer(status, n).status, taken, n) /\ n = taken
          /\ PortAnswer(status, n).status \in CallbackStatus \cup {"ERR_PROTOCOL"}
      BY <1>1, <1>3, <2>2, <2>4 DEF PortAnswer
    <3>2. QED
      BY <1>2, <3>1
  <2>5. QED
    BY <2>3, <2>4
<1>4. CASE backend # "baremetal"
  BY <1>1, <1>2, <1>4
<1>5. QED
  BY <1>3, <1>4

\* One callback invocation preserves it: `sent` grows by the next bytes only.
LEMMA AttemptIInv ==
  ASSUME IInv, NEW status, NEW taken \in Nat, NEW n \in Nat,
         Attempt(status, taken, n),
         \/ n = taken \/ n > Remaining
         \/ n <= taken /\ status = "ERR_PROTOCOL"
  PROVE  IInv'
<1>1. /\ pc = "writing" /\ HasTransport
      /\ data \in Seq(Byte) /\ Len(data) \in Nat /\ total \in Nat
      /\ Len(sent) = total /\ total < Len(data)
      /\ sent = SubSeq(data, 1, total)
      /\ attempts \in 0..MaxAttempts /\ attempts < MaxAttempts
      /\ Remaining = Len(data) - total /\ taken <= Len(data) - total
      /\ (n = taken \/ n > Len(data) - total \/ (n <= taken /\ status = "ERR_PROTOCOL"))
  BY LenProperties
     DEF IInv, TypeOK, InLoop, SentIsPrefix, Attempt, MayAttempt, Remaining
<1>2. /\ sent' = SubSeq(data, 1, total + taken)
      /\ sent' \in Seq(Byte) /\ Len(sent') = total + taken
  <2>1. total \in 0..Len(data) /\ taken \in 0..(Len(data) - total)
    BY <1>1
  <2>2. sent' = SubSeq(data, 1, total) \o SubSeq(data, total + 1, total + taken)
    BY <1>1 DEF Attempt, Offered
  <2>3. /\ SubSeq(data, 1, total) \o SubSeq(data, total + 1, total + taken)
             = SubSeq(data, 1, total + taken)
        /\ SubSeq(data, 1, total + taken) \in Seq(Byte)
        /\ Len(SubSeq(data, 1, total + taken)) = total + taken
    <3>1. data \in Seq(Byte)
      BY <1>1
    <3>2. QED
      BY <3>1, <2>1, ExtendPrefix
  <2>4. QED
    BY <2>2, <2>3
<1>3. /\ text' = text /\ data' = data /\ backend' = backend /\ truncated' = truncated
      /\ attempts' = attempts + 1 /\ flushed' = flushed
      /\ total' = IF n > Len(data) - total THEN total ELSE total + n
  BY <1>1 DEF Attempt
<1>4. /\ total' \in 0..Len(data) /\ total' <= Len(sent')
      /\ (n <= Len(data) - total /\ status # "ERR_PROTOCOL" => total' = Len(sent'))
  BY <1>1, <1>2, <1>3
<1>5. attempts' \in 0..MaxAttempts
  BY <1>1, <1>3, MaxAttemptsAssumption
<1>6. SentIsPrefix' /\ WholeOrCut'
  BY <1>1, <1>2, <1>3, <1>4 DEF IInv, SentIsPrefix, WholeOrCut
<1>7. CASE AfterAttempt(status, n) = "CONTINUE"
  <2>1. /\ status \in CallbackStatus /\ n <= Len(data) - total
        /\ n # Len(data) - total
    BY <1>1, <1>7 DEF AfterAttempt, CallbackStatus
  <2>2. /\ lastStatus' = status /\ pc' = pc
        /\ verdict' = verdict /\ result' = result
    BY <1>7 DEF Attempt
  <2>3. TypeOK'
    BY <1>1, <1>2, <1>3, <1>4, <1>5, <2>1, <2>2 DEF IInv, TypeOK
  <2>4. InLoop'
    BY <1>1, <1>3, <1>4, <2>1 DEF InLoop, HasTransport, CallbackStatus
  <2>5. OkMeansDelivered' /\ RetryableMeansIncomplete'
    BY <1>1, <2>2 DEF OkMeansDelivered, RetryableMeansIncomplete
  <2>6. QED
    BY <1>6, <2>3, <2>4, <2>5 DEF IInv
<1>8. CASE AfterAttempt(status, n) # "CONTINUE"
  <2>1. /\ AfterAttempt(status, n) \in
             {"ERR_PROTOCOL", "ERR_IO", "OK", "ERR_NO_PROGRESS"}
        /\ (AfterAttempt(status, n) = "OK" =>
              n = Len(data) - total /\ status # "ERR_PROTOCOL")
    BY <1>1, <1>8 DEF AfterAttempt, CallbackStatus
  <2>2. /\ pc' = "idle" /\ lastStatus' = lastStatus
        /\ verdict' = AfterAttempt(status, n)
        /\ result' = CallStatus(WriteStatus(AfterAttempt(status, n),
                                            total' = Len(data)), truncated)
    BY <1>3, <1>8 DEF Attempt, Return
  <2>3. /\ result' \in ShStatus /\ result' # "SH_ERR_WOULD_BLOCK"
        /\ (result' = "SH_OK" => AfterAttempt(status, n) = "OK" /\ ~truncated)
    BY <2>1, <2>2 DEF CallStatus, WriteStatus, ShStatus
  <2>4. TypeOK'
    BY <1>1, <1>2, <1>3, <1>4, <1>5, <2>1, <2>2, <2>3
       DEF IInv, TypeOK, TransportStatus, CallbackStatus
  <2>5. result' = "SH_OK" => sent' = text'
    BY <1>1, <1>2, <1>3, <2>1, <2>3, SubSeqFull DEF IInv, WholeOrCut
  <2>6. QED
    BY <1>6, <2>2, <2>3, <2>4, <2>5
       DEF IInv, InLoop, OkMeansDelivered, RetryableMeansIncomplete
<1>9. QED
  BY <1>7, <1>8

\* Running out of attempts preserves it: bytes are left, all of them unsent.
LEMMA ExhaustIInv == ASSUME IInv, Exhaust PROVE IInv'
<1>1. /\ pc = "writing" /\ pc' = "idle" /\ total < Len(data)
      /\ Len(sent) = total /\ HasTransport
      /\ UNCHANGED <<backend, text, data, truncated, total, attempts, lastStatus,
                     sent, flushed>>
      /\ verdict' = ExhaustedStatus(lastStatus)
      /\ result' = CallStatus(WriteStatus(ExhaustedStatus(lastStatus),
                                          total = Len(data)), truncated)
  BY DEF IInv, InLoop, Exhaust, Return
<1>2. verdict' \in {"WOULD_BLOCK", "ERR_ATTEMPTS_EXHAUSTED"}
  BY <1>1 DEF ExhaustedStatus
<1>3. result' \in {"SH_ERR_WOULD_BLOCK", "SH_ERR_TRUNCATED"}
  BY <1>1, <1>2 DEF CallStatus, WriteStatus
<1>4. TypeOK'
  BY <1>1, <1>2, <1>3 DEF IInv, TypeOK, TransportStatus, CallbackStatus, ShStatus
<1>5. SentIsPrefix' /\ WholeOrCut'
  BY <1>1 DEF IInv, SentIsPrefix, WholeOrCut
<1>6. QED
  BY <1>1, <1>3, <1>4, <1>5
     DEF IInv, InLoop, OkMeansDelivered, RetryableMeansIncomplete

\* Every step preserves the inductive invariant.
LEMMA StepIInv == IInv /\ [Next]_vars => IInv'
<1> SUFFICES ASSUME IInv, [Next]_vars PROVE IInv'
  OBVIOUS
<1>1. ASSUME NEW d \in Payload, Write(d) PROVE IInv'
  BY <1>1, BeginIInv, PayloadAssumption DEF Write
<1>2. ASSUME NEW d \in Payload, Printf(d) PROVE IInv'
  <2>1. d \in Seq(Byte) /\ Len(d) \in Nat
    BY PayloadAssumption, LenProperties
  <2>2. Formatted(d) \in Seq(Byte) /\ (Len(d) < FormatBuffer => Formatted(d) = d)
    <3>1. CASE Len(d) < FormatBuffer
      BY <2>1, <3>1 DEF Formatted
    <3>2. CASE ~(Len(d) < FormatBuffer)
      <4>1. \A i \in 1..(FormatBuffer - 1) : d[i] \in Byte
        BY <2>1, <3>2, FormatBufferAssumption, ElementOfSeq
      <4>2. QED
        BY <3>2, <4>1, FormatBufferAssumption, SubSeqProperties DEF Formatted
    <3>3. QED
      BY <3>1, <3>2
  <2> DEFINE cut == Len(d) >= FormatBuffer
  <2>3. cut \in BOOLEAN /\ (cut \/ Len(d) < FormatBuffer)
    BY <2>1, FormatBufferAssumption
  <2>4. Begin(d, Formatted(d), cut)
    BY <1>2 DEF Printf
  <2> HIDE DEF cut
  <2>5. QED
    BY <2>1, <2>2, <2>3, <2>4, BeginIInv
<1>3. CASE CallbackReturns
  <2>1. PICK status \in CallbackStatus \cup {"UNKNOWN", "ERR_PROTOCOL"},
             taken \in Nat, n \in Nat :
          /\ Attempt(status, taken, n)
          /\ \/ n = taken \/ n > Remaining
             \/ n <= taken /\ status = "ERR_PROTOCOL"
    BY <1>3, AnswerOfCallback
  <2>2. QED
    BY <2>1, AttemptIInv
<1>4. CASE Exhaust
  BY <1>4, ExhaustIInv
<1>5. ASSUME NEW status, Flush(status) PROVE IInv'
  <2>1. flushed' \in ShStatus /\ UNCHANGED callVars
    BY <1>5 DEF Flush, ShStatus
  <2>2. QED
    BY <2>1 DEF callVars, IInv, TypeOK, WholeOrCut, SentIsPrefix, InLoop, HasTransport,
                OkMeansDelivered, RetryableMeansIncomplete
<1>6. CASE UNCHANGED vars
  BY <1>6 DEF vars, callVars, IInv, TypeOK, WholeOrCut, SentIsPrefix, InLoop, HasTransport,
              OkMeansDelivered, RetryableMeansIncomplete
<1>7. QED
  BY <1>1, <1>2, <1>3, <1>4, <1>5, <1>6 DEF Next

-----------------------------------------------------------------------------
\* The inductive invariant, and with it the types, hold of sh_write and
\* sh_vprintf for every payload set, attempt limit and buffer size.
THEOREM TransportInvariant == Spec => []IInv
BY InitIInv, StepIInv, PTL DEF Spec

\* The types and counters of the output path stay in range.
THEOREM TransportTypeOK == Spec => []TypeOK
<1>1. IInv => TypeOK
  BY DEF IInv
<1>2. QED
  BY <1>1, TransportInvariant, PTL

\* The backend always holds an exact prefix of the buffer being written.
THEOREM TransportSentIsPrefix == Spec => []SentIsPrefix
<1>1. IInv => SentIsPrefix
  BY DEF IInv
<1>2. QED
  BY <1>1, TransportInvariant, PTL

\* Success is reported only when the backend holds the whole text, of sh_write and
\* of sh_vprintf with any buffer.
THEOREM TransportOkMeansDelivered == Spec => []OkMeansDelivered
<1>1. IInv => OkMeansDelivered
  BY DEF IInv
<1>2. QED
  BY <1>1, TransportInvariant, PTL

\* The retryable status is reported only with bytes left and none taken beyond
\* the confirmed ones.
THEOREM TransportRetryable == Spec => []RetryableMeansIncomplete
<1>1. IInv => RetryableMeansIncomplete
  BY DEF IInv
<1>2. QED
  BY <1>1, TransportInvariant, PTL
=============================================================================
