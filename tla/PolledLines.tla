---------------------------- MODULE PolledLines ----------------------------
(***************************************************************************)
(* What a terminal user of a bare-metal target relies on, over the whole   *)
(* byte stream: a session of LineEditor fed by sh_port_baremetal_poll from *)
(* the application's receive queue, which an interrupt fills between any   *)
(* two steps, next to the lines an observer of the bytes alone would cut.  *)
(***************************************************************************)
EXTENDS LineEditor

CONSTANTS
  Typing,    \* the bytes that arrive
  Limits,    \* the values of max_bytes_per_poll
  QueueSize, \* bytes the receive queue holds; the interrupt drops the others
  MaxRaw,    \* bound on the bytes that arrive
  MaxErrors  \* bound on the errors counted between two clears

ASSUME LimitsAssumption == Limits \subseteq Nat \ {0}

VARIABLES
  raw,      \* every byte the interrupt has queued
  queue,    \* those the port has not read yet
  executed, \* the lines handed to sh_execute_line, in order
  polling,  \* sh_port_baremetal_poll is running
  quota,    \* the bytes it may still handle
  status,   \* what the last poll returned
  errors,   \* port->read_error_count
  known     \* how many bytes had arrived when the last poll was called

port == <<polling, quota, status, errors, known>>
polledVars == <<vars, raw, queue, executed, port>>

PolledInit ==
  /\ Init
  /\ raw = <<>> /\ queue = <<>> /\ executed = <<>>
  /\ polling = FALSE /\ quota = 0 /\ status = "LIMIT_REACHED"
  /\ errors = 0 /\ known = 0

-----------------------------------------------------------------------------
\* The interrupt queues a byte.
Arrive(byte) ==
  /\ Len(raw) < MaxRaw /\ Len(queue) < QueueSize
  /\ raw' = Append(raw, byte) /\ queue' = Append(queue, byte)
  /\ UNCHANGED <<vars, executed, port>>

\* Fault: a port that has seen an error waits for the counter to be cleared.
FaultyPoll(limit) ==
  /\ ~polling /\ errors = 0
  /\ polling' = TRUE /\ quota' = limit /\ known' = Len(raw)
  /\ UNCHANGED <<vars, raw, queue, executed, status, errors>>

\* The main loop calls sh_port_baremetal_poll.
Poll(limit) ==
  /\ ~polling
  /\ polling' = TRUE /\ quota' = limit /\ known' = Len(raw)
  /\ UNCHANGED <<vars, raw, queue, executed, status, errors>>

\* sh_input_byte reaches handle_enter.
Enters(byte) ==
  byte \in {CR, LF} /\ ~(byte = LF /\ lastCr) /\ ~Decoder!Consumes(byte)

\* The read callback has a byte, and the session handles it.
ReadByte ==
  /\ polling /\ quota > 0 /\ queue # <<>>
  /\ InputByte(Head(queue))
  /\ queue' = Tail(queue) /\ quota' = quota - 1
  /\ executed' = IF Enters(Head(queue)) THEN Append(executed, line) ELSE executed
  /\ UNCHANGED <<raw, polling, status, errors, known>>

PollReturns(result) ==
  /\ polling' = FALSE /\ status' = result
  /\ UNCHANGED <<vars, raw, executed, quota, known>>

NoData ==
  /\ polling /\ quota > 0 /\ queue = <<>>
  /\ PollReturns("NO_DATA")
  /\ UNCHANGED <<queue, errors>>

\* Fault: a read that fails counts as one that finds nothing.
FaultyReadFails ==
  /\ polling /\ quota > 0 /\ errors < MaxErrors
  /\ PollReturns("NO_DATA")
  /\ UNCHANGED <<queue, errors>>

\* The read callback fails, whether bytes wait or not.
ReadFails ==
  /\ polling /\ quota > 0 /\ errors < MaxErrors
  /\ PollReturns("ERR_READ")
  /\ errors' = errors + 1
  /\ UNCHANGED queue

\* Fault: the loop reads once more before it counts, and drops what it reads.
FaultyLimitReached ==
  /\ polling /\ quota = 0
  /\ PollReturns("LIMIT_REACHED")
  /\ queue' = IF queue = <<>> THEN queue ELSE Tail(queue)
  /\ UNCHANGED errors

LimitReached ==
  /\ polling /\ quota = 0
  /\ PollReturns("LIMIT_REACHED")
  /\ UNCHANGED <<queue, errors>>

\* sh_port_baremetal_clear_read_errors, in the main loop.
ClearReadErrors ==
  /\ ~polling /\ errors' = 0
  /\ UNCHANGED <<vars, raw, queue, executed, polling, quota, status, known>>

MainLoopPolls == \E limit \in Limits : Poll(limit)

PollSteps == ReadByte \/ NoData \/ ReadFails \/ LimitReached

PolledNext ==
  \/ \E byte \in Typing : Arrive(byte)
  \/ MainLoopPolls \/ PollSteps \/ ClearReadErrors

\* The main loop keeps polling, each call goes on, and the read callback does
\* not fail for ever while bytes wait.
PolledSpec ==
  /\ PolledInit /\ [][PolledNext]_polledVars
  /\ WF_polledVars(MainLoopPolls) /\ WF_polledVars(PollSteps)
  /\ SF_polledVars(ReadByte)

-----------------------------------------------------------------------------
\* How many bytes have left the queue.
Taken == Len(raw) - Len(queue)

\* A line ends at CR, at LF, or at CR LF taken together.
LineEnd(i) ==
  \/ raw[i] = CR
  \/ raw[i] = LF /\ (i = 1 \/ raw[i - 1] # CR)

\* The line ends among the first n bytes, and the last of them.
LineEnds(n) == {i \in 1..n : LineEnd(i)}
LastEnd(n) == Max({0} \cup LineEnds(n))

\* What stays of the bytes from..to: the printable ones that fit the line.
Typed(from, to) == Fitted(Only(SubSeq(raw, from, to), 32..126))

\* Each physical line is executed once, in order, as it was typed: no byte is
\* lost between the interrupt and the editor however the polls are cut and
\* whichever of them fail, no line end is lost or counted twice (CR and LF in
\* one poll or in two), an overfull line loses its tail and nothing else, an ESC
\* that begins no sequence costs no byte, and the line being edited is what came
\* after the last end.
LinesAsTyped ==
  /\ Len(executed) = Cardinality(LineEnds(Taken))
  /\ \A i \in LineEnds(Taken) :
       executed[Cardinality(LineEnds(i))] = Typed(LastEnd(i - 1) + 1, i - 1)
  /\ line = Typed(LastEnd(Taken) + 1, Taken)

\* A main loop may sleep after NO_DATA: every byte that had arrived when it
\* called the poll has been handled.
NoDataMeansDrained ==
  ~polling /\ status = "NO_DATA" => Taken >= known

\* Every byte that arrives reaches the session, whatever the limit of the polls
\* and the errors in between.
EveryByteHandled ==
  \A i \in 1..MaxRaw : Len(raw) >= i ~> Taken >= i
=============================================================================
