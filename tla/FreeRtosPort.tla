---------------------------- MODULE FreeRtosPort ----------------------------
(***************************************************************************)
(* The FreeRTOS adapter: an interrupt fills the RX stream buffer, a task   *)
(* runs sh_freertos_run, a driver empties the TX stream buffer, and other  *)
(* tasks request a stop, clear it or reset the statistics.                 *)
(*                                                                         *)
(* One step is one critical section, one stream-buffer call or one         *)
(* interrupt: on a single core the interrupt runs between any two of them, *)
(* never inside one.                                                       *)
(***************************************************************************)
EXTENDS Naturals, Sequences, FiniteSets

CONSTANTS
  Task,        \* tasks that call sh_freertos_run (the contract wants one)
  ChunkSize,   \* config.read_chunk_size
  RxCapacity,  \* bytes the RX stream buffer holds
  TxCapacity,  \* bytes the TX stream buffer holds
  CounterMax,  \* UINT32_MAX, where the statistics saturate
  MaxBurst,    \* bound: bytes of one interrupt, and of one write
  MaxBytes,    \* bound: bytes that arrive or are offered to TX in a behaviour
  MaxInvalid   \* bound: calls with invalid arguments, until a reset

ASSUME TaskAssumption == Task # {}
ASSUME SizeAssumption ==
  {ChunkSize, RxCapacity, TxCapacity, CounterMax} \subseteq Nat \ {0}
ASSUME BoundAssumption == {MaxBurst, MaxBytes, MaxInvalid} \subseteq Nat

VARIABLES
  running, stop,     \* port->running, port->stop_requested
  pc, chunk,         \* per task: place in sh_freertos_run, received bytes
  writing,           \* per task: [len, sent] of a write not yet counted
  status,            \* what sh_freertos_run returned last
  rx, txLen,         \* contents of the RX stream, fill of the TX stream
  stats,             \* the saturating counters
  \* History, for the properties. Received bytes are numbered by arrival:
  arrived,           \* how many have arrived
  fed, lost,         \* those given to sh_input, in order; those a stop drops
  offered, drained,  \* bytes offered to TX, taken from it by the driver
  carried,           \* what the last reset of the counters left unaccounted
  fedSinceStop       \* chunks this run fed to sh_input after a stop request

portVars == <<running, stop, stats>>
taskVars == <<pc, chunk, writing, status>>
history  == <<arrived, fed, lost, offered, drained, carried, fedSinceStop>>
vars == <<portVars, taskVars, rx, txLen, history>>

-----------------------------------------------------------------------------
InLoop == {"firstCheck", "prompt", "check", "receive", "recheck", "deliver",
           "input", "fail", "exit"}

Owners == {t \in Task : pc[t] \in InLoop}

Counters == {"rxEnqueued", "rxDelivered", "rxOverflow", "rxErrors",
             "txEnqueued", "txOverflow", "txErrors"}

Least(a, b) == IF a < b THEN a ELSE b

\* Fault: no saturation, in a counter without a width.
FaultyCounterAdd(count, amount) == count + amount

\* counter_add: saturates instead of wrapping.
CounterAdd(count, amount) ==
  IF amount > CounterMax - count THEN CounterMax ELSE count + amount

Goto(t, from, to) == pc[t] = from /\ pc' = [pc EXCEPT ![t] = to]

Idle == [len |-> 0, sent |-> 0]

-----------------------------------------------------------------------------
Init ==
  /\ running = FALSE /\ stop = FALSE
  /\ pc = [t \in Task |-> "out"]
  /\ chunk = [t \in Task |-> <<>>]
  /\ writing = [t \in Task |-> Idle]
  /\ status = "SH_OK"
  /\ rx = <<>> /\ txLen = 0
  /\ stats = [c \in Counters |-> 0]
  /\ arrived = 0 /\ fed = <<>> /\ lost = {}
  /\ offered = 0 /\ drained = 0 /\ carried = [rx |-> 0, tx |-> 0]
  /\ fedSinceStop = 0

\* sh_freertos_rx_from_isr with `len` bytes: queue what fits, count the rest.
RxFromIsr(len) ==
  /\ arrived + offered + len <= MaxBytes
  /\ LET sent == Least(len, RxCapacity - Len(rx))
     IN /\ rx' = rx \o [i \in 1..sent |-> arrived + i]
        /\ stats' = [stats EXCEPT
                       !["rxEnqueued"] = CounterAdd(@, sent),
                       !["rxOverflow"] = CounterAdd(@, len - sent)]
  /\ arrived' = arrived + len
  /\ UNCHANGED <<running, stop, taskVars, txLen, fed, lost, carried, drained,
                 offered, fedSinceStop>>

\* The same call with invalid arguments.
RxInvalid ==
  /\ stats["rxErrors"] < MaxInvalid
  /\ stats' = [stats EXCEPT !["rxErrors"] = CounterAdd(@, 1)]
  /\ UNCHANGED <<running, stop, taskVars, rx, txLen, history>>

-----------------------------------------------------------------------------
\* Fault: the port is claimed without looking whether it is taken.
FaultyEnter(t) ==
  /\ Goto(t, "out", "firstCheck")
  /\ running' = TRUE
  /\ UNCHANGED <<stop, stats, chunk, writing, status, rx, txLen, history>>

\* sh_freertos_run: claim the port, or report that it is taken.
Enter(t) ==
  /\ pc[t] = "out"
  /\ IF running
     THEN /\ status' = "SH_ERR_BUSY"
          /\ UNCHANGED <<running, pc>>
     ELSE /\ running' = TRUE
          /\ pc' = [pc EXCEPT ![t] = "firstCheck"]
          /\ UNCHANGED status
  /\ UNCHANGED <<stop, stats, chunk, writing, rx, txLen, history>>

\* No prompt when a stop was requested before the loop.
FirstCheck(t) ==
  /\ Goto(t, "firstCheck", IF stop THEN "check" ELSE "prompt")
  /\ UNCHANGED <<portVars, chunk, writing, status, rx, txLen, history>>

PromptDone(t) ==
  /\ Goto(t, "prompt", "check")
  /\ writing[t] = Idle
  /\ UNCHANGED <<portVars, chunk, writing, status, rx, txLen, history>>

\* The loop condition.
Check(t) ==
  /\ Goto(t, "check", IF stop THEN "exit" ELSE "receive")
  /\ UNCHANGED <<portVars, chunk, writing, status, rx, txLen, history>>

\* Fault: the receive waits for a full chunk.
FaultyReceive(t) ==
  /\ Goto(t, "receive", "recheck")
  /\ LET n == IF Len(rx) < ChunkSize THEN 0 ELSE ChunkSize
     IN /\ chunk' = [chunk EXCEPT ![t] = SubSeq(rx, 1, n)]
        /\ rx' = SubSeq(rx, n + 1, Len(rx))
  /\ UNCHANGED <<portVars, writing, status, txLen, history>>

\* xStreamBufferReceive: up to a chunk of what is there, nothing on timeout.
Receive(t) ==
  /\ Goto(t, "receive", "recheck")
  /\ LET n == Least(ChunkSize, Len(rx))
     IN /\ chunk' = [chunk EXCEPT ![t] = SubSeq(rx, 1, n)]
        /\ rx' = SubSeq(rx, n + 1, Len(rx))
  /\ UNCHANGED <<portVars, writing, status, txLen, history>>

\* Fault: a stop puts the bytes in hand back, behind the queued ones.
FaultyRecheck(t) ==
  /\ Goto(t, "recheck", IF stop THEN "exit"
                        ELSE IF chunk[t] = <<>> THEN "check" ELSE "deliver")
  /\ rx' = IF stop THEN rx \o chunk[t] ELSE rx
  /\ chunk' = IF stop THEN [chunk EXCEPT ![t] = <<>>] ELSE chunk
  /\ UNCHANGED <<portVars, writing, status, txLen, history>>

\* A stop seen after the receive leaves the loop and drops the bytes in hand.
Recheck(t) ==
  /\ \/ /\ stop
        /\ Goto(t, "recheck", "exit")
        /\ lost' = lost \cup {chunk[t][i] : i \in 1..Len(chunk[t])}
        /\ chunk' = [chunk EXCEPT ![t] = <<>>]
     \/ /\ ~stop
        /\ Goto(t, "recheck", IF chunk[t] = <<>> THEN "check" ELSE "deliver")
        /\ UNCHANGED <<lost, chunk>>
  /\ UNCHANGED <<portVars, writing, status, rx, txLen, arrived, fed, carried,
                 drained, offered, fedSinceStop>>

\* Fault: a full chunk is counted whatever was received.
FaultyDeliver(t) ==
  /\ Goto(t, "deliver", "input")
  /\ stats' = [stats EXCEPT !["rxDelivered"] = CounterAdd(@, ChunkSize)]
  /\ UNCHANGED <<running, stop, chunk, writing, status, rx, txLen, history>>

\* Count the chunk before it is processed.
Deliver(t) ==
  /\ Goto(t, "deliver", "input")
  /\ stats' = [stats EXCEPT !["rxDelivered"] = CounterAdd(@, Len(chunk[t]))]
  /\ UNCHANGED <<running, stop, chunk, writing, status, rx, txLen, history>>

\* Fault: an input error leaves the loop like a stop.
FaultyInputDone(t, ok) ==
  /\ Goto(t, "input", IF ok THEN "check" ELSE "exit")
  /\ writing[t] = Idle
  /\ fed' = fed \o chunk[t]
  /\ chunk' = [chunk EXCEPT ![t] = <<>>]
  /\ fedSinceStop' = IF stop THEN fedSinceStop + 1 ELSE 0
  /\ UNCHANGED <<portVars, writing, status, rx, txLen, arrived, lost, carried,
                 drained, offered>>

\* sh_input has processed the chunk; anything but SH_OK ends the loop.
InputDone(t, ok) ==
  /\ Goto(t, "input", IF ok THEN "check" ELSE "fail")
  /\ writing[t] = Idle
  /\ fed' = fed \o chunk[t]
  /\ chunk' = [chunk EXCEPT ![t] = <<>>]
  /\ fedSinceStop' = IF stop THEN fedSinceStop + 1 ELSE 0
  /\ UNCHANGED <<portVars, writing, status, rx, txLen, arrived, lost, carried,
                 drained, offered>>

\* Return the status of sh_input and release the port.
Fail(t) ==
  /\ Goto(t, "fail", "out")
  /\ stats' = [stats EXCEPT !["rxErrors"] = CounterAdd(@, 1)]
  /\ running' = FALSE
  /\ status' = "SH_ERR"
  /\ fedSinceStop' = 0
  /\ UNCHANGED <<stop, chunk, writing, rx, txLen, arrived, fed, lost, carried,
                 drained, offered>>

\* Fault: the way out of a stop does not release the port.
FaultyExit(t) ==
  /\ Goto(t, "exit", "out")
  /\ status' = "SH_OK"
  /\ fedSinceStop' = 0
  /\ UNCHANGED <<portVars, chunk, writing, rx, txLen, arrived, fed, lost, carried,
                 drained, offered>>

\* Return SH_OK after a stop and release the port.
Exit(t) ==
  /\ Goto(t, "exit", "out")
  /\ running' = FALSE
  /\ status' = "SH_OK"
  /\ fedSinceStop' = 0
  /\ UNCHANGED <<stop, stats, chunk, writing, rx, txLen, arrived, fed, lost,
                 carried, drained, offered>>

-----------------------------------------------------------------------------
\* sh_freertos_transport_write called by the prompt or by sh_input: the stream
\* takes what fits until the write timeout ...
TxSend(t, len) ==
  /\ pc[t] \in {"prompt", "input"}
  /\ writing[t] = Idle
  /\ arrived + offered + len <= MaxBytes
  /\ LET sent == Least(len, TxCapacity - txLen)
     IN /\ txLen' = txLen + sent
        /\ writing' = [writing EXCEPT ![t] = [len |-> len, sent |-> sent]]
  /\ offered' = offered + len
  /\ UNCHANGED <<portVars, pc, chunk, status, rx, arrived, fed, lost, carried,
                 drained, fedSinceStop>>

\* Fault: the bytes offered are counted as queued.
FaultyTxCount(t) ==
  /\ writing[t] # Idle
  /\ stats' = [stats EXCEPT !["txEnqueued"] = CounterAdd(@, writing[t].len)]
  /\ writing' = [writing EXCEPT ![t] = Idle]
  /\ UNCHANGED <<running, stop, pc, chunk, status, rx, txLen, history>>

\* ... and a critical section of its own counts it.
TxCount(t) ==
  /\ writing[t] # Idle
  /\ stats' = [stats EXCEPT
                 !["txEnqueued"] = CounterAdd(@, writing[t].sent),
                 !["txOverflow"] = CounterAdd(@, writing[t].len - writing[t].sent)]
  /\ writing' = [writing EXCEPT ![t] = Idle]
  /\ UNCHANGED <<running, stop, pc, chunk, status, rx, txLen, history>>

\* The same call with invalid arguments.
TxInvalid ==
  /\ stats["txErrors"] < MaxInvalid
  /\ stats' = [stats EXCEPT !["txErrors"] = CounterAdd(@, 1)]
  /\ UNCHANGED <<running, stop, taskVars, rx, txLen, history>>

\* The UART driver takes bytes from the TX stream.
TxDrain ==
  /\ txLen > 0
  /\ txLen' = txLen - 1
  /\ drained' = drained + 1
  /\ UNCHANGED <<portVars, taskVars, rx, arrived, fed, lost, carried, offered,
                 fedSinceStop>>

-----------------------------------------------------------------------------
\* sh_freertos_request_stop, from any task or from a command handler.
RequestStop ==
  /\ stop' = TRUE
  /\ UNCHANGED <<running, stats, taskVars, rx, txLen, history>>

\* Fault: a request can be withdrawn under a running loop.
FaultyClearStop ==
  /\ stop' = FALSE
  /\ UNCHANGED <<running, stats, taskVars, rx, txLen, history>>

\* sh_freertos_clear_stop: refused while the loop runs.
ClearStop ==
  /\ ~running
  /\ stop' = FALSE
  /\ UNCHANGED <<running, stats, taskVars, rx, txLen, history>>

\* sh_freertos_reset_stats: refused while the loop runs.
ResetStats ==
  /\ ~running
  /\ stats' = [c \in Counters |-> 0]
  /\ carried' = [rx |-> Len(rx) + Cardinality(lost), tx |-> txLen + drained]
  /\ UNCHANGED <<running, stop, taskVars, rx, txLen, arrived, fed, lost,
                 offered, drained, fedSinceStop>>

\* The steps sh_freertos_run takes by itself once it owns the port.
RunStep(t) ==
  \/ FirstCheck(t) \/ PromptDone(t) \/ Check(t) \/ Receive(t) \/ Recheck(t)
  \/ Deliver(t) \/ (\E ok \in BOOLEAN : InputDone(t, ok)) \/ Fail(t) \/ Exit(t)
  \/ TxCount(t)

Next ==
  \/ \E t \in Task : Enter(t) \/ RunStep(t)
  \/ \E t \in Task, len \in 1..MaxBurst : TxSend(t, len)
  \/ \E len \in 1..MaxBurst : RxFromIsr(len)
  \/ RxInvalid \/ TxInvalid \/ TxDrain \/ RequestStop \/ ClearStop \/ ResetStats

\* The scheduler runs the shell task; the receive times out, the transmit
\* times out and command handlers return, so each of its steps is taken.
\* Nothing is assumed of the interrupt, the driver or the other tasks.
Spec == Init /\ [][Next]_vars /\ \A t \in Task : WF_vars(RunStep(t))

-----------------------------------------------------------------------------
ChunkOf(t) == {chunk[t][i] : i \in 1..Len(chunk[t])}
Fed == {fed[i] : i \in 1..Len(fed)}
Queued == {rx[i] : i \in 1..Len(rx)}
InHand == UNION {ChunkOf(t) : t \in Task}

\* Received, not yet in the counter of delivered bytes.
Uncounted == {t \in Task : pc[t] \in {"recheck", "deliver"}}

TypeOK ==
  /\ running \in BOOLEAN /\ stop \in BOOLEAN
  /\ pc \in [Task -> InLoop \cup {"out"}]
  /\ chunk \in [Task -> Seq(Nat)]
  /\ \A t \in Task : Len(chunk[t]) <= ChunkSize
  /\ writing \in [Task -> [len : Nat, sent : Nat]]
  /\ status \in {"SH_OK", "SH_ERR", "SH_ERR_BUSY"}
  /\ rx \in Seq(Nat) /\ Len(rx) <= RxCapacity
  /\ txLen \in 0..TxCapacity
  /\ stats \in [Counters -> 0..CounterMax]

\* Two tasks are never inside sh_freertos_run at once, and `running`, which
\* clear_stop and reset_stats rely on, says exactly whether one is: also on the
\* way out of a run that an input error ended.
SingleOwner ==
  /\ \A t, u \in Owners : t = u
  /\ running <=> Owners # {}

\* Bytes reach the shell at most once and in the order they arrived, across
\* overflows, stops and restarts, and a byte a stop dropped never comes back.
RxInOrder ==
  LET chain == fed \o (IF Owners = {} THEN <<>>
                       ELSE chunk[CHOOSE t \in Owners : TRUE]) \o rx
  IN /\ \A i, j \in 1..Len(chain) : i < j => chain[i] < chain[j]
     /\ \A i \in 1..Len(chain) : chain[i] \notin lost

\* The RX counters balance at every instant until one saturates: bytes queued
\* are delivered, dropped by a stop, in hand or still queued.
RxBalance ==
  stats["rxEnqueued"] < CounterMax /\ stats["rxDelivered"] < CounterMax =>
    stats["rxEnqueued"] + carried.rx =
      stats["rxDelivered"] + Len(rx) + Cardinality(lost)
        + Cardinality(UNION {ChunkOf(t) : t \in Uncounted})

\* The TX counter balances with the stream, except for the write whose critical
\* section is still to come.
TxBalance ==
  stats["txEnqueued"] < CounterMax =>
    stats["txEnqueued"] + carried.tx
      + (IF Owners = {} THEN 0 ELSE writing[CHOOSE t \in Owners : TRUE].sent)
      = txLen + drained

\* After a stop request a run feeds the shell at most the chunk it had already
\* committed to.
OneChunkAfterStop == fedSinceStop <= 1

\* A stop request stays latched as long as a loop could still have to see it.
StopStaysLatched == [][stop /\ ~stop' => Owners = {}]_vars

\* sh_freertos_run returns SH_OK only when a stop was requested; a run that an
\* input error ended reports the error.
OkOnlyAfterStop ==
  [][\A t \in Task : pc[t] \in InLoop /\ pc'[t] = "out" /\ status' = "SH_OK"
       => stop]_vars

\* A stop request ends the loop, under any interrupt load.
StopEndsRun == stop /\ running ~> ~running

\* While the loop runs, every queued byte is given to the shell or, by a stop,
\* dropped.
QueuedByteHandled ==
  \A b \in 1..MaxBytes : b \in Queued /\ running ~> b \in Fed \cup lost \/ ~running
=============================================================================
