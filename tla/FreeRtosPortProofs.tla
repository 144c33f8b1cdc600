------------------------- MODULE FreeRtosPortProofs -------------------------
(***************************************************************************)
(* FreeRtosPort for any number of tasks, any chunk and stream sizes, any   *)
(* width of the counters and any interrupt load: ownership and the stop    *)
(* protocol, the order of the bytes and the balance of the counters.       *)
(*                                                                         *)
(* Control is inductive: `running` tells whether a task is in the loop, so *)
(* clear_stop cannot withdraw a request that a loop still has to see, so a *)
(* task on its way to SH_OK has one behind it, and a chunk fed after the   *)
(* request is followed by the check that sees it. Account adds what a task *)
(* has in hand to what was counted, fed and queued.                        *)
(***************************************************************************)
EXTENDS FreeRtosPort, SequenceTheorems, FiniteSetTheorems, TLAPS

\* Where a task can be right after it fed a chunk.
AfterInput == {"check", "exit", "fail"}

\* A run that fed a chunk after a stop request goes straight to its end.
FedGoesToEnd ==
  /\ fedSinceStop \in {0, 1}
  /\ fedSinceStop = 1 =>
       /\ stop /\ Owners # {}
       /\ \A t \in Owners : pc[t] \in AfterInput

ExitHasStop == \A t \in Task : pc[t] = "exit" => stop

\* A write takes no more than it was offered.
Types ==
  /\ TypeOK
  /\ arrived \in Nat
  /\ \A t \in Task : writing[t].sent <= writing[t].len

Control == SingleOwner /\ FedGoesToEnd /\ ExitHasStop

Inv == Types /\ Control

-----------------------------------------------------------------------------
LEMMA SizesNat ==
  /\ ChunkSize \in Nat /\ RxCapacity \in Nat /\ TxCapacity \in Nat /\ CounterMax \in Nat
  /\ ChunkSize # 0 /\ RxCapacity # 0 /\ TxCapacity # 0 /\ CounterMax # 0
BY SizeAssumption

\* The saturating addition stays in range and never goes down.
LEMMA CounterAddFacts ==
  ASSUME NEW count \in 0..CounterMax, NEW amount \in Nat
  PROVE  CounterAdd(count, amount) \in 0..CounterMax /\ CounterAdd(count, amount) >= count
BY SizesNat DEF CounterAdd

LEMMA LeastFacts ==
  ASSUME NEW a \in Nat, NEW b \in Nat
  PROVE  Least(a, b) \in Nat /\ Least(a, b) <= a /\ Least(a, b) <= b
BY DEF Least

\* Adding to one or to two of the counters keeps all of them in range.
LEMMA StatsAdd ==
  ASSUME TypeOK, NEW c \in Counters, NEW m \in Nat
  PROVE  [stats EXCEPT ![c] = CounterAdd(@, m)] \in [Counters -> 0..CounterMax]
<1>1. CounterAdd(stats[c], m) \in 0..CounterMax
  <2>1. stats[c] \in 0..CounterMax
    BY DEF TypeOK
  <2> QED
    BY <2>1, CounterAddFacts
<1> QED
  BY <1>1 DEF TypeOK

LEMMA StatsAddTwo ==
  ASSUME TypeOK, NEW c \in Counters, NEW d \in Counters, c # d,
         NEW m \in Nat, NEW n \in Nat
  PROVE  [stats EXCEPT ![c] = CounterAdd(@, m), ![d] = CounterAdd(@, n)]
           \in [Counters -> 0..CounterMax]
<1>1. CounterAdd(stats[c], m) \in 0..CounterMax /\ CounterAdd(stats[d], n) \in 0..CounterMax
  <2>1. stats[c] \in 0..CounterMax /\ stats[d] \in 0..CounterMax
    BY DEF TypeOK
  <2> QED
    BY <2>1, CounterAddFacts
<1> QED
  BY <1>1 DEF TypeOK

-----------------------------------------------------------------------------
LEMMA TypesInit == Init => Types
<1> SUFFICES ASSUME Init PROVE Types
  OBVIOUS
<1>1. running \in BOOLEAN /\ stop \in BOOLEAN
  BY DEF Init
<1>2. stats \in [Counters -> 0..CounterMax] /\ txLen \in 0..TxCapacity
  BY SizesNat DEF Init
<1>3. /\ rx \in Seq(Nat) /\ Len(rx) <= RxCapacity
      /\ chunk \in [Task -> Seq(Nat)] /\ \A t \in Task : Len(chunk[t]) <= ChunkSize
  BY SizesNat DEF Init
<1>4. /\ pc \in [Task -> InLoop \cup {"out"}]
      /\ writing \in [Task -> [len : Nat, sent : Nat]]
      /\ status \in {"SH_OK", "SH_ERR", "SH_ERR_BUSY"}
      /\ arrived \in Nat /\ \A t \in Task : writing[t].sent <= writing[t].len
  BY DEF Init, Idle
<1> QED
  BY <1>1, <1>2, <1>3, <1>4 DEF Types, TypeOK

LEMMA TypesRxFromIsr ==
  ASSUME Types, NEW len \in 1..MaxBurst, RxFromIsr(len) PROVE Types'
<1> DEFINE sent == Least(len, RxCapacity - Len(rx))
<1>1. /\ len \in Nat /\ RxCapacity \in Nat /\ Len(rx) \in Nat
      /\ Len(rx) <= RxCapacity
  BY BoundAssumption, SizesNat DEF Types, TypeOK
<1>2. sent \in Nat /\ sent <= len /\ Len(rx) + sent <= RxCapacity
  <2>1. RxCapacity - Len(rx) \in Nat
    BY <1>1
  <2>2. sent \in Nat /\ sent <= len /\ sent <= RxCapacity - Len(rx)
    BY <1>1, <2>1, LeastFacts
  <2> QED
    BY <1>1, <2>1, <2>2
<1> HIDE DEF sent
<1>3. /\ rx' = rx \o [i \in 1..sent |-> arrived + i]
      /\ stats' = [stats EXCEPT !["rxEnqueued"] = CounterAdd(@, sent),
                                !["rxOverflow"] = CounterAdd(@, len - sent)]
  BY DEF RxFromIsr, sent
<1>4. rx' \in Seq(Nat) /\ Len(rx') <= RxCapacity
  <2>1. [i \in 1..sent |-> arrived + i] \in Seq(Nat)
    BY <1>2 DEF Types
  <2>2. Len([i \in 1..sent |-> arrived + i]) = sent
    BY <1>2
  <2> QED
    BY <1>2, <1>3, <2>1, <2>2 DEF Types, TypeOK
<1>5. stats' \in [Counters -> 0..CounterMax]
  <2>1. len - sent \in Nat
    BY <1>1, <1>2
  <2> QED
    BY <1>2, <1>3, <2>1, StatsAddTwo DEF Types, Counters
<1>6. arrived' \in Nat
  BY <1>1 DEF RxFromIsr, Types
<1> QED
  BY <1>4, <1>5, <1>6 DEF Types, TypeOK, RxFromIsr, taskVars

LEMMA TypesReceive ==
  ASSUME Types, NEW t \in Task, Receive(t) PROVE Types'
<1> DEFINE n == Least(ChunkSize, Len(rx))
<1>1. n \in Nat /\ n <= ChunkSize /\ n <= Len(rx)
  <2>1. Len(rx) \in Nat
    BY DEF Types, TypeOK
  <2> QED
    BY <2>1, LeastFacts, SizesNat
<1> HIDE DEF n
<1>2. /\ chunk' = [chunk EXCEPT ![t] = SubSeq(rx, 1, n)]
      /\ rx' = SubSeq(rx, n + 1, Len(rx))
  BY DEF Receive, n
<1>3. /\ SubSeq(rx, 1, n) \in Seq(Nat) /\ Len(SubSeq(rx, 1, n)) = n
      /\ rx' \in Seq(Nat) /\ Len(rx') = Len(rx) - n
  <2>1. rx \in Seq(Nat) /\ Len(rx) \in Nat
    BY DEF Types, TypeOK
  <2>2. \A i \in 1..n : i \in 1..Len(rx)
    BY <1>1, <2>1
  <2>3. \A i \in (n + 1)..Len(rx) : i \in 1..Len(rx)
    BY <1>1, <2>1
  <2>4. SubSeq(rx, 1, n) \in Seq(Nat) /\ Len(SubSeq(rx, 1, n)) = n
    BY <1>1, <2>1, <2>2, SubSeqProperties
  <2>5. rx' \in Seq(Nat) /\ Len(rx') = Len(rx) - n
    BY <1>1, <1>2, <2>1, <2>3, SubSeqProperties, SMTT(20)
  <2> QED
    BY <2>4, <2>5
<1>4. chunk' \in [Task -> Seq(Nat)] /\ \A u \in Task : Len(chunk'[u]) <= ChunkSize
  BY <1>1, <1>2, <1>3 DEF Types, TypeOK
<1>5. Len(rx') <= RxCapacity
  BY <1>1, <1>3, SizesNat DEF Types, TypeOK
<1>6. pc' \in [Task -> InLoop \cup {"out"}]
  BY DEF Receive, Goto, Types, TypeOK, InLoop
<1> QED
  BY <1>3, <1>4, <1>5, <1>6 DEF Types, TypeOK, Receive, portVars, history

LEMMA TypesTxSend ==
  ASSUME Types, NEW t \in Task, NEW len \in 1..MaxBurst, TxSend(t, len)
  PROVE  Types'
<1> DEFINE sent == Least(len, TxCapacity - txLen)
<1>1. len \in Nat /\ TxCapacity \in Nat /\ txLen \in Nat /\ txLen <= TxCapacity
  BY BoundAssumption, SizesNat DEF Types, TypeOK
<1>2. sent \in Nat /\ sent <= len /\ txLen + sent <= TxCapacity
  <2>1. TxCapacity - txLen \in Nat
    BY <1>1
  <2>2. sent \in Nat /\ sent <= len /\ sent <= TxCapacity - txLen
    BY <1>1, <2>1, LeastFacts
  <2> QED
    BY <1>1, <2>1, <2>2
<1> HIDE DEF sent
<1>3. /\ txLen' = txLen + sent
      /\ writing' = [writing EXCEPT ![t] = [len |-> len, sent |-> sent]]
  BY DEF TxSend, sent
<1>4. /\ txLen' \in 0..TxCapacity /\ writing' \in [Task -> [len : Nat, sent : Nat]]
      /\ \A u \in Task : writing'[u].sent <= writing'[u].len
  BY <1>1, <1>2, <1>3 DEF Types, TypeOK
<1> QED
  BY <1>4 DEF Types, TypeOK, TxSend, portVars

LEMMA TypesTxCount ==
  ASSUME Types, NEW t \in Task, TxCount(t) PROVE Types'
<1>1. writing[t].sent \in Nat /\ writing[t].len - writing[t].sent \in Nat
  BY DEF Types, TypeOK
<1>2. stats' \in [Counters -> 0..CounterMax]
  BY <1>1, StatsAddTwo DEF TxCount, Types, Counters
<1>3. /\ writing' \in [Task -> [len : Nat, sent : Nat]]
      /\ \A u \in Task : writing'[u].sent <= writing'[u].len
  BY DEF TxCount, Idle, Types, TypeOK
<1> QED
  BY <1>2, <1>3 DEF Types, TypeOK, TxCount, history

LEMMA TypesNext == Types /\ [Next]_vars => Types'
<1> SUFFICES ASSUME Types, [Next]_vars PROVE Types'
  OBVIOUS
<1> USE DEF portVars, taskVars, history, Goto
<1>1. CASE \E len \in 1..MaxBurst : RxFromIsr(len)
  BY <1>1, TypesRxFromIsr
<1>2. CASE RxInvalid
  <2>1. stats' \in [Counters -> 0..CounterMax]
    BY <1>2, StatsAdd DEF RxInvalid, Types, Counters
  <2> QED
    BY <1>2, <2>1 DEF RxInvalid, Types, TypeOK
<1>3. CASE TxInvalid
  <2>1. stats' \in [Counters -> 0..CounterMax]
    BY <1>3, StatsAdd DEF TxInvalid, Types, Counters
  <2> QED
    BY <1>3, <2>1 DEF TxInvalid, Types, TypeOK
<1>4. ASSUME NEW t \in Task, Enter(t) PROVE Types'
  BY <1>4 DEF Enter, Types, TypeOK, InLoop
<1>5. ASSUME NEW t \in Task, FirstCheck(t) \/ PromptDone(t) \/ Check(t) PROVE Types'
  BY <1>5 DEF FirstCheck, PromptDone, Check, Types, TypeOK, InLoop
<1>6. ASSUME NEW t \in Task, Receive(t) PROVE Types'
  BY <1>6, TypesReceive
<1>7. ASSUME NEW t \in Task, Recheck(t) PROVE Types'
  <2>1. /\ chunk' \in [Task -> Seq(Nat)]
        /\ \A u \in Task : Len(chunk'[u]) <= ChunkSize
    <3>1. chunk' = chunk \/ chunk' = [chunk EXCEPT ![t] = <<>>]
      BY <1>7 DEF Recheck
    <3>2. CASE chunk' = chunk
      BY <3>2 DEF Types, TypeOK
    <3>3. CASE chunk' = [chunk EXCEPT ![t] = <<>>]
      BY <3>3, SizesNat DEF Types, TypeOK
    <3> QED
      BY <3>1, <3>2, <3>3
  <2> QED
    BY <1>7, <2>1 DEF Recheck, Types, TypeOK, InLoop
<1>8. ASSUME NEW t \in Task, Deliver(t) PROVE Types'
  <2>1. Len(chunk[t]) \in Nat
    BY DEF Types, TypeOK
  <2>2. stats' \in [Counters -> 0..CounterMax]
    BY <1>8, <2>1, StatsAdd DEF Deliver, Types, Counters
  <2> QED
    BY <1>8, <2>2 DEF Deliver, Types, TypeOK, InLoop
<1>9. ASSUME NEW t \in Task, NEW ok \in BOOLEAN, InputDone(t, ok) PROVE Types'
  <2>1. /\ chunk' \in [Task -> Seq(Nat)]
        /\ \A u \in Task : Len(chunk'[u]) <= ChunkSize
    BY <1>9, SizesNat DEF InputDone, Types, TypeOK
  <2> QED
    BY <1>9, <2>1 DEF InputDone, Types, TypeOK, InLoop
<1>10. ASSUME NEW t \in Task, Fail(t) PROVE Types'
  <2>1. stats' \in [Counters -> 0..CounterMax]
    BY <1>10, StatsAdd DEF Fail, Types, Counters
  <2> QED
    BY <1>10, <2>1 DEF Fail, Types, TypeOK, InLoop
<1>11. ASSUME NEW t \in Task, Exit(t) PROVE Types'
  BY <1>11 DEF Exit, Types, TypeOK, InLoop
<1>12. ASSUME NEW t \in Task, TxCount(t) PROVE Types'
  BY <1>12, TypesTxCount
<1>13. CASE \E t \in Task, len \in 1..MaxBurst : TxSend(t, len)
  BY <1>13, TypesTxSend
<1>14. CASE TxDrain
  <2>1. txLen' \in 0..TxCapacity
    BY <1>14, SizesNat DEF TxDrain, Types, TypeOK
  <2> QED
    BY <1>14, <2>1 DEF TxDrain, Types, TypeOK
<1>15. CASE RequestStop \/ ClearStop
  BY <1>15 DEF RequestStop, ClearStop, Types, TypeOK
<1>16. CASE ResetStats
  BY <1>16, SizesNat DEF ResetStats, Types, TypeOK
<1>17. CASE UNCHANGED vars
  BY <1>17 DEF vars, Types, TypeOK
<1> QED
  BY <1>1, <1>2, <1>3, <1>4, <1>5, <1>6, <1>7, <1>8, <1>9, <1>10, <1>11,
     <1>12, <1>13, <1>14, <1>15, <1>16, <1>17 DEF Next, RunStep

-----------------------------------------------------------------------------
LEMMA ControlInit == Init => Control
BY DEF Init, Control, SingleOwner, FedGoesToEnd, ExitHasStop, Owners, InLoop

\* A step of a task that stays in the loop keeps the set of owners.
LEMMA OwnersKept ==
  ASSUME Types, NEW t \in Task, NEW to \in InLoop,
         pc[t] \in InLoop, pc' = [pc EXCEPT ![t] = to]
  PROVE  Owners' = Owners /\ t \in Owners /\ pc'[t] = to
         /\ \A u \in Task : u # t => pc'[u] = pc[u]
BY DEF Types, TypeOK, Owners

\* A task that leaves the loop leaves nobody in it.
LEMMA OwnerLeaves ==
  ASSUME Types, SingleOwner, NEW t \in Task,
         pc[t] \in InLoop, pc' = [pc EXCEPT ![t] = "out"]
  PROVE  Owners' = {} /\ \A u \in Task : pc'[u] \notin InLoop
BY DEF Types, TypeOK, Owners, SingleOwner, InLoop

LEMMA ControlNext == Inv /\ [Next]_vars => Control'
<1> SUFFICES ASSUME Inv, [Next]_vars PROVE Control'
  OBVIOUS
<1>1. ASSUME UNCHANGED <<running, stop, pc, fedSinceStop>> PROVE Control'
  BY <1>1 DEF Inv, Control, SingleOwner, FedGoesToEnd, ExitHasStop, Owners
<1>2. ASSUME NEW t \in Task, Enter(t) PROVE Control'
  <2>1. CASE running
    BY <1>1, <1>2, <2>1 DEF Enter, history
  <2>2. CASE ~running
    <3>1. Owners = {} /\ fedSinceStop = 0
      BY <2>2 DEF Inv, Control, SingleOwner, FedGoesToEnd
    <3>2. running' = TRUE /\ pc' = [pc EXCEPT ![t] = "firstCheck"]
          /\ UNCHANGED <<stop, fedSinceStop>>
      BY <1>2, <2>2 DEF Enter, history
    <3>3. Owners' = {t} /\ pc'[t] = "firstCheck"
      BY <3>1, <3>2 DEF Owners, InLoop, Inv, Types, TypeOK
    <3>4. ExitHasStop'
      BY <3>2 DEF ExitHasStop, Inv, Control, Types, TypeOK
    <3> QED
      BY <3>1, <3>2, <3>3, <3>4 DEF Control, SingleOwner, FedGoesToEnd
  <2> QED
    BY <2>1, <2>2
\* A step inside the loop that feeds nothing. After a fed chunk it can only be
\* the check, which sees the stop.
<1>3. ASSUME NEW t \in Task, NEW to \in InLoop,
             pc[t] \in InLoop, pc' = [pc EXCEPT ![t] = to],
             UNCHANGED <<running, stop, fedSinceStop>>,
             pc[t] \in AfterInput /\ stop => to \in AfterInput,
             to = "exit" => stop
      PROVE  Control'
  <2>1. Owners' = Owners /\ t \in Owners /\ pc'[t] = to
        /\ \A u \in Task : u # t => pc'[u] = pc[u]
    BY <1>3, OwnersKept DEF Inv
  <2>2. SingleOwner' /\ ExitHasStop'
    BY <1>3, <2>1 DEF Inv, Control, SingleOwner, ExitHasStop
  <2>3. FedGoesToEnd'
    BY <1>3, <2>1 DEF Inv, Control, SingleOwner, FedGoesToEnd, Owners
  <2> QED
    BY <2>2, <2>3 DEF Control
<1>4. ASSUME NEW t \in Task,
             FirstCheck(t) \/ PromptDone(t) \/ Check(t) \/ Receive(t)
               \/ Recheck(t) \/ Deliver(t)
      PROVE  Control'
  <2>1. PICK to \in InLoop :
          /\ pc[t] \in InLoop /\ pc' = [pc EXCEPT ![t] = to]
          /\ pc[t] \in AfterInput /\ stop => to \in AfterInput
          /\ to = "exit" => stop
    BY <1>4 DEF FirstCheck, PromptDone, Check, Receive, Recheck, Deliver, Goto,
                InLoop, AfterInput
  <2>2. UNCHANGED <<running, stop, fedSinceStop>>
    BY <1>4 DEF FirstCheck, PromptDone, Check, Receive, Recheck, Deliver,
                portVars, history
  <2> QED
    BY <1>3, <2>1, <2>2
<1>5. ASSUME NEW t \in Task, NEW ok \in BOOLEAN, InputDone(t, ok) PROVE Control'
  <2>1. PICK to \in {"check", "fail"} : pc[t] = "input" /\ pc' = [pc EXCEPT ![t] = to]
    BY <1>5 DEF InputDone, Goto
  <2>2. /\ UNCHANGED <<running, stop>>
        /\ fedSinceStop' = IF stop THEN fedSinceStop + 1 ELSE 0
    BY <1>5 DEF InputDone, portVars
  <2>3. Owners' = Owners /\ t \in Owners /\ pc'[t] = to
        /\ \A u \in Task : u # t => pc'[u] = pc[u]
    BY <2>1, OwnersKept DEF Inv, InLoop
  <2>4. \A u \in Owners : u = t
    BY <2>3 DEF Inv, Control, SingleOwner
  <2>5. fedSinceStop = 0
    BY <2>1, <2>3 DEF Inv, Control, FedGoesToEnd, AfterInput
  <2>6. FedGoesToEnd'
    BY <2>1, <2>2, <2>3, <2>4, <2>5 DEF FedGoesToEnd, AfterInput
  <2>7. SingleOwner' /\ ExitHasStop'
    BY <2>1, <2>2, <2>3 DEF Inv, Control, SingleOwner, ExitHasStop
  <2> QED
    BY <2>6, <2>7 DEF Control
<1>6. ASSUME NEW t \in Task, Fail(t) \/ Exit(t) PROVE Control'
  <2>1. /\ pc[t] \in InLoop /\ pc' = [pc EXCEPT ![t] = "out"]
        /\ running' = FALSE /\ fedSinceStop' = 0
    BY <1>6 DEF Fail, Exit, Goto, InLoop
  <2>2. Owners' = {} /\ \A u \in Task : pc'[u] \notin InLoop
    BY <2>1, OwnerLeaves DEF Inv, Control
  <2> QED
    BY <2>1, <2>2 DEF Control, SingleOwner, FedGoesToEnd, ExitHasStop, InLoop
<1>7. CASE RequestStop
  BY <1>7 DEF RequestStop, taskVars, history, Inv, Control, SingleOwner,
              FedGoesToEnd, ExitHasStop, Owners
<1>8. CASE ClearStop
  <2>1. Owners = {} /\ fedSinceStop = 0
    BY <1>8 DEF ClearStop, Inv, Control, SingleOwner, FedGoesToEnd
  <2>2. UNCHANGED <<running, pc, fedSinceStop>>
    BY <1>8 DEF ClearStop, taskVars, history
  <2>3. Owners' = {} /\ \A t \in Task : pc'[t] # "exit"
    BY <2>1, <2>2 DEF Owners, InLoop
  <2> QED
    BY <2>1, <2>2, <2>3 DEF Inv, Control, SingleOwner, FedGoesToEnd, ExitHasStop
<1>9. CASE \/ \E len \in 1..MaxBurst : RxFromIsr(len)
           \/ \E t \in Task, len \in 1..MaxBurst : TxSend(t, len)
           \/ \E t \in Task : TxCount(t)
           \/ RxInvalid \/ TxInvalid \/ TxDrain \/ ResetStats \/ UNCHANGED vars
  BY <1>1, <1>9 DEF RxFromIsr, TxSend, TxCount, RxInvalid, TxInvalid, TxDrain,
                    ResetStats, vars, portVars, taskVars, history
<1> QED
  BY <1>2, <1>4, <1>5, <1>6, <1>7, <1>8, <1>9 DEF Next, RunStep

\* The adapter's state stays well-typed and its ownership and stop protocol
\* hold in every state.
THEOREM FreeRtosInvariant == Spec => []Inv
<1>1. Init => Inv
  BY TypesInit, ControlInit DEF Inv
<1>2. Inv /\ [Next]_vars => Inv'
  BY TypesNext, ControlNext DEF Inv
<1> QED
  BY <1>1, <1>2, PTL DEF Spec

\* Streams, chunks and counters stay within their capacities.
THEOREM FreeRtosTypeOK == Spec => []TypeOK
<1>1. Inv => TypeOK
  BY DEF Inv, Types
<1> QED
  BY <1>1, FreeRtosInvariant, PTL

\* sh_freertos_run has one owner at a time, and `running` says so.
THEOREM FreeRtosSingleOwner == Spec => []SingleOwner
<1>1. Inv => SingleOwner
  BY DEF Inv, Control
<1> QED
  BY <1>1, FreeRtosInvariant, PTL

\* A stop request lets at most one more chunk reach the shell.
THEOREM FreeRtosOneChunkAfterStop == Spec => []OneChunkAfterStop
<1>1. Inv => OneChunkAfterStop
  BY DEF Inv, Control, FedGoesToEnd, OneChunkAfterStop
<1> QED
  BY <1>1, FreeRtosInvariant, PTL

\* No stop request is withdrawn under a running loop.
THEOREM FreeRtosStopStaysLatched == Spec => StopStaysLatched
<1>1. Inv /\ [Next]_vars => [stop /\ ~stop' => Owners = {}]_vars
  <2> SUFFICES ASSUME Inv, Next, stop, ~stop' PROVE Owners = {}
    OBVIOUS
  <2>1. ClearStop
    BY DEF Next, RunStep, RxFromIsr, RxInvalid, Enter, FirstCheck, PromptDone,
           Check, Receive, Recheck, Deliver, InputDone, Fail, Exit, TxSend,
           TxCount, TxInvalid, TxDrain, RequestStop, ResetStats, portVars
  <2> QED
    BY <2>1 DEF ClearStop, Inv, Control, SingleOwner
<1> QED
  BY <1>1, FreeRtosInvariant, PTL DEF Spec, StopStaysLatched

\* A run that returns SH_OK has a stop request behind it.
THEOREM FreeRtosOkOnlyAfterStop == Spec => OkOnlyAfterStop
<1>1. Inv /\ [Next]_vars =>
        [\A t \in Task : pc[t] \in InLoop /\ pc'[t] = "out" /\ status' = "SH_OK"
           => stop]_vars
  <2> SUFFICES ASSUME Inv, Next, NEW t \in Task,
                      pc[t] \in InLoop, pc'[t] = "out", status' = "SH_OK"
               PROVE  stop
    OBVIOUS
  <2>1. pc \in [Task -> InLoop \cup {"out"}] /\ pc'[t] # pc[t]
    BY DEF Inv, Types, TypeOK, InLoop
  <2>2. Fail(t) \/ Exit(t)
    <3>1. ASSUME NEW u \in Task, NEW to \in InLoop, pc' = [pc EXCEPT ![u] = to]
          PROVE  FALSE
      BY <2>1, <3>1 DEF InLoop
    <3>2. UNCHANGED pc => FALSE
      BY <2>1
    <3>3. ASSUME NEW u \in Task, Fail(u) \/ Exit(u) PROVE u = t
      BY <2>1, <3>3 DEF Fail, Exit, Goto
    <3>4. \/ \E u \in Task, to \in InLoop : pc' = [pc EXCEPT ![u] = to]
          \/ UNCHANGED pc
          \/ \E u \in Task : Fail(u) \/ Exit(u)
      BY DEF Next, RunStep, RxFromIsr, RxInvalid, Enter, FirstCheck, PromptDone,
             Check, Receive, Recheck, Deliver, InputDone, TxSend, TxCount,
             TxInvalid, TxDrain, RequestStop, ClearStop, ResetStats, taskVars, Goto, InLoop
    <3> QED
      BY <3>1, <3>2, <3>3, <3>4
  <2>3. CASE Exit(t)
    BY <2>3 DEF Exit, Goto, Inv, Control, ExitHasStop
  <2>4. CASE Fail(t)
    BY <2>4 DEF Fail, Inv, Types, TypeOK
  <2> QED
    BY <2>2, <2>3, <2>4
<1> QED
  BY <1>1, FreeRtosInvariant, PTL DEF Spec, OkOnlyAfterStop

-----------------------------------------------------------------------------
\* The bytes: where they are, in which order, and what the counters say of them.
\*
\* Where a task has bytes it received, and where it can be in a write.
Holding == {"recheck", "deliver", "input"}
Calling == {"prompt", "input"}

\* Tasks that are elsewhere hold nothing.
HoldsByPlace ==
  \A t \in Task : /\ pc[t] \notin Holding => chunk[t] = <<>>
                  /\ pc[t] \notin Calling => writing[t] = Idle

\* What the task in the loop, if there is one, has in hand and has sent.
Hand == IF Owners = {} THEN <<>> ELSE chunk[CHOOSE t \in Owners : TRUE]
Sending == IF Owners = {} THEN 0 ELSE writing[CHOOSE t \in Owners : TRUE].sent

Elements(s) == {s[i] : i \in 1..Len(s)}
Increasing(s) == \A i, j \in 1..Len(s) : i < j => s[i] < s[j]
Before(A, B) == \A a \in A, b \in B : a < b

\* Of n bytes that arrived: those fed, those in hand and those queued in the
\* order they arrived, and no dropped one among them.
Ordered(f, h, q, l, n) ==
  /\ Increasing(f) /\ Increasing(h) /\ Increasing(q)
  /\ Before(Elements(f), Elements(h)) /\ Before(Elements(f), Elements(q))
  /\ Before(Elements(h), Elements(q))
  /\ (Elements(f) \cup Elements(h) \cup Elements(q)) \cap l = {}
  /\ Elements(f) \cup Elements(h) \cup Elements(q) \cup l \subseteq 1..n

Order == fed \in Seq(Nat) /\ Ordered(fed, Hand, rx, lost, arrived)

\* The balance, with the bytes in hand counted as the length of the chunk.
RxCounted ==
  /\ carried \in [rx : Nat, tx : Nat]
  /\ stats["rxEnqueued"] < CounterMax /\ stats["rxDelivered"] < CounterMax =>
       stats["rxEnqueued"] + carried.rx =
         stats["rxDelivered"] + Len(rx) + Cardinality(lost)
           + (IF Uncounted = {} THEN 0 ELSE Len(Hand))

TxCounted ==
  /\ drained \in Nat
  /\ stats["txEnqueued"] < CounterMax =>
       stats["txEnqueued"] + carried.tx + Sending = txLen + drained

Account == HoldsByPlace /\ Order /\ RxCounted /\ TxCounted

BInv == Inv /\ Account

-----------------------------------------------------------------------------
\* What is in the parts of a sequence that is cut, and of one that is joined.
LEMMA ConcatElements ==
  ASSUME NEW a \in Seq(Nat), NEW b \in Seq(Nat)
  PROVE  Elements(a \o b) = Elements(a) \cup Elements(b)
<1>1. /\ Len(a) \in Nat /\ Len(b) \in Nat /\ Len(a \o b) = Len(a) + Len(b)
      /\ \A i \in 1..(Len(a) + Len(b)) :
           (a \o b)[i] = IF i <= Len(a) THEN a[i] ELSE b[i - Len(a)]
  BY LenProperties, ConcatProperties
<1>2. ASSUME NEW x \in Elements(a \o b) PROVE x \in Elements(a) \cup Elements(b)
  <2>1. PICK i \in 1..(Len(a) + Len(b)) : x = (a \o b)[i]
    BY <1>1 DEF Elements
  <2>2. CASE i <= Len(a)
    BY <1>1, <2>1, <2>2 DEF Elements
  <2>3. CASE ~(i <= Len(a))
    <3>1. i - Len(a) \in 1..Len(b) /\ x = b[i - Len(a)]
      BY <1>1, <2>1, <2>3
    <3> QED
      BY <3>1 DEF Elements
  <2> QED
    BY <2>2, <2>3
<1>3. ASSUME NEW x \in Elements(a) PROVE x \in Elements(a \o b)
  <2>1. PICK i \in 1..Len(a) : x = a[i]
    BY DEF Elements
  <2>2. i \in 1..(Len(a) + Len(b)) /\ x = (a \o b)[i]
    BY <1>1, <2>1
  <2> QED
    BY <1>1, <2>2 DEF Elements
<1>4. ASSUME NEW x \in Elements(b) PROVE x \in Elements(a \o b)
  <2>1. PICK j \in 1..Len(b) : x = b[j]
    BY DEF Elements
  <2>2. Len(a) + j \in 1..(Len(a) + Len(b)) /\ x = (a \o b)[Len(a) + j]
    BY <1>1, <2>1
  <2> QED
    BY <1>1, <2>2 DEF Elements
<1> QED
  BY <1>2, <1>3, <1>4

LEMMA ConcatIncreasing ==
  ASSUME NEW a \in Seq(Nat), NEW b \in Seq(Nat)
  PROVE  Increasing(a \o b) <=>
           Increasing(a) /\ Increasing(b) /\ Before(Elements(a), Elements(b))
<1>1. /\ Len(a) \in Nat /\ Len(b) \in Nat /\ Len(a \o b) = Len(a) + Len(b)
      /\ \A i \in 1..(Len(a) + Len(b)) :
           (a \o b)[i] = IF i <= Len(a) THEN a[i] ELSE b[i - Len(a)]
  BY LenProperties, ConcatProperties
<1> DEFINE c == a \o b
<1>2. /\ \A i \in 1..Len(a) : i \in 1..Len(c) /\ c[i] = a[i]
      /\ \A j \in 1..Len(b) : Len(a) + j \in 1..Len(c) /\ c[Len(a) + j] = b[j]
      /\ Len(c) = Len(a) + Len(b)
  BY <1>1
<1> HIDE DEF c
<1>3. ASSUME Increasing(c)
      PROVE  Increasing(a) /\ Increasing(b) /\ Before(Elements(a), Elements(b))
  <2>1. Increasing(a)
    BY <1>1, <1>2, <1>3 DEF Increasing
  <2>2. ASSUME NEW i \in 1..Len(b), NEW j \in 1..Len(b), i < j PROVE b[i] < b[j]
    <3>1. Len(a) + i < Len(a) + j
      BY <1>1, <2>2
    <3> QED
      BY <1>2, <1>3, <3>1 DEF Increasing
  <2>3. ASSUME NEW i \in 1..Len(a), NEW j \in 1..Len(b) PROVE a[i] < b[j]
    <3>1. i < Len(a) + j
      BY <1>1, <2>3
    <3> QED
      BY <1>2, <1>3, <3>1 DEF Increasing
  <2> QED
    BY <2>1, <2>2, <2>3 DEF Increasing, Before, Elements
<1>4. ASSUME Increasing(a), Increasing(b), Before(Elements(a), Elements(b)),
             NEW i \in 1..Len(c), NEW j \in 1..Len(c), i < j
      PROVE  c[i] < c[j]
  <2>1. CASE j <= Len(a)
    <3>1. i \in 1..Len(a) /\ j \in 1..Len(a)
      BY <1>1, <1>2, <1>4, <2>1
    <3> QED
      BY <1>2, <1>4, <3>1 DEF Increasing
  <2>2. CASE ~(j <= Len(a))
    <3>1. j - Len(a) \in 1..Len(b) /\ c[j] = b[j - Len(a)]
      BY <1>1, <1>2, <2>2 DEF c
    <3>2. CASE i <= Len(a)
      <4>1. i \in 1..Len(a) /\ c[i] = a[i]
        BY <1>1, <1>2, <3>2
      <4> QED
        BY <1>4, <3>1, <4>1 DEF Before, Elements
    <3>3. CASE ~(i <= Len(a))
      <4>1. i - Len(a) \in 1..Len(b) /\ c[i] = b[i - Len(a)] /\ i - Len(a) < j - Len(a)
        BY <1>1, <1>2, <1>4, <3>3 DEF c
      <4> QED
        BY <1>4, <3>1, <4>1 DEF Increasing
    <3> QED
      BY <3>2, <3>3
  <2> QED
    BY <2>1, <2>2
<1> QED
  BY <1>3, <1>4 DEF c, Increasing

LEMMA SplitSequence ==
  ASSUME NEW q \in Seq(Nat), NEW k \in 0..Len(q)
  PROVE  /\ SubSeq(q, 1, k) \in Seq(Nat) /\ SubSeq(q, k + 1, Len(q)) \in Seq(Nat)
         /\ Len(SubSeq(q, 1, k)) = k /\ Len(SubSeq(q, k + 1, Len(q))) = Len(q) - k
         /\ SubSeq(q, 1, k) \o SubSeq(q, k + 1, Len(q)) = q
<1>1. Len(q) \in Nat /\ \A i \in 1..Len(q) : q[i] \in Nat
  BY LenProperties, ElementOfSeq
<1>2. SubSeq(q, 1, k) \in Seq(Nat) /\ Len(SubSeq(q, 1, k)) = k
  <2>1. \A i \in 1..k : q[i] \in Nat
    BY <1>1
  <2> QED
    BY <1>1, <2>1, SubSeqProperties
<1>3. /\ SubSeq(q, k + 1, Len(q)) \in Seq(Nat)
      /\ Len(SubSeq(q, k + 1, Len(q))) = Len(q) - k
  <2>1. \A i \in (k + 1)..Len(q) : q[i] \in Nat
    BY <1>1
  <2> QED
    BY <1>1, <2>1, SubSeqProperties
<1>4. SubSeq(q, 1, k) \o SubSeq(q, k + 1, Len(q)) = SubSeq(q, 1, Len(q))
  <2>1. 1 \in 1..(Len(q) + 1) /\ k \in (1 - 1)..Len(q) /\ Len(q) \in k..Len(q)
    BY <1>1
  <2> QED
    BY ONLY <2>1, q \in Seq(Nat), ConcatAdjacentSubSeq
<1>5. SubSeq(q, 1, Len(q)) = q
  BY SubSeqFull
<1> QED
  BY <1>2, <1>3, <1>4, <1>5

\* In increasing order nothing is counted twice.
LEMMA IncreasingCount ==
  ASSUME NEW s \in Seq(Nat), Increasing(s)
  PROVE  IsFiniteSet(Elements(s)) /\ Cardinality(Elements(s)) = Len(s)
<1> DEFINE f == [i \in 1..Len(s) |-> s[i]]
<1>1. Len(s) \in Nat /\ \A i \in 1..Len(s) : s[i] \in Nat
  BY LenProperties, ElementOfSeq
<1>2. \A i, j \in 1..Len(s) : s[i] = s[j] => i = j
  BY <1>1 DEF Increasing
<1>3. f \in Bijection(1..Len(s), Elements(s))
  BY <1>1, <1>2 DEF Elements, Bijection, Injection, Surjection, IsInjective
<1>4. ExistsBijection(1..Len(s), Elements(s))
  BY <1>3 DEF ExistsBijection
<1>5. IsFiniteSet(1..Len(s))
  BY <1>1, FS_Interval
<1> QED
  BY <1>1, <1>4, <1>5, FS_CountingElements, FS_Bijection

LEMMA NoElements == Elements(<<>>) = {} /\ Increasing(<<>>) /\ <<>> \in Seq(Nat)
BY DEF Elements, Increasing

\* Bytes that arrive are numbered on, so they go behind everything.
LEMMA OrderedArrive ==
  ASSUME NEW f \in Seq(Nat), NEW h \in Seq(Nat), NEW q \in Seq(Nat), NEW l,
         NEW n \in Nat, NEW sent \in Nat, NEW len \in Nat, sent <= len,
         Ordered(f, h, q, l, n)
  PROVE  Ordered(f, h, q \o [i \in 1..sent |-> n + i], l, n + len)
<1> DEFINE run == [i \in 1..sent |-> n + i]
<1>1. /\ run \in Seq(Nat) /\ Len(run) = sent
      /\ Elements(run) \subseteq (n + 1)..(n + sent) /\ Increasing(run)
  BY DEF Elements, Increasing
<1> HIDE DEF run
<1>2. Elements(q) \subseteq 1..n /\ Elements(f) \subseteq 1..n /\ Elements(h) \subseteq 1..n
      /\ l \subseteq 1..n
  BY DEF Ordered
<1>3. \A A : A \subseteq 1..n => Before(A, Elements(run)) /\ A \cap Elements(run) = {}
  BY <1>1 DEF Before
<1>4. Elements(q \o run) = Elements(q) \cup Elements(run) /\ Increasing(q \o run)
  BY <1>1, <1>2, <1>3, ConcatElements, ConcatIncreasing DEF Ordered
<1>5. /\ Before(Elements(f), Elements(q \o run)) /\ Before(Elements(h), Elements(q \o run))
      /\ (Elements(f) \cup Elements(h) \cup Elements(q \o run)) \cap l = {}
  BY <1>2, <1>3, <1>4 DEF Ordered, Before
<1>6. 1..n \subseteq 1..(n + len) /\ Elements(run) \subseteq 1..(n + len)
  BY <1>1
<1>7. Elements(f) \cup Elements(h) \cup Elements(q \o run) \cup l \subseteq 1..(n + len)
  BY <1>2, <1>4, <1>6
<1>8. Ordered(f, h, q \o run, l, n + len)
  BY <1>4, <1>5, <1>7 DEF Ordered
<1> QED
  BY <1>8 DEF run

\* The first k queued bytes come in hand.
LEMMA OrderedReceive ==
  ASSUME NEW f \in Seq(Nat), NEW q \in Seq(Nat), NEW l, NEW n \in Nat,
         NEW k \in 0..Len(q), Ordered(f, <<>>, q, l, n)
  PROVE  Ordered(f, SubSeq(q, 1, k), SubSeq(q, k + 1, Len(q)), l, n)
<1> DEFINE h == SubSeq(q, 1, k)
           r == SubSeq(q, k + 1, Len(q))
<1>1. h \in Seq(Nat) /\ r \in Seq(Nat) /\ h \o r = q
  BY SplitSequence
<1> HIDE DEF h, r
<1>2. /\ Elements(q) = Elements(h) \cup Elements(r)
      /\ Increasing(h) /\ Increasing(r) /\ Before(Elements(h), Elements(r))
  BY <1>1, ConcatElements, ConcatIncreasing DEF Ordered
<1>3. Ordered(f, h, r, l, n)
  BY <1>2 DEF Ordered, Before
<1> QED
  BY <1>3 DEF h, r

\* The bytes in hand are dropped, or fed.
LEMMA OrderedDrop ==
  ASSUME NEW f, NEW h, NEW q, NEW l, NEW n, h \in Seq(Nat),
         Elements(h) \cup Elements(q) \cup Elements(f) \subseteq Nat, Ordered(f, h, q, l, n)
  PROVE  Ordered(f, <<>>, q, l \cup Elements(h), n)
<1>1. Elements(h) \cap Elements(q) = {} /\ Elements(h) \cap Elements(f) = {}
  <2>1. \A x \in Elements(h) : ~(x < x)
    OBVIOUS
  <2> QED
    BY <2>1 DEF Ordered, Before
<1> QED
  BY <1>1, NoElements DEF Ordered, Before

LEMMA OrderedFeed ==
  ASSUME NEW f \in Seq(Nat), NEW h \in Seq(Nat), NEW q, NEW l, NEW n,
         Ordered(f, h, q, l, n)
  PROVE  Ordered(f \o h, <<>>, q, l, n)
<1>1. Elements(f \o h) = Elements(f) \cup Elements(h) /\ Increasing(f \o h)
  BY ConcatElements, ConcatIncreasing DEF Ordered
<1> QED
  BY <1>1, NoElements DEF Ordered, Before

-----------------------------------------------------------------------------
\* Before it saturates the addition is exact.
LEMMA CounterAddExact ==
  ASSUME NEW count \in 0..CounterMax, NEW amount \in Nat,
         CounterAdd(count, amount) < CounterMax
  PROVE  CounterAdd(count, amount) = count + amount /\ count < CounterMax
BY SizesNat DEF CounterAdd

\* The types the accounts need.
LEMMA AccountTypes ==
  ASSUME BInv
  PROVE  /\ rx \in Seq(Nat) /\ Len(rx) \in Nat /\ fed \in Seq(Nat) /\ Hand \in Seq(Nat)
         /\ Len(Hand) \in Nat /\ arrived \in Nat
         /\ IsFiniteSet(lost) /\ Cardinality(lost) \in Nat
         /\ stats \in [Counters -> 0..CounterMax]
         /\ \A c \in Counters : stats[c] \in 0..CounterMax
         /\ txLen \in Nat /\ drained \in Nat /\ Sending \in Nat
         /\ carried \in [rx : Nat, tx : Nat] /\ carried.rx \in Nat /\ carried.tx \in Nat
         /\ \A t \in Task : chunk[t] \in Seq(Nat) /\ Len(chunk[t]) \in Nat
<1>1. /\ rx \in Seq(Nat) /\ fed \in Seq(Nat) /\ arrived \in Nat
      /\ stats \in [Counters -> 0..CounterMax] /\ txLen \in Nat /\ drained \in Nat
      /\ carried \in [rx : Nat, tx : Nat]
      /\ \A t \in Task : chunk[t] \in Seq(Nat) /\ writing[t].sent \in Nat
  BY SizesNat DEF BInv, Inv, Types, TypeOK, Account, Order, RxCounted, TxCounted
<1>2. Owners # {} => (CHOOSE t \in Owners : TRUE) \in Task
  BY DEF Owners
<1>3. Hand \in Seq(Nat) /\ Sending \in Nat
  BY <1>1, <1>2, NoElements DEF Hand, Sending
<1>4. IsFiniteSet(lost) /\ Cardinality(lost) \in Nat
  <2>1. lost \subseteq 1..arrived
    BY DEF BInv, Account, Order, Ordered
  <2>2. IsFiniteSet(1..arrived)
    BY <1>1, FS_Interval
  <2> QED
    BY <2>1, <2>2, FS_Subset, FS_CardinalityType
<1> QED
  BY <1>1, <1>3, <1>4, LenProperties

\* One task in the loop, before a step of it that stays there and after.
LEMMA RunnerStays ==
  ASSUME BInv, NEW t \in Task, NEW to \in InLoop,
         pc[t] \in InLoop, pc' = [pc EXCEPT ![t] = to]
  PROVE  /\ Owners = {t} /\ Owners' = {t} /\ pc'[t] = to
         /\ Hand = chunk[t] /\ Hand' = chunk'[t]
         /\ Sending = writing[t].sent /\ Sending' = writing'[t].sent
         /\ Uncounted = IF pc[t] \in {"recheck", "deliver"} THEN {t} ELSE {}
         /\ Uncounted' = IF to \in {"recheck", "deliver"} THEN {t} ELSE {}
         /\ \A u \in Task : u # t => pc[u] = "out" /\ pc'[u] = "out"
<1>1. Owners' = Owners /\ t \in Owners /\ pc'[t] = to
      /\ \A u \in Task : u # t => pc'[u] = pc[u]
  BY OwnersKept DEF BInv, Inv
<1>2. Owners = {t}
  BY <1>1 DEF BInv, Inv, Control, SingleOwner
<1>3. \A u \in Task : u # t => pc[u] = "out"
  BY <1>2 DEF Owners, BInv, Inv, Types, TypeOK
<1>4. (CHOOSE u \in Owners : TRUE) = t /\ (CHOOSE u \in Owners' : TRUE) = t
  BY <1>1, <1>2
<1>5. /\ Hand = chunk[t] /\ Hand' = chunk'[t]
      /\ Sending = writing[t].sent /\ Sending' = writing'[t].sent
  BY <1>1, <1>2, <1>4 DEF Hand, Sending
<1>6. Uncounted = IF pc[t] \in {"recheck", "deliver"} THEN {t} ELSE {}
  BY <1>3 DEF Uncounted
<1>7. Uncounted' = IF to \in {"recheck", "deliver"} THEN {t} ELSE {}
  BY <1>1, <1>3 DEF Uncounted
<1> QED
  BY <1>1, <1>2, <1>3, <1>5, <1>6, <1>7

\* Such a step keeps HoldsByPlace when it keeps it for the task itself.
LEMMA RunnerHolds ==
  ASSUME BInv, NEW t \in Task, NEW to \in InLoop,
         pc[t] \in InLoop, pc' = [pc EXCEPT ![t] = to],
         to \notin Holding => chunk'[t] = <<>>,
         to \notin Calling => writing'[t] = Idle,
         \A u \in Task : u # t => chunk'[u] = chunk[u] /\ writing'[u] = writing[u]
  PROVE  HoldsByPlace'
<1>1. pc'[t] = to /\ \A u \in Task : u # t => pc[u] = "out" /\ pc'[u] = "out"
  BY RunnerStays
<1>2. \A u \in Task : u # t => chunk[u] = <<>> /\ writing[u] = Idle
  BY <1>1 DEF HoldsByPlace, Holding, Calling, BInv, Account
<1> QED
  BY <1>1, <1>2 DEF HoldsByPlace

\* Nothing the accounts are about changes.
LEMMA AccountUnmoved ==
  ASSUME BInv,
         UNCHANGED <<pc, chunk, writing, rx, txLen, arrived, fed, lost, drained, carried>>,
         \A c \in {"rxEnqueued", "rxDelivered", "txEnqueued"} : stats'[c] = stats[c]
  PROVE  Account'
<1>1. Owners' = Owners /\ Uncounted' = Uncounted
  BY DEF Owners, Uncounted
<1>2. Hand' = Hand /\ Sending' = Sending
  BY <1>1 DEF Hand, Sending
<1>3. HoldsByPlace'
  BY DEF HoldsByPlace, BInv, Account
<1>4. Order'
  BY <1>2 DEF Order, BInv, Account
<1>5. RxCounted' /\ TxCounted'
  BY <1>1, <1>2 DEF RxCounted, TxCounted, BInv, Account
<1> QED
  BY <1>3, <1>4, <1>5 DEF Account

LEMMA AccountInit == Init => Account
<1> SUFFICES ASSUME Init PROVE Account
  OBVIOUS
<1>1. Owners = {} /\ Uncounted = {}
  BY DEF Init, Owners, Uncounted, InLoop
<1>2. Hand = <<>> /\ Sending = 0
  BY <1>1 DEF Hand, Sending
<1>3. HoldsByPlace
  BY DEF Init, HoldsByPlace
<1>4. Order
  BY <1>2, NoElements DEF Init, Order, Ordered, Before
<1>5. Cardinality(lost) = 0 /\ Len(rx) = 0
  BY FS_EmptySet DEF Init
<1>6. RxCounted /\ TxCounted
  BY <1>1, <1>2, <1>5, SizesNat DEF Init, RxCounted, TxCounted, Counters
<1> QED
  BY <1>3, <1>4, <1>6 DEF Account

LEMMA AccountRxFromIsr ==
  ASSUME BInv, NEW len \in 1..MaxBurst, RxFromIsr(len) PROVE Account'
<1> DEFINE sent == Least(len, RxCapacity - Len(rx))
<1>1. /\ len \in Nat /\ rx \in Seq(Nat) /\ Len(rx) \in Nat /\ RxCapacity - Len(rx) \in Nat
      /\ fed \in Seq(Nat) /\ Hand \in Seq(Nat) /\ arrived \in Nat
  BY BoundAssumption, SizesNat, AccountTypes DEF BInv, Inv, Types, TypeOK
<1>2. sent \in Nat /\ sent <= len
  BY <1>1, LeastFacts
<1> HIDE DEF sent
<1>3. /\ rx' = rx \o [i \in 1..sent |-> arrived + i] /\ arrived' = arrived + len
      /\ stats' = [stats EXCEPT !["rxEnqueued"] = CounterAdd(@, sent),
                                !["rxOverflow"] = CounterAdd(@, len - sent)]
      /\ UNCHANGED <<pc, chunk, writing, txLen, fed, lost, drained, carried>>
  BY DEF RxFromIsr, sent, taskVars
<1>4. Owners' = Owners /\ Uncounted' = Uncounted
  BY <1>3 DEF Owners, Uncounted
<1>5. Hand' = Hand /\ Sending' = Sending
  BY <1>3, <1>4 DEF Hand, Sending
<1>6. Order'
  <2>1. Ordered(fed, Hand, rx, lost, arrived)
    BY DEF BInv, Account, Order
  <2>2. Ordered(fed, Hand, rx', lost, arrived')
    BY <1>1, <1>2, <1>3, <2>1, OrderedArrive
  <2> QED
    BY <1>1, <1>3, <1>5, <2>2 DEF Order
<1>7. Len(rx') = Len(rx) + sent
  <2> DEFINE run == [i \in 1..sent |-> arrived + i]
  <2>1. run \in Seq(Nat) /\ Len(run) = sent
    BY <1>1, <1>2
  <2>2. rx' = rx \o run
    BY <1>3
  <2> HIDE DEF run
  <2> QED
    BY <1>1, <2>1, <2>2, ConcatProperties
<1>8. /\ stats'["rxEnqueued"] = CounterAdd(stats["rxEnqueued"], sent)
      /\ stats'["rxDelivered"] = stats["rxDelivered"]
      /\ stats'["txEnqueued"] = stats["txEnqueued"]
  BY <1>3, AccountTypes DEF Counters
<1>9. RxCounted'
  <2>1. carried' \in [rx : Nat, tx : Nat]
    BY <1>3, AccountTypes
  <2>2. ASSUME stats'["rxEnqueued"] < CounterMax, stats'["rxDelivered"] < CounterMax
        PROVE  /\ stats'["rxEnqueued"] = stats["rxEnqueued"] + sent
               /\ stats["rxEnqueued"] < CounterMax /\ stats["rxDelivered"] < CounterMax
    <3>1. stats["rxEnqueued"] \in 0..CounterMax
      BY AccountTypes DEF Counters
    <3> QED
      BY <1>2, <1>8, <2>2, <3>1, CounterAddExact
  <2>3. /\ stats["rxEnqueued"] \in Nat /\ carried.rx \in Nat /\ stats["rxDelivered"] \in Nat
        /\ Cardinality(lost) \in Nat /\ Len(Hand) \in Nat
    BY AccountTypes, SizesNat DEF Counters
  <2>4. stats["rxEnqueued"] < CounterMax /\ stats["rxDelivered"] < CounterMax =>
          stats["rxEnqueued"] + carried.rx =
            stats["rxDelivered"] + Len(rx) + Cardinality(lost)
              + (IF Uncounted = {} THEN 0 ELSE Len(Hand))
    BY DEF BInv, Account, RxCounted
  <2> DEFINE inHand == IF Uncounted = {} THEN 0 ELSE Len(Hand)
  <2>5. ASSUME stats'["rxEnqueued"] < CounterMax, stats'["rxDelivered"] < CounterMax
        PROVE  stats'["rxEnqueued"] + carried.rx =
                 stats'["rxDelivered"] + Len(rx') + Cardinality(lost) + inHand
    <3>1. inHand \in Nat
      BY <2>3
    <3> HIDE DEF inHand
    <3>2. stats["rxEnqueued"] + carried.rx =
            stats["rxDelivered"] + Len(rx) + Cardinality(lost) + inHand
      BY <2>2, <2>4, <2>5 DEF inHand
    <3>3. /\ stats'["rxEnqueued"] = stats["rxEnqueued"] + sent
          /\ stats'["rxDelivered"] = stats["rxDelivered"] /\ Len(rx') = Len(rx) + sent
          /\ sent \in Nat /\ Len(rx) \in Nat
      BY <1>1, <1>2, <1>7, <1>8, <2>2, <2>5
    <3>4. (stats["rxEnqueued"] + sent) + carried.rx =
            stats["rxDelivered"] + (Len(rx) + sent) + Cardinality(lost) + inHand
      <4>1. sent \in Nat /\ Len(rx) \in Nat
        BY <3>3
      <4>2. PICK e \in Nat, c \in Nat, d \in Nat, r \in Nat, l \in Nat, h \in Nat :
              /\ e = stats["rxEnqueued"] /\ c = carried.rx /\ d = stats["rxDelivered"]
              /\ r = Len(rx) /\ l = Cardinality(lost) /\ h = inHand
        BY ONLY <2>3, <3>1, <4>1, Zenon
      <4>3. e + c = d + r + l + h
        BY ONLY <3>2, <4>2, Zenon
      <4>4. (e + sent) + c = d + (r + sent) + l + h
        BY ONLY <4>1, <4>3
      <4> QED
        BY ONLY <4>2, <4>4, Zenon
    <3> QED
      BY ONLY <3>3, <3>4
  <2> QED
    BY <1>3, <1>4, <1>5, <2>1, <2>5 DEF RxCounted
<1>10. TxCounted' /\ HoldsByPlace'
  BY <1>3, <1>5, <1>8 DEF TxCounted, HoldsByPlace, BInv, Account
<1> QED
  BY <1>6, <1>9, <1>10 DEF Account

LEMMA AccountReceive ==
  ASSUME BInv, NEW t \in Task, Receive(t) PROVE Account'
<1> DEFINE n == Least(ChunkSize, Len(rx))
<1>1. n \in 0..Len(rx) /\ rx \in Seq(Nat) /\ Len(rx) \in Nat
  <2>1. rx \in Seq(Nat) /\ Len(rx) \in Nat
    BY AccountTypes
  <2>2. n \in Nat /\ n <= Len(rx)
    BY <2>1, LeastFacts, SizesNat
  <2> HIDE DEF n
  <2> QED
    BY <2>1, <2>2
<1> HIDE DEF n
<1>2. /\ pc[t] = "receive" /\ pc' = [pc EXCEPT ![t] = "recheck"]
      /\ chunk' = [chunk EXCEPT ![t] = SubSeq(rx, 1, n)]
      /\ rx' = SubSeq(rx, n + 1, Len(rx))
      /\ UNCHANGED <<stats, writing, txLen, arrived, fed, lost, drained, carried>>
  BY DEF Receive, Goto, n, portVars, history
<1>3. /\ Hand = chunk[t] /\ Hand' = chunk'[t] /\ Sending' = Sending
      /\ Uncounted = {} /\ Uncounted' # {}
  <2>1. pc[t] \in InLoop /\ "recheck" \in InLoop
    BY <1>2 DEF InLoop
  <2>2. /\ Hand = chunk[t] /\ Hand' = chunk'[t]
        /\ Sending = writing[t].sent /\ Sending' = writing'[t].sent
        /\ Uncounted = IF pc[t] \in {"recheck", "deliver"} THEN {t} ELSE {}
        /\ Uncounted' = IF "recheck" \in {"recheck", "deliver"} THEN {t} ELSE {}
    BY <1>2, <2>1, RunnerStays
  <2> QED
    BY <1>2, <2>2
<1>4. chunk[t] = <<>> /\ chunk'[t] = SubSeq(rx, 1, n)
      /\ \A u \in Task : u # t => chunk'[u] = chunk[u]
  BY <1>2 DEF BInv, Account, HoldsByPlace, Holding, Inv, Types, TypeOK
<1>5. Order'
  <2>1. Ordered(fed, <<>>, rx, lost, arrived) /\ fed \in Seq(Nat) /\ arrived \in Nat
    BY <1>3, <1>4, AccountTypes DEF BInv, Account, Order
  <2>2. Ordered(fed, SubSeq(rx, 1, n), rx', lost, arrived)
    BY <1>1, <1>2, <2>1, OrderedReceive
  <2> QED
    BY <1>2, <1>3, <1>4, <2>1, <2>2 DEF Order
<1>6. Len(Hand') = n /\ Len(rx') = Len(rx) - n
  BY <1>1, <1>2, <1>3, <1>4, SplitSequence
<1>7. RxCounted'
  <2>1. /\ stats["rxEnqueued"] \in Nat /\ carried.rx \in Nat /\ stats["rxDelivered"] \in Nat
        /\ Cardinality(lost) \in Nat
    BY AccountTypes, SizesNat DEF Counters
  <2>2. stats["rxEnqueued"] < CounterMax /\ stats["rxDelivered"] < CounterMax =>
          stats["rxEnqueued"] + carried.rx =
            stats["rxDelivered"] + Len(rx) + Cardinality(lost) + 0
    BY <1>3 DEF BInv, Account, RxCounted
  <2>3. stats["rxEnqueued"] < CounterMax /\ stats["rxDelivered"] < CounterMax =>
          stats["rxEnqueued"] + carried.rx =
            stats["rxDelivered"] + Len(rx') + Cardinality(lost) + Len(Hand')
    BY <1>1, <1>6, <2>1, <2>2
  <2> QED
    BY <1>2, <1>3, <2>3 DEF RxCounted, BInv, Account
<1>8. TxCounted'
  BY <1>2, <1>3 DEF TxCounted, BInv, Account
<1>9. HoldsByPlace'
  <2>1. writing[t] = Idle
    BY <1>2 DEF BInv, Account, HoldsByPlace, Calling
  <2> QED
    BY <1>2, <1>4, <2>1, RunnerHolds DEF InLoop, Holding, Calling
<1> QED
  BY <1>5, <1>7, <1>8, <1>9 DEF Account

LEMMA AccountRecheck ==
  ASSUME BInv, NEW t \in Task, Recheck(t) PROVE Account'
<1>1. /\ pc[t] = "recheck"
      /\ UNCHANGED <<stats, writing, rx, txLen, arrived, fed, drained, carried>>
  BY DEF Recheck, Goto, portVars
<1>2. writing[t] = Idle
  BY <1>1 DEF BInv, Account, HoldsByPlace, Calling
<1>3. chunk[t] \in Seq(Nat) /\ Len(chunk[t]) \in Nat /\ chunk \in [Task -> Seq(Nat)]
  BY AccountTypes DEF BInv, Inv, Types, TypeOK
<1>4. /\ stats["rxEnqueued"] \in Nat /\ carried.rx \in Nat /\ stats["rxDelivered"] \in Nat
      /\ Cardinality(lost) \in Nat /\ IsFiniteSet(lost) /\ Len(rx) \in Nat
  BY AccountTypes, SizesNat DEF Counters
\* A stop: the bytes in hand are lost from here on.
<1>5. CASE stop
  <2>1. /\ pc' = [pc EXCEPT ![t] = "exit"] /\ lost' = lost \cup Elements(chunk[t])
        /\ chunk' = [chunk EXCEPT ![t] = <<>>]
    BY <1>5 DEF Recheck, Goto, Elements
  <2>2. /\ Hand = chunk[t] /\ Hand' = chunk'[t] /\ Sending' = Sending
        /\ Uncounted # {} /\ Uncounted' = {}
    <3>1. pc[t] \in InLoop /\ "exit" \in InLoop
      BY <1>1 DEF InLoop
    <3>2. /\ Hand = chunk[t] /\ Hand' = chunk'[t]
          /\ Sending = writing[t].sent /\ Sending' = writing'[t].sent
          /\ Uncounted = IF pc[t] \in {"recheck", "deliver"} THEN {t} ELSE {}
          /\ Uncounted' = IF "exit" \in {"recheck", "deliver"} THEN {t} ELSE {}
      BY <2>1, <3>1, RunnerStays
    <3> QED
      BY <1>1, <3>2
  <2>3. chunk'[t] = <<>> /\ \A u \in Task : u # t => chunk'[u] = chunk[u]
    BY <1>3, <2>1
  <2>4. Ordered(fed, Hand, rx, lost, arrived) /\ fed \in Seq(Nat) /\ arrived \in Nat
    BY AccountTypes DEF BInv, Account, Order
  <2>5. Order'
    <3>1. Elements(Hand) \cup Elements(rx) \cup Elements(fed) \subseteq Nat
      BY <2>4 DEF Ordered
    <3>2. Ordered(fed, <<>>, rx, lost \cup Elements(Hand), arrived)
      BY <1>3, <2>2, <2>4, <3>1, OrderedDrop
    <3> QED
      BY <1>1, <2>1, <2>2, <2>3, <2>4, <3>2 DEF Order
  <2>6. Cardinality(lost') = Cardinality(lost) + Len(Hand)
    <3>1. IsFiniteSet(Elements(Hand)) /\ Cardinality(Elements(Hand)) = Len(Hand)
      BY <1>3, <2>2, <2>4, IncreasingCount DEF Ordered
    <3>2. lost \cap Elements(Hand) = {}
      BY <2>4 DEF Ordered
    <3>3. Cardinality(lost \cup Elements(Hand))
            = Cardinality(lost) + Cardinality(Elements(Hand)) - Cardinality({})
      BY <1>4, <3>1, <3>2, FS_Union
    <3>4. lost' = lost \cup Elements(Hand) /\ Len(Hand) \in Nat
      BY <1>3, <2>1, <2>2
    <3> QED
      BY <1>4, <3>1, <3>3, <3>4, FS_EmptySet
  <2>7. RxCounted'
    <3>1. stats["rxEnqueued"] < CounterMax /\ stats["rxDelivered"] < CounterMax =>
            stats["rxEnqueued"] + carried.rx =
              stats["rxDelivered"] + Len(rx) + Cardinality(lost) + Len(Hand)
      BY <2>2 DEF BInv, Account, RxCounted
    <3>2. stats["rxEnqueued"] < CounterMax /\ stats["rxDelivered"] < CounterMax =>
            stats["rxEnqueued"] + carried.rx =
              stats["rxDelivered"] + Len(rx) + Cardinality(lost') + 0
      BY <1>3, <1>4, <2>2, <2>6, <3>1
    <3> QED
      BY <1>1, <2>2, <3>2 DEF RxCounted, BInv, Account
  <2>8. TxCounted'
    BY <1>1, <2>2 DEF TxCounted, BInv, Account
  <2>9. HoldsByPlace'
    BY <1>1, <1>2, <2>1, <2>3, RunnerHolds DEF InLoop, Holding, Calling
  <2> QED
    BY <2>5, <2>7, <2>8, <2>9 DEF Account
<1>6. CASE ~stop
  <2> DEFINE to == IF chunk[t] = <<>> THEN "check" ELSE "deliver"
  <2>1. pc' = [pc EXCEPT ![t] = to] /\ UNCHANGED <<chunk, lost>>
    BY <1>6 DEF Recheck, Goto
  <2>2. to \in InLoop /\ (to \notin Holding => chunk[t] = <<>>) /\ to \notin Calling
    BY DEF InLoop, Holding, Calling
  <2>3. /\ Hand = chunk[t] /\ Hand' = chunk'[t] /\ Sending' = Sending
        /\ Uncounted = {t} /\ Uncounted' = IF chunk[t] = <<>> THEN {} ELSE {t}
    <3> HIDE DEF to
    <3>1. /\ Hand = chunk[t] /\ Hand' = chunk'[t]
          /\ Sending = writing[t].sent /\ Sending' = writing'[t].sent
          /\ Uncounted = IF pc[t] \in {"recheck", "deliver"} THEN {t} ELSE {}
          /\ Uncounted' = IF to \in {"recheck", "deliver"} THEN {t} ELSE {}
      BY <1>1, <2>1, <2>2, RunnerStays DEF InLoop
    <3> QED
      BY <1>1, <3>1 DEF to
  <2>4. Order'
    BY <1>1, <2>1, <2>3 DEF Order, BInv, Account
  <2>5. RxCounted'
    <3>1. stats["rxEnqueued"] < CounterMax /\ stats["rxDelivered"] < CounterMax =>
            stats["rxEnqueued"] + carried.rx =
              stats["rxDelivered"] + Len(rx) + Cardinality(lost) + Len(Hand)
      BY <2>3 DEF BInv, Account, RxCounted
    <3>2. Len(Hand) = IF Uncounted' = {} THEN 0 ELSE Len(Hand')
      BY <2>1, <2>3
    <3> QED
      BY <1>1, <2>1, <3>1, <3>2 DEF RxCounted, BInv, Account
  <2>6. TxCounted'
    BY <1>1, <2>3 DEF TxCounted, BInv, Account
  <2>7. HoldsByPlace'
    <3> HIDE DEF to
    <3> QED
      BY <1>1, <1>2, <2>1, <2>2, RunnerHolds DEF InLoop
  <2> QED
    BY <2>4, <2>5, <2>6, <2>7 DEF Account
<1> QED
  BY <1>5, <1>6

LEMMA AccountDeliver ==
  ASSUME BInv, NEW t \in Task, Deliver(t) PROVE Account'
<1>1. /\ pc[t] = "deliver" /\ pc' = [pc EXCEPT ![t] = "input"]
      /\ stats' = [stats EXCEPT !["rxDelivered"] = CounterAdd(@, Len(chunk[t]))]
      /\ UNCHANGED <<chunk, writing, rx, txLen, arrived, fed, lost, drained, carried>>
  BY DEF Deliver, Goto, history
<1>2. pc[t] \in InLoop /\ "input" \in InLoop /\ "input" \in Holding /\ "input" \in Calling
  BY <1>1 DEF InLoop, Holding, Calling
<1>3. /\ Hand = chunk[t] /\ Hand' = Hand /\ Sending' = Sending
      /\ Uncounted = {t} /\ Uncounted' = {}
  <2>1. /\ Hand = chunk[t] /\ Hand' = chunk'[t]
        /\ Sending = writing[t].sent /\ Sending' = writing'[t].sent
        /\ Uncounted = IF pc[t] \in {"recheck", "deliver"} THEN {t} ELSE {}
        /\ Uncounted' = IF "input" \in {"recheck", "deliver"} THEN {t} ELSE {}
    BY <1>1, <1>2, RunnerStays
  <2> QED
    BY <1>1, <2>1
<1>4. /\ stats'["rxEnqueued"] = stats["rxEnqueued"]
      /\ stats'["rxDelivered"] = CounterAdd(stats["rxDelivered"], Len(Hand))
      /\ stats'["txEnqueued"] = stats["txEnqueued"]
  BY <1>1, <1>3, AccountTypes DEF Counters
<1>5. RxCounted'
  <2>1. /\ stats["rxEnqueued"] \in Nat /\ carried.rx \in Nat /\ Cardinality(lost) \in Nat
        /\ stats["rxDelivered"] \in 0..CounterMax /\ Len(Hand) \in Nat /\ Len(rx) \in Nat
        /\ CounterMax \in Nat
    BY AccountTypes, SizesNat DEF Counters
  <2>2. ASSUME stats'["rxEnqueued"] < CounterMax, stats'["rxDelivered"] < CounterMax
        PROVE  stats'["rxEnqueued"] + carried.rx =
                 stats'["rxDelivered"] + Len(rx) + Cardinality(lost) + 0
    <3>1. /\ stats'["rxDelivered"] = stats["rxDelivered"] + Len(Hand)
          /\ stats["rxDelivered"] < CounterMax /\ stats["rxEnqueued"] < CounterMax
      BY <1>4, <2>1, <2>2, CounterAddExact
    <3>2. stats["rxEnqueued"] + carried.rx =
            stats["rxDelivered"] + Len(rx) + Cardinality(lost) + Len(Hand)
      BY <1>3, <3>1 DEF BInv, Account, RxCounted
    <3> QED
      BY ONLY <1>4, <2>1, <3>1, <3>2
  <2> QED
    BY <1>1, <1>3, <2>2 DEF RxCounted, BInv, Account
<1>6. TxCounted' /\ Order'
  BY <1>1, <1>3, <1>4 DEF TxCounted, Order, BInv, Account
<1>7. HoldsByPlace'
  BY <1>1, <1>2, RunnerHolds
<1> QED
  BY <1>5, <1>6, <1>7 DEF Account

LEMMA AccountInputDone ==
  ASSUME BInv, NEW t \in Task, NEW ok \in BOOLEAN, InputDone(t, ok) PROVE Account'
<1>1. PICK to \in {"check", "fail"} : pc' = [pc EXCEPT ![t] = to]
  BY DEF InputDone, Goto
<1>2. /\ pc[t] = "input" /\ writing[t] = Idle /\ fed' = fed \o chunk[t]
      /\ chunk' = [chunk EXCEPT ![t] = <<>>]
      /\ UNCHANGED <<stats, writing, rx, txLen, arrived, lost, drained, carried>>
  BY DEF InputDone, Goto, portVars
<1>3. /\ pc[t] \in InLoop /\ to \in InLoop /\ to \notin Holding /\ to \notin Calling
      /\ to \notin {"recheck", "deliver"}
  BY <1>2 DEF InLoop, Holding, Calling
<1>4. /\ Hand = chunk[t] /\ Hand' = chunk'[t] /\ Sending' = Sending
      /\ Uncounted = {} /\ Uncounted' = {}
  <2>1. /\ Hand = chunk[t] /\ Hand' = chunk'[t]
        /\ Sending = writing[t].sent /\ Sending' = writing'[t].sent
        /\ Uncounted = IF pc[t] \in {"recheck", "deliver"} THEN {t} ELSE {}
        /\ Uncounted' = IF to \in {"recheck", "deliver"} THEN {t} ELSE {}
    BY <1>1, <1>3, RunnerStays
  <2> QED
    BY <1>2, <1>3, <2>1
<1>5. /\ chunk[t] \in Seq(Nat) /\ fed \in Seq(Nat) /\ chunk'[t] = <<>>
      /\ \A u \in Task : u # t => chunk'[u] = chunk[u]
  BY <1>2, AccountTypes DEF BInv, Inv, Types, TypeOK
<1>6. Order'
  <2>1. Ordered(fed, Hand, rx, lost, arrived)
    BY DEF BInv, Account, Order
  <2>2. Ordered(fed \o Hand, <<>>, rx, lost, arrived) /\ fed \o Hand \in Seq(Nat)
    BY <1>4, <1>5, <2>1, OrderedFeed, ConcatProperties
  <2> QED
    BY <1>2, <1>4, <1>5, <2>2 DEF Order
<1>7. RxCounted' /\ TxCounted'
  BY <1>2, <1>4 DEF RxCounted, TxCounted, BInv, Account
<1>8. HoldsByPlace'
  BY <1>1, <1>2, <1>3, <1>5, RunnerHolds
<1> QED
  BY <1>6, <1>7, <1>8 DEF Account

\* The steps inside the loop that move no byte.
LEMMA AccountWalk ==
  ASSUME BInv, NEW t \in Task, FirstCheck(t) \/ PromptDone(t) \/ Check(t) PROVE Account'
<1>1. PICK to \in {"check", "prompt", "exit", "receive"} : pc' = [pc EXCEPT ![t] = to]
  BY DEF FirstCheck, PromptDone, Check, Goto
<1>2. /\ pc[t] \in {"firstCheck", "prompt", "check"}
      /\ UNCHANGED <<stats, chunk, writing, rx, txLen, arrived, fed, lost, drained, carried>>
      /\ to \notin Calling => writing[t] = Idle
  <2>1. /\ pc[t] \in {"firstCheck", "prompt", "check"}
        /\ pc[t] = "prompt" => writing[t] = Idle
        /\ UNCHANGED <<stats, chunk, writing, rx, txLen, arrived, fed, lost, drained, carried>>
    BY DEF FirstCheck, PromptDone, Check, Goto, portVars, history
  <2>2. pc[t] # "prompt" => writing[t] = Idle
    BY <2>1 DEF BInv, Account, HoldsByPlace, Calling
  <2> QED
    BY <2>1, <2>2
<1>3. /\ pc[t] \in InLoop /\ to \in InLoop /\ pc[t] \notin Holding /\ to \notin Holding
      /\ pc[t] \notin {"recheck", "deliver"} /\ to \notin {"recheck", "deliver"}
  BY <1>2 DEF InLoop, Holding
<1>4. chunk[t] = <<>>
  BY <1>3 DEF BInv, Account, HoldsByPlace
<1>5. Hand' = Hand /\ Sending' = Sending /\ Uncounted = {} /\ Uncounted' = {}
  <2>1. /\ Hand = chunk[t] /\ Hand' = chunk'[t]
        /\ Sending = writing[t].sent /\ Sending' = writing'[t].sent
        /\ Uncounted = IF pc[t] \in {"recheck", "deliver"} THEN {t} ELSE {}
        /\ Uncounted' = IF to \in {"recheck", "deliver"} THEN {t} ELSE {}
    BY <1>1, <1>3, RunnerStays
  <2> QED
    BY <1>2, <1>3, <2>1
<1>6. Order' /\ RxCounted' /\ TxCounted'
  BY <1>2, <1>5 DEF Order, RxCounted, TxCounted, BInv, Account
<1>7. HoldsByPlace'
  BY <1>1, <1>2, <1>3, <1>4, RunnerHolds
<1> QED
  BY <1>6, <1>7 DEF Account

\* A task enters and leaves the loop with nothing in hand and no write open.
LEMMA AccountEnter ==
  ASSUME BInv, NEW t \in Task, Enter(t) PROVE Account'
<1>1. UNCHANGED <<stats, chunk, writing, rx, txLen, arrived, fed, lost, drained, carried>>
  BY DEF Enter, history
<1>2. CASE running
  BY <1>1, <1>2, AccountUnmoved DEF Enter
<1>3. CASE ~running
  <2>1. Owners = {} /\ pc[t] = "out" /\ pc' = [pc EXCEPT ![t] = "firstCheck"]
    BY <1>3 DEF Enter, BInv, Inv, Control, SingleOwner
  <2>2. chunk[t] = <<>> /\ writing[t] = Idle
    BY <2>1 DEF BInv, Account, HoldsByPlace, Holding, Calling
  <2>3. Owners' = {t} /\ Uncounted = {} /\ Uncounted' = {}
    BY <2>1 DEF Owners, Uncounted, InLoop, BInv, Inv, Types, TypeOK
  <2>4. (CHOOSE u \in Owners' : TRUE) = t
    BY <2>3
  <2>5. Hand' = Hand /\ Sending' = Sending
    BY <1>1, <2>1, <2>2, <2>3, <2>4 DEF Hand, Sending, Idle
  <2>6. HoldsByPlace'
    BY <1>1, <2>1, <2>2 DEF HoldsByPlace, BInv, Account, Inv, Types, TypeOK
  <2>7. Order' /\ RxCounted' /\ TxCounted'
    BY <1>1, <2>3, <2>5 DEF Order, RxCounted, TxCounted, BInv, Account
  <2> QED
    BY <2>6, <2>7 DEF Account
<1> QED
  BY <1>2, <1>3

LEMMA AccountLeave ==
  ASSUME BInv, NEW t \in Task, Fail(t) \/ Exit(t) PROVE Account'
<1>1. /\ pc[t] \in {"fail", "exit"} /\ pc' = [pc EXCEPT ![t] = "out"]
      /\ UNCHANGED <<chunk, writing, rx, txLen, arrived, fed, lost, drained, carried>>
      /\ \A c \in {"rxEnqueued", "rxDelivered", "txEnqueued"} : stats'[c] = stats[c]
  BY AccountTypes DEF Fail, Exit, Goto, Counters
<1>2. pc[t] \in InLoop /\ pc[t] \notin Holding /\ pc[t] \notin Calling
  BY <1>1 DEF InLoop, Holding, Calling
<1>3. chunk[t] = <<>> /\ writing[t] = Idle
  BY <1>2 DEF BInv, Account, HoldsByPlace
<1>4. Owners' = {} /\ Owners = {t}
  BY <1>1, <1>2, OwnerLeaves DEF BInv, Inv, Control, SingleOwner, Owners
<1>5. Uncounted = {} /\ Uncounted' = {}
  BY <1>1, <1>4 DEF Uncounted, Owners, InLoop
<1>6. (CHOOSE u \in Owners : TRUE) = t
  BY <1>4
<1>7. Hand' = Hand /\ Sending' = Sending
  BY <1>3, <1>4, <1>6 DEF Hand, Sending, Idle
<1>8. HoldsByPlace'
  BY <1>1, <1>3 DEF HoldsByPlace, BInv, Account, Inv, Types, TypeOK
<1>9. Order' /\ RxCounted' /\ TxCounted'
  BY <1>1, <1>5, <1>7 DEF Order, RxCounted, TxCounted, BInv, Account
<1> QED
  BY <1>8, <1>9 DEF Account

\* A write: what the stream took is open until the critical section counts it.
LEMMA AccountTxSend ==
  ASSUME BInv, NEW t \in Task, NEW len \in 1..MaxBurst, TxSend(t, len) PROVE Account'
<1> DEFINE sent == Least(len, TxCapacity - txLen)
<1>1. /\ pc[t] \in Calling /\ writing[t] = Idle /\ txLen' = txLen + sent
      /\ writing' = [writing EXCEPT ![t] = [len |-> len, sent |-> sent]]
      /\ UNCHANGED <<stats, pc, chunk, rx, arrived, fed, lost, drained, carried>>
  BY DEF TxSend, Calling, portVars
<1>2. sent \in Nat
  <2>1. len \in Nat /\ TxCapacity - txLen \in Nat
    BY BoundAssumption, SizesNat DEF BInv, Inv, Types, TypeOK
  <2> QED
    BY <2>1, LeastFacts
<1> HIDE DEF sent
<1>3. Owners' = Owners /\ Uncounted' = Uncounted /\ Owners = {t}
  BY <1>1 DEF Owners, Uncounted, Calling, InLoop, BInv, Inv, Control, SingleOwner
<1>4. (CHOOSE u \in Owners : TRUE) = t
  BY <1>3
<1>5. /\ writing'[t] = [len |-> len, sent |-> sent]
      /\ \A u \in Task : u # t => writing'[u] = writing[u]
  BY <1>1 DEF BInv, Inv, Types, TypeOK
<1>6. Hand' = Hand /\ Sending = 0 /\ Sending' = sent
  BY <1>1, <1>3, <1>4, <1>5 DEF Hand, Sending, Idle
<1>7. HoldsByPlace'
  BY <1>1, <1>5 DEF HoldsByPlace, BInv, Account
<1>8. Order' /\ RxCounted'
  BY <1>1, <1>3, <1>6 DEF Order, RxCounted, BInv, Account
<1>9. TxCounted'
  <2>1. /\ stats["txEnqueued"] \in Nat /\ carried.tx \in Nat /\ txLen \in Nat
        /\ drained \in Nat
    BY AccountTypes, SizesNat DEF Counters
  <2>2. stats["txEnqueued"] < CounterMax =>
          stats["txEnqueued"] + carried.tx + 0 = txLen + drained
    BY <1>6 DEF TxCounted, BInv, Account
  <2>3. stats["txEnqueued"] < CounterMax =>
          stats["txEnqueued"] + carried.tx + sent = txLen' + drained
    BY <1>1, <1>2, <2>1, <2>2
  <2> QED
    BY <1>1, <1>6, <2>1, <2>3 DEF TxCounted
<1> QED
  BY <1>7, <1>8, <1>9 DEF Account

LEMMA AccountTxCount ==
  ASSUME BInv, NEW t \in Task, TxCount(t) PROVE Account'
<1>1. /\ writing[t] # Idle /\ writing' = [writing EXCEPT ![t] = Idle]
      /\ stats' = [stats EXCEPT
                     !["txEnqueued"] = CounterAdd(@, writing[t].sent),
                     !["txOverflow"] = CounterAdd(@, writing[t].len - writing[t].sent)]
      /\ UNCHANGED <<pc, chunk, rx, txLen, arrived, fed, lost, drained, carried>>
  BY DEF TxCount, history
<1>2. pc[t] \in Calling
  BY <1>1 DEF BInv, Account, HoldsByPlace
<1>3. Owners' = Owners /\ Uncounted' = Uncounted /\ Owners = {t}
  BY <1>1, <1>2 DEF Owners, Uncounted, Calling, InLoop, BInv, Inv, Control, SingleOwner
<1>4. (CHOOSE u \in Owners : TRUE) = t
  BY <1>3
<1>5. writing'[t] = Idle /\ \A u \in Task : u # t => writing'[u] = writing[u]
  BY <1>1 DEF BInv, Inv, Types, TypeOK
<1>6. Hand' = Hand /\ Sending = writing[t].sent /\ Sending' = 0
  BY <1>1, <1>3, <1>4, <1>5 DEF Hand, Sending, Idle
<1>7. /\ stats'["rxEnqueued"] = stats["rxEnqueued"]
      /\ stats'["rxDelivered"] = stats["rxDelivered"]
      /\ stats'["txEnqueued"] = CounterAdd(stats["txEnqueued"], Sending)
  BY <1>1, <1>6, AccountTypes DEF Counters
<1>8. HoldsByPlace'
  BY <1>1, <1>5 DEF HoldsByPlace, BInv, Account
<1>9. Order' /\ RxCounted'
  BY <1>1, <1>3, <1>6, <1>7 DEF Order, RxCounted, BInv, Account
<1>10. TxCounted'
  <2>1. /\ stats["txEnqueued"] \in 0..CounterMax /\ CounterMax \in Nat
        /\ carried.tx \in Nat /\ txLen \in Nat /\ drained \in Nat /\ Sending \in Nat
    BY AccountTypes, SizesNat DEF Counters
  <2>2. ASSUME stats'["txEnqueued"] < CounterMax
        PROVE  stats'["txEnqueued"] + carried.tx + 0 = txLen + drained
    <3>1. /\ stats'["txEnqueued"] = stats["txEnqueued"] + Sending
          /\ stats["txEnqueued"] < CounterMax
      BY <1>7, <2>1, <2>2, CounterAddExact
    <3>2. stats["txEnqueued"] + carried.tx + Sending = txLen + drained
      BY <3>1 DEF TxCounted, BInv, Account
    <3> QED
      BY ONLY <2>1, <3>1, <3>2
  <2> QED
    BY <1>1, <1>6, <2>1, <2>2 DEF TxCounted
<1> QED
  BY <1>8, <1>9, <1>10 DEF Account

LEMMA AccountTxDrain ==
  ASSUME BInv, TxDrain PROVE Account'
<1>1. /\ txLen > 0 /\ txLen' = txLen - 1 /\ drained' = drained + 1
      /\ UNCHANGED <<stats, pc, chunk, writing, rx, arrived, fed, lost, carried>>
  BY DEF TxDrain, portVars, taskVars
<1>2. Owners' = Owners /\ Uncounted' = Uncounted
  BY <1>1 DEF Owners, Uncounted
<1>3. Hand' = Hand /\ Sending' = Sending
  BY <1>1, <1>2 DEF Hand, Sending
<1>4. txLen \in Nat /\ drained \in Nat /\ drained' \in Nat /\ txLen' + drained' = txLen + drained
  <2>1. txLen \in Nat /\ drained \in Nat
    BY AccountTypes
  <2> QED
    BY <1>1, <2>1
<1>5. TxCounted'
  BY <1>1, <1>3, <1>4 DEF TxCounted, BInv, Account
<1> QED
  BY <1>1, <1>2, <1>3, <1>5 DEF Account, HoldsByPlace, Order, RxCounted, BInv

\* A reset starts the balance anew from what is under way; it is refused while
\* the loop runs, so nothing is in hand.
LEMMA AccountResetStats ==
  ASSUME BInv, ResetStats PROVE Account'
<1>1. /\ ~running /\ stats' = [c \in Counters |-> 0]
      /\ carried' = [rx |-> Len(rx) + Cardinality(lost), tx |-> txLen + drained]
      /\ UNCHANGED <<pc, chunk, writing, rx, txLen, arrived, fed, lost, drained>>
  BY DEF ResetStats, taskVars
<1>2. Owners = {}
  BY <1>1 DEF BInv, Inv, Control, SingleOwner
<1>3. Owners' = {} /\ Uncounted' = {}
  BY <1>1, <1>2 DEF Owners, Uncounted, InLoop
<1>4. Hand' = <<>> /\ Hand = <<>> /\ Sending' = 0
  BY <1>2, <1>3 DEF Hand, Sending
<1>5. HoldsByPlace' /\ Order'
  BY <1>1, <1>4 DEF HoldsByPlace, Order, BInv, Account
<1>6. /\ stats'["rxEnqueued"] = 0 /\ stats'["rxDelivered"] = 0 /\ stats'["txEnqueued"] = 0
      /\ carried'.rx = Len(rx) + Cardinality(lost) /\ carried'.tx = txLen + drained
  BY <1>1 DEF Counters
<1>7. Len(rx) \in Nat /\ Cardinality(lost) \in Nat /\ txLen \in Nat /\ drained \in Nat
  BY AccountTypes
<1>8. RxCounted' /\ TxCounted'
  BY <1>1, <1>3, <1>4, <1>6, <1>7 DEF RxCounted, TxCounted
<1> QED
  BY <1>5, <1>8 DEF Account

LEMMA AccountNext == BInv /\ [Next]_vars => Account'
<1> SUFFICES ASSUME BInv, [Next]_vars PROVE Account'
  OBVIOUS
<1>1. CASE RxInvalid \/ TxInvalid \/ RequestStop \/ ClearStop \/ UNCHANGED vars
  <2>1. UNCHANGED <<pc, chunk, writing, rx, txLen, arrived, fed, lost, drained, carried>>
    BY <1>1 DEF RxInvalid, TxInvalid, RequestStop, ClearStop, vars, taskVars, history
  <2>2. \A c \in {"rxEnqueued", "rxDelivered", "txEnqueued"} : stats'[c] = stats[c]
    BY <1>1, AccountTypes
       DEF RxInvalid, TxInvalid, RequestStop, ClearStop, vars, portVars, Counters
  <2> QED
    BY <2>1, <2>2, AccountUnmoved
<1> QED
  BY <1>1, AccountRxFromIsr, AccountEnter, AccountWalk, AccountReceive, AccountRecheck,
     AccountDeliver, AccountInputDone, AccountLeave, AccountTxCount, AccountTxSend,
     AccountTxDrain, AccountResetStats DEF Next, RunStep

\* Where the bytes are and what the counters say of them, in every state.
THEOREM FreeRtosAccount == Spec => []BInv
<1>1. Init => BInv
  BY TypesInit, ControlInit, AccountInit DEF BInv, Inv
<1>2. BInv /\ [Next]_vars => BInv'
  BY TypesNext, ControlNext, AccountNext DEF BInv, Inv
<1> QED
  BY <1>1, <1>2, PTL DEF Spec

\* For any interrupt load and any stops, received bytes reach the shell at most
\* once and in the order they arrived, and a dropped one never comes back.
THEOREM FreeRtosRxInOrder == Spec => []RxInOrder
<1>1. BInv => RxInOrder
  <2> SUFFICES ASSUME BInv PROVE RxInOrder
    OBVIOUS
  <2> DEFINE chain == fed \o Hand \o rx
  <2>1. fed \in Seq(Nat) /\ Hand \in Seq(Nat) /\ rx \in Seq(Nat) /\ fed \o Hand \in Seq(Nat)
    BY AccountTypes, ConcatProperties
  <2>2. Ordered(fed, Hand, rx, lost, arrived)
    BY DEF BInv, Account, Order
  <2>3. /\ Elements(chain) = Elements(fed) \cup Elements(Hand) \cup Elements(rx)
        /\ Elements(fed \o Hand) = Elements(fed) \cup Elements(Hand)
    BY <2>1, ConcatElements
  <2>4. Increasing(fed \o Hand)
    BY <2>1, <2>2, ConcatIncreasing DEF Ordered
  <2>5. Before(Elements(fed \o Hand), Elements(rx))
    BY <2>2, <2>3 DEF Ordered, Before
  <2>6. Increasing(chain)
    BY <2>1, <2>2, <2>4, <2>5, ConcatIncreasing DEF Ordered
  <2>7. Elements(chain) \cap lost = {}
    BY <2>2, <2>3 DEF Ordered
  <2> HIDE DEF chain
  <2>8. /\ \A i, j \in 1..Len(chain) : i < j => chain[i] < chain[j]
        /\ \A i \in 1..Len(chain) : chain[i] \notin lost
    BY <2>6, <2>7 DEF Increasing, Elements
  <2> QED
    BY <2>8 DEF chain, Hand, RxInOrder
<1> QED
  BY <1>1, FreeRtosAccount, PTL

\* Until one saturates, the RX counters account for every byte queued.
THEOREM FreeRtosRxBalance == Spec => []RxBalance
<1>1. BInv => RxBalance
  <2> SUFFICES ASSUME BInv PROVE RxBalance
    OBVIOUS
  <2>1. Cardinality(UNION {ChunkOf(t) : t \in Uncounted})
          = IF Uncounted = {} THEN 0 ELSE Len(Hand)
    <3>1. CASE Uncounted = {}
      <4>1. UNION {ChunkOf(t) : t \in Uncounted} = {}
        BY <3>1
      <4> QED
        BY <3>1, <4>1, FS_EmptySet
    <3>2. ASSUME NEW t \in Uncounted
          PROVE  Cardinality(UNION {ChunkOf(u) : u \in Uncounted}) = Len(Hand)
      <4>1. t \in Owners /\ Uncounted \subseteq Owners
        BY DEF Uncounted, Owners, InLoop
      <4>2. Owners = {t} /\ Uncounted = {t}
        BY <3>2, <4>1 DEF BInv, Inv, Control, SingleOwner
      <4>3. (CHOOSE u \in Owners : TRUE) = t
        BY <4>2
      <4>4. Hand = chunk[t]
        BY <4>2, <4>3 DEF Hand
      <4>5. UNION {ChunkOf(u) : u \in Uncounted} = Elements(Hand)
        <5>1. UNION {ChunkOf(u) : u \in Uncounted} = ChunkOf(t)
          BY <4>2
        <5> QED
          BY <4>4, <5>1 DEF ChunkOf, Elements
      <4>6. Hand \in Seq(Nat) /\ Increasing(Hand)
        BY AccountTypes DEF BInv, Account, Order, Ordered
      <4> QED
        BY <4>5, <4>6, IncreasingCount
    <3> QED
      BY <3>1, <3>2
  <2> QED
    BY <2>1 DEF BInv, Account, RxCounted, RxBalance
<1> QED
  BY <1>1, FreeRtosAccount, PTL

\* Until it saturates, the TX counter and the write still to be counted account
\* for every byte the stream took.
THEOREM FreeRtosTxBalance == Spec => []TxBalance
<1>1. BInv => TxBalance
  BY DEF BInv, Account, TxCounted, TxBalance, Sending
<1> QED
  BY <1>1, FreeRtosAccount, PTL
=============================================================================
