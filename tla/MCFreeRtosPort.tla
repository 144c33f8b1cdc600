--------------------------- MODULE MCFreeRtosPort ---------------------------
(***************************************************************************)
(* Small instances of FreeRtosPort: two tasks that both call               *)
(* sh_freertos_run, an RX stream that two interrupts overflow, counters    *)
(* that saturate.                                                          *)
(***************************************************************************)
EXTENDS FreeRtosPort

CONSTANTS t1, t2
MCTask == {t1, t2}
=============================================================================
