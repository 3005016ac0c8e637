-------------------------------- MODULE Uart --------------------------------
(***************************************************************************)
(* The serial line (board/frdmmcxe247/src/uart.zig): threads that write,   *)
(* by themselves or byte by byte through stdio.zig, the vendor's driver    *)
(* and its interrupt, and the event flags between them.                    *)
(*                                                                         *)
(* The driver is external: it takes one transfer at a time, and its        *)
(* interrupt calls onTxDone when the transfer is over, with the driver     *)
(* idle again, and with another status when the receiver overruns.         *)
(***************************************************************************)
EXTENDS Naturals

CONSTANTS
  Writers,    \* threads
  MaxBytes    \* the longest write

ASSUME WritersAssumption == "none" \notin Writers
ASSUME MaxBytesAssumption == MaxBytes \in Nat \ {0}

TX_COMPLETE == 2

VARIABLES
  tx_mutex,   \* its holder, or "none"
  tx_flags,   \* the event flags
  txBusy,     \* txState of the driver's handle
  left,       \* bytes that have not left yet
  overrun,    \* the receiver has lost a byte
  place,      \* where each thread is in write
  size,       \* data.len of its call
  result      \* how its last call ended

driver == <<txBusy, left, overrun>>
uartVars == <<tx_mutex, tx_flags, driver, place, size, result>>

UartInit ==
  /\ tx_mutex = "none"
  /\ tx_flags = {}
  /\ txBusy = FALSE
  /\ left = 0
  /\ overrun = FALSE
  /\ place = [w \in Writers |-> "idle"]
  /\ size = [w \in Writers |-> 0]
  /\ result = [w \in Writers |-> "ok"]

Moves(w, from, to) == place[w] = from /\ place' = [place EXCEPT ![w] = to]

Acquire(w) ==
  /\ tx_mutex = "none"
  /\ Moves(w, "idle", "clear")
  /\ tx_mutex' = w
  /\ \E n \in 0..MaxBytes : size' = [size EXCEPT ![w] = n]
  /\ UNCHANGED <<tx_flags, driver, result>>

ClearFlags(w) ==
  /\ Moves(w, "clear", "send")
  /\ tx_flags' = {}
  /\ UNCHANGED <<tx_mutex, driver, size, result>>

\* LPUART_TransferSendNonBlocking: busy, nothing to send, or on its way.
Send(w) ==
  /\ IF txBusy \/ size[w] = 0
       THEN /\ Moves(w, "send", "release")
            /\ result' = [result EXCEPT ![w] = IF txBusy THEN "busy" ELSE "empty"]
            /\ UNCHANGED driver
       ELSE /\ Moves(w, "send", "wait")
            /\ txBusy' = TRUE /\ left' = size[w]
            /\ UNCHANGED <<overrun, result>>
  /\ UNCHANGED <<tx_mutex, tx_flags, size>>

\* Fault: the flags are cleared once the transfer is on its way.
WaitFlags_ClearsFirst(w) ==
  /\ tx_flags # {} /\ tx_flags' = {}
  /\ \/ place[w] = "wait" /\ UNCHANGED <<place, result>>
     \/ Moves(w, "wait", "release") /\ result' = [result EXCEPT ![w] = "ok"]
  /\ UNCHANGED <<tx_mutex, driver, size>>

\* Any flag of the mask ends the wait, and is cleared.
WaitFlags(w) ==
  /\ tx_flags # {}
  /\ Moves(w, "wait", "release")
  /\ tx_flags' = {}
  /\ result' = [result EXCEPT ![w] = "ok"]
  /\ UNCHANGED <<tx_mutex, driver, size>>

\* The deferred release, on every way out.
Release(w) ==
  /\ Moves(w, "release", "idle")
  /\ tx_mutex' = "none"
  /\ size' = [size EXCEPT ![w] = 0]
  /\ UNCHANGED <<tx_flags, driver, result>>

Write(w) == ClearFlags(w) \/ Send(w) \/ WaitFlags(w) \/ Release(w)

-----------------------------------------------------------------------------
(* The device and its interrupt.                                           *)

ByteLeaves ==
  /\ left > 0
  /\ left' = left - 1
  /\ UNCHANGED <<tx_mutex, tx_flags, txBusy, overrun, place, size, result>>

\* Nobody reads the receiver.
ReceiverOverruns ==
  /\ ~overrun
  /\ overrun' = TRUE
  /\ UNCHANGED <<tx_mutex, tx_flags, txBusy, left, place, size, result>>

\* Fault: every status counts as the end of a transfer.
FlagsOf_Any(statuses) == IF statuses # {} THEN {TX_COMPLETE} ELSE {}

\* onTxDone, called with each of these statuses.
FlagsOf(statuses) == IF "TxIdle" \in statuses THEN {TX_COMPLETE} ELSE {}

\* LPUART2_IRQHandler, which no thread interrupts.
UartInterrupt ==
  LET done == txBusy /\ left = 0
      statuses == {s \in {"TxIdle", "RxOverrun"} : IF s = "TxIdle" THEN done ELSE overrun}
  IN /\ statuses # {}
     /\ tx_flags' = tx_flags \cup FlagsOf(statuses)
     /\ txBusy' = (txBusy /\ ~done)
     /\ overrun' = FALSE
     /\ UNCHANGED <<tx_mutex, left, place, size, result>>

UartNext ==
  \/ \E w \in Writers : Acquire(w) \/ Write(w)
  \/ ByteLeaves \/ ReceiverOverruns \/ UartInterrupt

UartFairness ==
  /\ \A w \in Writers : WF_uartVars(Write(w))
  /\ WF_uartVars(ByteLeaves) /\ WF_uartVars(UartInterrupt)

UartSpec == UartInit /\ [][UartNext]_uartVars

-----------------------------------------------------------------------------
(* Properties.                                                             *)

\* The types; a thread is past `acquire' exactly while it holds the mutex.
UartTypeOK ==
  /\ tx_mutex \in Writers \cup {"none"}
  /\ tx_flags \subseteq {TX_COMPLETE}
  /\ txBusy \in BOOLEAN /\ overrun \in BOOLEAN
  /\ left \in 0..MaxBytes
  /\ place \in [Writers -> {"idle", "clear", "send", "wait", "release"}]
  /\ size \in [Writers -> 0..MaxBytes]
  /\ result \in [Writers -> {"ok", "busy", "empty"}]
  /\ \A w \in Writers : tx_mutex = w <=> place[w] # "idle"

\* A thread in write's wait is answered: its transfer goes on, or has ended and its
\* flag is up (the flags are cleared before the transfer begins, not after).
WaitIsAnswered ==
  (\E w \in Writers : place[w] = "wait") => txBusy \/ TX_COMPLETE \in tx_flags

\* write is a synchronous, exclusive write.
Line == INSTANCE SyncWrite WITH
  writer <- IF tx_mutex # "none" /\ place[tx_mutex] = "wait" THEN tx_mutex ELSE "none"

IsSyncWrite == Line!Spec
=============================================================================
