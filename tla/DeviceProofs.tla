---------------------------- MODULE DeviceProofs ----------------------------
(***************************************************************************)
(* Proofs about the serial line and the clock, for any threads, any length *)
(* of a write and the real sizes of the era.                               *)
(*                                                                         *)
(* The devices share no variable, so that a step of Devices is a step or a *)
(* stutter of each, and each has an inductive invariant of its own.        *)
(***************************************************************************)
EXTENDS Devices, TLAPS

-----------------------------------------------------------------------------
(* The serial line.                                                        *)

Waiting == \E w \in Writers : place[w] = "wait"

\* The driver is busy only for a thread that waits, a flag is up only when its
\* transfer is over and it has not looked yet, and no byte is left without the driver.
LineInv ==
  /\ UartTypeOK
  /\ txBusy => Waiting
  /\ left > 0 => txBusy
  /\ tx_flags # {} => Waiting /\ ~txBusy
  /\ Waiting => txBusy \/ TX_COMPLETE \in tx_flags

LEMMA LineInitially == UartInit => LineInv
<1> SUFFICES ASSUME UartInit PROVE LineInv
  OBVIOUS
<1>1. UartTypeOK
  <2>1. left \in 0..MaxBytes /\ size \in [Writers -> 0..MaxBytes]
    BY MaxBytesAssumption DEF UartInit
  <2>2. \A w \in Writers : tx_mutex = w <=> place[w] # "idle"
    BY WritersAssumption DEF UartInit
  <2> QED BY <2>1, <2>2 DEF UartInit, UartTypeOK
<1>2. ~Waiting
  BY DEF UartInit, Waiting
<1> QED BY <1>1, <1>2 DEF UartInit, LineInv

\* Only the holder of the mutex is anywhere in write.
LEMMA OneInWrite ==
  ASSUME UartTypeOK, NEW w \in Writers, place[w] # "idle"
  PROVE  \A u \in Writers : u # w => place[u] = "idle"
  BY DEF UartTypeOK

LEMMA LineStep == LineInv /\ [UartNext]_uartVars => LineInv'
<1> SUFFICES ASSUME LineInv, [UartNext]_uartVars PROVE LineInv'
  OBVIOUS
<1> USE MaxBytesAssumption, WritersAssumption  DEF LineInv, UartTypeOK, Waiting, TX_COMPLETE, Moves, driver
<1>1. ASSUME NEW w \in Writers, Acquire(w) PROVE LineInv'
  BY <1>1 DEF Acquire
<1>2. ASSUME NEW w \in Writers, ClearFlags(w) PROVE LineInv'
  BY <1>2, OneInWrite DEF ClearFlags
<1>3. ASSUME NEW w \in Writers, Send(w) PROVE LineInv'
  <2>1. \A u \in Writers : u # w => place[u] = "idle"
    BY <1>3, OneInWrite DEF Send
  <2>2. ~txBusy /\ tx_flags = {} /\ left = 0
    BY <1>3, <2>1 DEF Send
  <2>3. CASE size[w] = 0
    BY <1>3, <2>1, <2>2, <2>3 DEF Send
  <2>4. CASE size[w] # 0
    <3>1. /\ place[w] = "send" /\ place' = [place EXCEPT ![w] = "wait"]
          /\ txBusy' = TRUE /\ left' = size[w]
          /\ UNCHANGED <<overrun, result, tx_mutex, tx_flags, size>>
      BY <1>3, <2>2, <2>4 DEF Send
    <3>2. UartTypeOK'
      BY <2>1, <3>1
    <3>3. place'[w] = "wait" /\ Waiting'
      BY <3>1
    <3> QED BY <2>2, <3>1, <3>2, <3>3
  <2> QED BY <2>3, <2>4
<1>4. ASSUME NEW w \in Writers, WaitFlags(w) PROVE LineInv'
  BY <1>4, OneInWrite DEF WaitFlags
<1>5. ASSUME NEW w \in Writers, Release(w) PROVE LineInv'
  BY <1>5, OneInWrite DEF Release
<1>6. CASE ByteLeaves
  BY <1>6 DEF ByteLeaves
<1>7. CASE ReceiverOverruns
  BY <1>7 DEF ReceiverOverruns
<1>8. CASE UartInterrupt
  <2> DEFINE done == txBusy /\ left = 0
             statuses == {s \in {"TxIdle", "RxOverrun"} : IF s = "TxIdle" THEN done ELSE overrun}
  <2>1. /\ tx_flags' = tx_flags \cup FlagsOf(statuses)
        /\ txBusy' = (txBusy /\ ~done)
        /\ overrun' = FALSE
        /\ UNCHANGED <<tx_mutex, left, place, size, result>>
    BY <1>8 DEF UartInterrupt
  <2>2. (Waiting' <=> Waiting) /\ left' = left
    BY <2>1
  <2>3. CASE done
    <3>1. "TxIdle" \in statuses
      BY <2>3
    <3>2. tx_flags' = {TX_COMPLETE} /\ txBusy' = FALSE
      BY <2>1, <2>3, <3>1 DEF FlagsOf
    <3>3. UartTypeOK'
      BY <2>1, <3>2
    <3>4. Waiting'
      BY <2>3, <2>2
    <3> QED BY <2>3, <2>2, <3>2, <3>3, <3>4
  <2>4. CASE ~done
    <3>1. "TxIdle" \notin statuses
      BY <2>4
    <3>2. tx_flags' = tx_flags /\ txBusy' = txBusy
      BY <2>1, <2>4, <3>1 DEF FlagsOf
    <3>3. UartTypeOK'
      BY <2>1, <3>2
    <3> QED BY <2>2, <3>2, <3>3
  <2> QED BY <2>3, <2>4
<1>9. CASE UNCHANGED uartVars
  BY <1>9 DEF uartVars
<1> QED BY <1>1, <1>2, <1>3, <1>4, <1>5, <1>6, <1>7, <1>8, <1>9 DEF UartNext, Write

\* A step of the program is a step or a stutter of each device.
LEMMA DevicesStep == [Next]_vars => [UartNext]_uartVars /\ [RtcNext]_rtcVars
  BY DEF Next, vars, RtcNext

THEOREM LineInvariance == Spec => []LineInv
<1>1. Init => LineInv
  BY LineInitially DEF Init
<1>2. LineInv /\ [Next]_vars => LineInv'
  BY LineStep, DevicesStep
<1> QED BY <1>1, <1>2, PTL DEF Spec

\* A thread that waits in write is answered (uart.zig:99-103).
THEOREM WaitIsAnsweredHolds == Spec => []WaitIsAnswered
<1>1. LineInv => WaitIsAnswered
  BY DEF LineInv, WaitIsAnswered, Waiting
<1> QED BY <1>1, LineInvariance, PTL

\* Whoever is in the wait is the writer that SyncWrite sees.
LEMMA LineRefinesStep ==
  LineInv /\ [UartNext]_uartVars => [Line!Next]_(Line!vars)
<1> SUFFICES ASSUME LineInv, [UartNext]_uartVars PROVE [Line!Next]_(Line!vars)
  OBVIOUS
<1> DEFINE Writer == IF tx_mutex # "none" /\ place[tx_mutex] = "wait" THEN tx_mutex ELSE "none"
<1> USE WritersAssumption DEF LineInv, UartTypeOK, Moves, driver, Line!vars
<1>1. ASSUME NEW w \in Writers, Acquire(w) PROVE UNCHANGED Line!vars
  <2>1. Writer = "none" /\ Writer' = "none"
    BY <1>1 DEF Acquire
  <2> QED BY <1>1, <2>1 DEF Acquire
<1>2. ASSUME NEW w \in Writers, ClearFlags(w) PROVE UNCHANGED Line!vars
  <2>1. tx_mutex = w /\ Writer = "none" /\ Writer' = "none"
    BY <1>2 DEF ClearFlags
  <2> QED BY <1>2, <2>1 DEF ClearFlags
<1>3. ASSUME NEW w \in Writers, Send(w) PROVE [Line!Next]_(Line!vars)
  <2>1. tx_mutex = w /\ Writer = "none"
    BY <1>3 DEF Send
  <2>2. CASE txBusy \/ size[w] = 0
    <3>1. Writer' = "none" /\ left' = left
      BY <1>3, <2>1, <2>2 DEF Send
    <3> QED BY <2>1, <3>1
  <2>3. CASE ~(txBusy \/ size[w] = 0)
    <3>1. Writer' = w /\ left' = size[w]
      BY <1>3, <2>1, <2>3 DEF Send
    <3>2. left = 0 /\ size[w] \in 1..MaxBytes
      BY <2>3, MaxBytesAssumption
    <3> QED BY <2>1, <3>1, <3>2 DEF Line!Next, Line!Begin
  <2> QED BY <2>2, <2>3
<1>4. ASSUME NEW w \in Writers, WaitFlags(w) PROVE Line!Next
  <2>1. tx_mutex = w /\ Writer = w /\ Writer' = "none"
    BY <1>4 DEF WaitFlags
  <2>2. left = 0 /\ left' = left
    BY <1>4, MaxBytesAssumption DEF WaitFlags
  <2> QED BY <2>1, <2>2 DEF Line!Next, Line!End
<1>5. ASSUME NEW w \in Writers, Release(w) PROVE UNCHANGED Line!vars
  <2>1. tx_mutex = w /\ Writer = "none" /\ Writer' = "none"
    BY <1>5 DEF Release
  <2> QED BY <1>5, <2>1 DEF Release
<1>6. CASE ByteLeaves
  BY <1>6 DEF ByteLeaves, Line!Next, Line!Byte
<1>7. CASE ReceiverOverruns
  BY <1>7 DEF ReceiverOverruns
<1>8. CASE UartInterrupt
  BY <1>8 DEF UartInterrupt
<1>9. CASE UNCHANGED uartVars
  BY <1>9 DEF uartVars
<1> QED BY <1>1, <1>2, <1>3, <1>4, <1>5, <1>6, <1>7, <1>8, <1>9 DEF UartNext, Write

\* The safety part of the refinement: one writer at a time, and write returns only
\* when the last of its bytes has left (uart.zig:71-111).
THEOREM WriteIsSynchronous == Spec => Line!Init /\ [][Line!Next]_(Line!vars)
<1>1. Init => Line!Init
  BY WritersAssumption DEF Init, UartInit, Line!Init
<1>2. LineInv /\ [Next]_vars => [Line!Next]_(Line!vars)
  BY LineRefinesStep, DevicesStep
<1> QED BY <1>1, <1>2, LineInvariance, PTL DEF Spec

-----------------------------------------------------------------------------
(* The clock.                                                              *)

\* What set_timestamp has read and written so far, with the counter stopped under it.
ClockInv ==
  /\ RtcTypeOK
  /\ at = "write" => prev = tsr
  /\ at = "start" => prev # 0 /\ jump = Abs(AtLeastOne(wanted) - prev)

LEMMA ClockStep == ClockInv /\ [RtcNext]_rtcVars => ClockInv'
<1> SUFFICES ASSUME ClockInv, [RtcNext]_rtcVars PROVE ClockInv'
  OBVIOUS
<1> USE EraAssumption, LastTimeAssumption DEF ClockInv, RtcTypeOK, U32, AtLeastOne, Step
<1>1. CASE Start
  BY <1>1 DEF Start
<1>2. CASE Request
  BY <1>2 DEF Request
<1>3. CASE Answer
  BY <1>3 DEF Answer
<1>4. CASE StopTimer
  BY <1>4 DEF StopTimer
<1>5. CASE ReadPrev
  BY <1>5 DEF ReadPrev
<1>6. CASE WriteTsr
  <2>1. ~running /\ prev = tsr /\ prev # 0
    BY <1>6 DEF WriteTsr
  <2>2. /\ at' = "start" /\ tsr' = AtLeastOne(wanted) /\ jump' = Abs(tsr' - tsr)
        /\ UNCHANGED <<running, tick, val, wanted, prev>>
    BY <1>6, <2>1 DEF WriteTsr
  <2>3. tsr' \in U32 /\ tsr' # 0 /\ jump' \in U32
    BY <2>2 DEF Abs
  <2> QED BY <1>6, <2>1, <2>2, <2>3 DEF WriteTsr
<1>7. CASE StartTimer
  BY <1>7 DEF StartTimer
<1>8. CASE Second
  BY <1>8 DEF Second
<1>9. CASE handle_isr
  BY <1>9 DEF handle_isr
<1>10. CASE UNCHANGED rtcVars
  BY <1>10 DEF rtcVars
<1> QED
  BY <1>1, <1>2, <1>3, <1>4, <1>5, <1>6, <1>7, <1>8, <1>9, <1>10 DEF RtcNext, RtcMain

THEOREM ClockInvariance == Spec => []ClockInv
<1>1. Init => ClockInv
  <2>1. 0 \in U32
    BY EraAssumption DEF U32
  <2>2. RtcInit => RtcTypeOK
    BY <2>1 DEF RtcInit, RtcTypeOK
  <2> QED BY <2>2 DEF Init, RtcInit, ClockInv
<1>2. ClockInv /\ [Next]_vars => ClockInv'
  BY ClockStep, DevicesStep
<1> QED BY <1>1, <1>2, PTL DEF Spec

\* What set_timestamp returns is how far the clock jumped (rtc.zig:65-84).
THEOREM DiffIsJumpHolds == Spec => []DiffIsJump
<1>1. ClockInv => DiffIsJump
  BY EraAssumption DEF ClockInv, RtcTypeOK, DiffIsJump, TimeDiff, Abs, AtLeastOne, U32
<1> QED BY <1>1, ClockInvariance, PTL
=============================================================================
