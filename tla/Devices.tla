------------------------------ MODULE Devices ------------------------------
(***************************************************************************)
(* The serial line and the clock together: the main thread writes between  *)
(* its calls of the clock, other threads whenever they like, and the two   *)
(* interrupts, of one priority, fall between any two steps.                *)
(***************************************************************************)
EXTENDS Uart, Rtc

vars == <<uartVars, rtcVars>>

Init == UartInit /\ RtcInit

Thread == "main"

Next ==
  \/ UartNext /\ at # "boot" /\ (place'[Thread] # "idle" => at = "idle") /\ UNCHANGED rtcVars
  \/ RtcMain /\ place[Thread] = "idle" /\ UNCHANGED uartVars
  \/ (Second \/ handle_isr) /\ UNCHANGED uartVars

\* Threads run, bytes leave and interrupts are served.
Spec ==
  /\ Init /\ [][Next]_vars
  /\ UartFairness
=============================================================================
