-------------------------------- MODULE Rtc --------------------------------
(***************************************************************************)
(* The clock (board/frdmmcxe247/src/rtc.zig): the seconds counter of the   *)
(* RTC, its interrupt, and the main thread that asks a server for the time *)
(* and sets the counter (main.zig:234-250).                                *)
(*                                                                         *)
(* Times are 32-bit numbers: NTP counts from 1900, Unix from 1970.  Both   *)
(* conversions are checked casts: out of range, they panic.  The counter   *)
(* takes a value only while it is stopped.                                 *)
(***************************************************************************)
EXTENDS Integers

CONSTANTS
  Era,      \* 2^32, the seconds of an NTP era
  Zos,      \* -epoch.zos: the seconds from 1900 to 1970
  LastTime  \* bound: the counter is followed up to this time

ASSUME EraAssumption == Era \in Nat /\ Zos \in 1..(Era - 1)
ASSUME LastTimeAssumption == LastTime \in 1..(Era - 1)

VARIABLES
  tsr,      \* the seconds counter
  running,  \* the counter is enabled
  tick,     \* the seconds interrupt is pending
  val,      \* the copy the interrupt makes; nobody reads it
  at,       \* where the main thread is
  wanted,   \* the argument of set_timestamp
  prev,     \* prev_val
  jump      \* history: how far the counter was moved by the last write

rtcVars == <<tsr, running, tick, val, at, wanted, prev, jump>>

Abs(n) == IF n < 0 THEN -n ELSE n
U32 == 0..(Era - 1)

\* 0 in the counter means that its time is invalid.
AtLeastOne(t) == IF t # 0 THEN t ELSE 1

RtcInit ==
  /\ tsr = 0
  /\ running = FALSE
  /\ tick = FALSE
  /\ val = 0
  /\ at = "boot"
  /\ wanted = 0
  /\ prev = 0
  /\ jump = 0

ntp_to_unix(n) == n - Zos

unix_to_ntp(u) == u + Zos

Step(from, to) == at = from /\ at' = to

\* start, with initial_time_stamp 0
Start ==
  /\ Step("boot", "idle")
  /\ tsr' = AtLeastOne(0) /\ running' = TRUE
  /\ UNCHANGED <<tick, val, wanted, prev, jump>>

\* The originate timestamp of a request.
Request ==
  /\ Step("idle", IF unix_to_ntp(tsr) \in U32 THEN "exchange" ELSE "panic")
  /\ UNCHANGED <<tsr, running, tick, val, wanted, prev, jump>>

\* The server's time, or a failure.
Answer ==
  /\ \/ \E n \in U32 :
          /\ Step("exchange", IF ntp_to_unix(n) \in U32 THEN "stop" ELSE "panic")
          /\ wanted' = IF ntp_to_unix(n) \in U32 THEN ntp_to_unix(n) ELSE wanted
     \/ Step("exchange", "idle") /\ UNCHANGED wanted
  /\ UNCHANGED <<tsr, running, tick, val, prev, jump>>

StopTimer ==
  /\ Step("stop", "read")
  /\ running' = FALSE
  /\ UNCHANGED <<tsr, tick, val, wanted, prev, jump>>

\* Fault: the copy of the interrupt is taken for the counter.
ReadPrev_Copy ==
  /\ Step("read", "write")
  /\ prev' = val
  /\ UNCHANGED <<tsr, running, tick, val, wanted, jump>>

ReadPrev ==
  /\ Step("read", "write")
  /\ prev' = tsr
  /\ UNCHANGED <<tsr, running, tick, val, wanted, jump>>

\* The hardware ignores a write to a counter that runs.
WriteTsr ==
  /\ Step("write", "start")
  /\ tsr' = IF running THEN tsr ELSE AtLeastOne(wanted)
  /\ jump' = Abs(tsr' - tsr)
  /\ UNCHANGED <<running, tick, val, wanted, prev>>

\* The end of set_timestamp, and of its locals.
StartTimer ==
  /\ Step("start", "idle")
  /\ running' = TRUE
  /\ wanted' = 0 /\ prev' = 0 /\ jump' = 0
  /\ UNCHANGED <<tsr, tick, val>>

Second ==
  /\ running /\ tsr < LastTime
  /\ tsr' = tsr + 1
  /\ tick' = TRUE
  /\ UNCHANGED <<running, val, at, wanted, prev, jump>>

\* handle_isr, between any two steps of the thread.
handle_isr ==
  /\ tick
  /\ val' = tsr
  /\ tick' = FALSE
  /\ UNCHANGED <<tsr, running, at, wanted, prev, jump>>

RtcMain ==
  Start \/ Request \/ Answer \/ StopTimer \/ ReadPrev \/ WriteTsr \/ StartTimer

RtcNext == RtcMain \/ Second \/ handle_isr

RtcSpec == RtcInit /\ [][RtcNext]_rtcVars

-----------------------------------------------------------------------------
(* Properties.                                                             *)

\* What set_timestamp returns.
TimeDiff == Abs(wanted - prev)

\* The types; from start on the counter holds a valid time, and is enabled but in set_timestamp.
RtcTypeOK ==
  /\ {tsr, val, wanted, prev, jump} \subseteq U32
  /\ running \in BOOLEAN /\ tick \in BOOLEAN
  /\ at \in {"boot", "idle", "exchange", "stop", "read", "write", "start", "panic"}
  /\ at # "boot" => tsr # 0
  /\ running <=> at \notin {"boot", "read", "write", "start"}

\* The difference by which the main thread judges an exchange is how far the clock
\* really jumped, whatever seconds and interrupts fall between the steps of
\* set_timestamp; a second of error is left for the time 0, which becomes 1.
DiffIsJump == at = "start" => Abs(TimeDiff - jump) <= (IF wanted = 0 THEN 1 ELSE 0)
=============================================================================
