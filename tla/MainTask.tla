------------------------------ MODULE MainTask -----------------------------
(***************************************************************************)
(* The main thread of the firmware (src/main.zig): start-up, the event     *)
(* loop driven by thread flags, and the one-shot NTP timer, together with  *)
(* the network interface of Netif.  The exchange with the NTP server is    *)
(* abstracted to its outcome; NtpClient models it step by step.            *)
(*                                                                         *)
(* Threads and their priorities (higher runs first, preemptive):           *)
(*   40  RTX timer thread: runs ntp_trigger when the timer expires         *)
(*   32  lwIP's tcpip thread and the receive task: the callbacks of Netif  *)
(*   24  main thread                                                       *)
(* Nothing else runs between the tick that expires the timer and the end   *)
(* of its callback, so TimerExpire is one action; the other threads may    *)
(* run between any two actions of the main thread.  The main thread may    *)
(* also run between two callbacks of Netif, more than priorities allow.    *)
(***************************************************************************)
EXTENDS Netif, Naturals

CONSTANTS
  Diffs,   \* clock corrections a server reply can cause, in seconds
  Polls    \* poll intervals a server reply can ask for, in seconds

ASSUME DiffsAssumption == Diffs \subseteq Nat
ASSUME PollsAssumption == Polls \subseteq Nat \ {0}

VARIABLES
  pc,         \* where the main thread is
  timer,      \* ntpTimer: the ticks it was started with, 0 when not running
  syncCount,  \* ntpSyncCount
  dhcpUp,     \* mainState.dhcp_up
  last        \* history: the outcome of the last NTP exchange

mainVars == <<pc, timer, syncCount, dhcpUp, last>>
vars == <<flagVars, netifVars, mainVars>>

MainEvents == {"trigger_ntp", "ntp_aquired", "dhcp_up", "dhcp_down"}
AllFlags == MainEvents \cup {"tcpip_ready"}

ResyncPeriod == 900000    \* 15 * 60 * 1000
StartPeriod == 1000
RetryPeriod == 16000
MaxPeriod == 3600000      \* 60 * 60 * 1000

Init ==
  /\ FlagsInit
  /\ NetifInit
  /\ pc = "start"
  /\ timer = 0
  /\ syncCount = 0
  /\ dhcpUp = FALSE
  /\ last = "none"

-----------------------------------------------------------------------------
(* Start-up: runner() up to the event loop.                                *)

\* tcpip_init starts the tcpip thread.
TcpipInit ==
  /\ pc = "start"
  /\ pc' = "tcpip_init"
  /\ UNCHANGED <<flagVars, netifVars, timer, syncCount, dhcpUp, last>>

\* tcpip_init_done, called once, the first thing the tcpip thread does.
TcpipInitDone ==
  /\ pc \in {"tcpip_init", "netif_add"}
  /\ "tcpip_ready" \notin flags \cup got
  /\ FlagsSet({"tcpip_ready"})
  /\ UNCHANGED <<netifVars, mainVars>>

AwaitTcpip ==
  /\ pc = "tcpip_init"
  /\ pc' = "netif_add"
  /\ FlagsWait({"tcpip_ready"})
  /\ UNCHANGED <<netifVars, timer, syncCount, dhcpUp, last>>

\* netif_add, which probes the link, then set_callbacks, set_default, set_up.
NetifAdd ==
  /\ pc = "netif_add" /\ ~Blocked
  /\ pc' = "wait_linkup"
  /\ got' = {}
  /\ link' \in BOOLEAN
  /\ UNCHANGED <<flags, waitMask, dhcp, addr, dhcp_bound, chain, overlap,
                 timer, syncCount, dhcpUp, last>>

\* ethernetif_wait_linkup, retried every 5 s until it returns ERR_OK.
LinkIsUp ==
  /\ pc = "wait_linkup"
  /\ link
  /\ pc' = "dhcp_start"
  /\ UNCHANGED <<flagVars, netifVars, timer, syncCount, dhcpUp, last>>

DhcpStart ==
  /\ pc = "dhcp_start"
  /\ pc' = "loop"
  /\ dhcp' = "selecting"
  /\ UNCHANGED <<flagVars, link, addr, dhcp_bound, chain, overlap, timer,
                 syncCount, dhcpUp, last>>

-----------------------------------------------------------------------------
(* The event loop.  `got' is the local `flags' of the loop: the code tests *)
(* its bits in a fixed order, and a handler here removes the one it served.*)

EnterWait ==
  /\ pc = "loop"
  /\ pc' = "events"
  /\ FlagsWait(AllFlags)
  /\ UNCHANGED <<netifVars, timer, syncCount, dhcpUp, last>>

WaitTimeout ==
  /\ pc = "events"
  /\ FlagsTimeout
  /\ UNCHANGED <<netifVars, mainVars>>

\* All events of this wake-up are handled: round the loop.
EndOfBatch ==
  /\ pc = "events" /\ ~Blocked /\ got = {}
  /\ pc' = "loop"
  /\ UNCHANGED <<flagVars, netifVars, timer, syncCount, dhcpUp, last>>

\* Event e is the next one this wake-up handles: those the code tests before
\* it are not pending.
NextEvent(e, earlier) ==
  /\ pc = "events" /\ ~Blocked
  /\ e \in got
  /\ got \cap earlier = {}
  /\ got' = got \ {e}
  /\ UNCHANGED <<flags, waitMask>>

\* Fault: the handler forgets to restart the count.
OnAcquired_KeepsCount ==
  /\ NextEvent("ntp_aquired", {})
  /\ timer' = ResyncPeriod
  /\ dhcpUp' = TRUE
  /\ UNCHANGED <<netifVars, pc, syncCount, last>>

OnAcquired ==
  /\ NextEvent("ntp_aquired", {})
  /\ syncCount' = 0
  /\ timer' = ResyncPeriod
  /\ dhcpUp' = TRUE
  /\ UNCHANGED <<netifVars, pc, last>>

\* Fault: the trigger is tested before the announcement.
OnTrigger_First ==
  /\ NextEvent("trigger_ntp", {})
  /\ timer' = 0
  /\ pc' = "ntp"
  /\ UNCHANGED <<netifVars, syncCount, dhcpUp, last>>

\* process_ntp_trigger up to the call of getTimeFromServer: the result of
\* stop() is ignored.
OnTrigger ==
  /\ NextEvent("trigger_ntp", {"ntp_aquired"})
  /\ timer' = 0
  /\ pc' = "ntp"
  /\ UNCHANGED <<netifVars, syncCount, dhcpUp, last>>

OnDhcpUp ==
  /\ NextEvent("dhcp_up", {"ntp_aquired", "trigger_ntp"})
  /\ timer' = StartPeriod
  /\ dhcpUp' = TRUE
  /\ UNCHANGED <<netifVars, pc, syncCount, last>>

\* osTimerStop fails with osErrorResource on a timer that is not running, and
\* `catch unreachable' turns that into a panic.
OnDhcpDown ==
  /\ NextEvent("dhcp_down", {"ntp_aquired", "trigger_ntp", "dhcp_up"})
  /\ IF timer # 0
       THEN timer' = 0 /\ dhcpUp' = FALSE /\ UNCHANGED pc
       ELSE pc' = "panic" /\ UNCHANGED <<timer, dhcpUp>>
  /\ UNCHANGED <<netifVars, syncCount, last>>

-----------------------------------------------------------------------------
(* process_ntp_trigger after getTimeFromServer.                            *)

Outcome(diff) ==
  IF diff > 4 THEN "far" ELSE IF diff <= 2 THEN "good" ELSE "drift"

SyncCountAfter(diff) ==
  CASE Outcome(diff) = "far"   -> 0
    [] Outcome(diff) = "good"  -> syncCount + 1
    [] Outcome(diff) = "drift" -> syncCount

\* Fault: the server's interval is taken without a limit.
NextSyncTime_Unlimited(poll) == poll * 1000

NextSyncTime(poll) == IF poll > 3600 THEN MaxPeriod ELSE poll * 1000

\* A valid reply: correct the clock by diff, then either announce that time
\* is acquired or sync again after the server's poll interval.
NtpReply(diff, poll) ==
  /\ pc = "ntp"
  /\ pc' = "events"
  /\ syncCount' = SyncCountAfter(diff)
  /\ last' = Outcome(diff)
  /\ IF syncCount' >= 3
       THEN FlagsSet({"ntp_aquired"}) /\ UNCHANGED timer
       ELSE timer' = NextSyncTime(poll) /\ UNCHANGED flagVars
  /\ UNCHANGED <<netifVars, dhcpUp>>

\* Fault: no retry after an error.
NtpFailure_NoRetry ==
  /\ pc = "ntp"
  /\ pc' = "events"
  /\ syncCount' = 0
  /\ last' = "failed"
  /\ UNCHANGED <<flagVars, netifVars, timer, dhcpUp>>

\* getTimeFromServer returns an error.
NtpFailure ==
  /\ pc = "ntp"
  /\ pc' = "events"
  /\ syncCount' = 0
  /\ last' = "failed"
  /\ timer' = RetryPeriod
  /\ UNCHANGED <<flagVars, netifVars, dhcpUp>>

NtpReturn ==
  \/ \E diff \in Diffs, poll \in Polls : NtpReply(diff, poll)
  \/ NtpFailure

-----------------------------------------------------------------------------
\* Fault: the callback of the timer sets no flag.
TimerExpire_Silent ==
  /\ timer # 0
  /\ timer' = 0
  /\ UNCHANGED <<flagVars, netifVars, pc, syncCount, dhcpUp, last>>

\* The tick handler stops the one-shot timer and the timer thread calls
\* ntp_trigger.
TimerExpire ==
  /\ timer # 0
  /\ timer' = 0
  /\ FlagsSet({"trigger_ntp"})
  /\ UNCHANGED <<netifVars, pc, syncCount, dhcpUp, last>>

\* The network threads change the interface once netif_add registered it.
NetifEvent ==
  /\ pc \notin {"start", "tcpip_init", "netif_add"}
  /\ NetifNext
  /\ UNCHANGED mainVars

MainStep ==
  \/ TcpipInit \/ AwaitTcpip \/ NetifAdd \/ LinkIsUp \/ DhcpStart
  \/ EnterWait \/ EndOfBatch
  \/ OnAcquired \/ OnTrigger \/ OnDhcpUp \/ OnDhcpDown

\* A panic ends in a trap: no thread runs after it.
Next ==
  /\ pc # "panic"
  /\ MainStep \/ TcpipInitDone \/ WaitTimeout \/ NtpReturn \/ TimerExpire
       \/ NetifEvent

Spec == Init /\ [][Next]_vars

\* The scheduler runs a ready main thread and the network threads eventually,
\* a wait times out, and a running timer expires unless an address change
\* restarts it.  Nothing is promised about the network: links, leases and
\* replies.
Fairness ==
  /\ WF_vars(pc # "panic" /\ MainStep)
  /\ WF_vars(TcpipInitDone)
  /\ \A t \in Threads : WF_vars(pc # "panic" /\ Callback(t) /\ UNCHANGED mainVars)
  /\ WF_vars(WaitTimeout)
  /\ WF_vars(pc # "panic" /\ (TimerExpire \/ OnDhcpUp))

FairSpec == Spec /\ Fairness

\* In addition every NTP exchange returns, with a reply or with an error.
AnsweredSpec == FairSpec /\ WF_vars(NtpReturn)
=============================================================================
