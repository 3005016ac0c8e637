--------------------------- MODULE MainTaskProps ---------------------------
(***************************************************************************)
(* What the main thread promises: safety, action and liveness properties   *)
(* of MainTask.                                                            *)
(***************************************************************************)
EXTENDS MainTask

PCs == {"start", "tcpip_init", "netif_add", "wait_linkup", "dhcp_start",
        "loop", "events", "ntp", "panic"}

Outcomes == {"none", "good", "drift", "far", "failed"}

\* The type invariant.  A running timer was never armed with more than an
\* hour or less than a second, whatever poll interval the server asks for.
TypeOK ==
  /\ flags \subseteq AllFlags
  /\ waitMask \subseteq AllFlags
  /\ got \subseteq AllFlags
  /\ link \in BOOLEAN
  /\ dhcp \in DhcpStates
  /\ addr \in Addrs \cup {NoAddr}
  /\ dhcp_bound \in BOOLEAN
  /\ chain \in [Threads -> Callbacks]
  /\ overlap \in BOOLEAN
  /\ pc \in PCs
  /\ timer \in Nat
  /\ timer # 0 => StartPeriod <= timer /\ timer <= MaxPeriod
  /\ syncCount \in 0..3
  /\ dhcpUp \in BOOLEAN
  /\ last \in Outcomes

\* While the main thread believes that DHCP is up, the chain of NTP queries
\* never dies: the timer runs, an exchange is under way, or an event that
\* restarts the timer (or ends the belief) waits to be handled.  Every handler
\* of main.zig:191-220 re-arms what it consumed, on every path.
Heartbeat ==
  dhcpUp =>
    \/ timer # 0
    \/ pc = "ntp"
    \/ {"trigger_ntp", "ntp_aquired"} \cap flags # {}
    \/ MainEvents \cap got # {}
    \/ pc = "panic"

\* Time is announced as acquired (main.zig:258, handled at 192) on the third
\* good exchange in a row and never counted further: a count of three exists
\* only while the announcement is pending, because the event loop handles it
\* before the next trigger.
CountsToThree ==
  /\ syncCount <= 3
  /\ (syncCount = 3 <=> "ntp_aquired" \in flags \cup got)

\* When the announcement is handled, the last exchange with the server was a
\* good one: no failed or far exchange slips in between (main.zig:192-207).
AnnounceIsFresh == "ntp_aquired" \in flags \cup got => last = "good"

\* dhcp_bound does not outlive the address: without one it is true at most
\* until the status callback of the loss has written, whichever thread lost
\* the address and however often the link went down and up in between.  Only
\* a change that falls into the callbacks of the other thread can leave it
\* wrong (ethernet.zig:102-134).
BoundFlagSound ==
  dhcp_bound /\ ~overlap =>
    \/ addr # NoAddr
    \/ \E t \in Threads : chain[t] \in {"status", "unleased"}

-----------------------------------------------------------------------------
\* While the main thread believes that DHCP is up, it queries the server
\* again and again, unless address changes keep restarting the timer: the
\* liveness side of Heartbeat (main.zig:191-214).
QueriesForever ==
  \/ []<>(pc = "ntp")
  \/ []<>(~dhcpUp \/ pc = "panic" \/ "dhcp_up" \in got)

\* Every event the main thread is told of is consumed by it (main.zig:185).
EventsConsumed ==
  \A e \in MainEvents : e \in flags ~> (e \notin flags \/ pc = "panic")

\* Every change of the address brings the main thread an event about it, as
\* long as exchanges return (ethernet.zig:130-153, main.zig:93-99, 209-220).
AddrChangesHandled ==
  \A t \in Threads :
    chain[t] = "status" ~>
      \/ pc = "events" /\ {"dhcp_up", "dhcp_down"} \cap got # {}
      \/ pc = "panic"

-----------------------------------------------------------------------------
(* What the code and its comments say and the code does not do.            *)

\* main.zig:197, 206, 212, 218: `catch unreachable' asserts that starting and
\* stopping the NTP timer cannot fail.
NoPanic == pc # "panic"

\* main.zig:209 "DHCP is up", main.zig:216 "DHCP is down": at rest, when every
\* event is handled and no callback is under way, mainState.dhcp_up says whether
\* the interface has an address.  Asked only where the interface itself has it
\* right, so that it is the event loop that gets it wrong: dhcp_bound agrees with
\* the address, whose last change did not fall into another's callbacks.
DhcpViewAgrees ==
  /\ pc = "events" /\ Blocked /\ flags = {}
  /\ \A t \in Threads : chain[t] = "none"
  /\ ~overlap /\ (dhcp_bound <=> addr # NoAddr)
  => (dhcpUp <=> addr # NoAddr)
=============================================================================
