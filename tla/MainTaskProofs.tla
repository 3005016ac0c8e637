--------------------------- MODULE MainTaskProofs --------------------------
(***************************************************************************)
(* Proofs that the properties of MainTaskProps hold for every set of       *)
(* addresses, corrections and poll intervals.                              *)
(***************************************************************************)
EXTENDS MainTaskProps, TLAPS

Starting == {"start", "tcpip_init", "netif_add", "wait_linkup", "dhcp_start"}

\* Where the thread is decides what its flags, its wait and its timer can be:
\* it blocks only in its two waits, a blocked thread has nothing pending that
\* it waits for, and no timer runs and no announcement is pending while it
\* exchanges datagrams with the server.
Control ==
  /\ Blocked => pc \in {"netif_add", "events"} /\ got = {}
  /\ pc = "events" /\ Blocked => waitMask = AllFlags /\ flags = {}
  /\ pc = "loop" => got = {}
  /\ pc \in Starting =>
       /\ timer = 0 /\ ~dhcpUp /\ syncCount = 0
       /\ {"trigger_ntp", "ntp_aquired"} \cap (flags \cup got) = {}
       /\ dhcp = "off"
  /\ pc \in Starting \ {"netif_add"} => got = {}
  /\ pc = "ntp" =>
       timer = 0 /\ {"trigger_ntp", "ntp_aquired"} \cap got = {}
                 /\ "ntp_aquired" \notin flags
  /\ "ntp_aquired" \in flags =>
       {"trigger_ntp", "ntp_aquired"} \cap got = {}

\* A lease is the lease of an address.
LeaseHasAddress == dhcp = "bound" => addr # NoAddr

\* A callback that read a lease has it still, unless the other thread came
\* between.
ReadSound ==
  ~overlap /\ addr = NoAddr => \A t \in Threads : chain[t] # "leased"

\* The inductive invariant.
IInv ==
  /\ TypeOK
  /\ Control
  /\ Heartbeat
  /\ CountsToThree
  /\ AnnounceIsFresh
  /\ LeaseHasAddress
  /\ ReadSound
  /\ BoundFlagSound

-----------------------------------------------------------------------------
(* The periods of the timer.                                               *)

\* Each period main.zig arms the timer with is at least a second and at most
\* an hour; in particular none is zero, which osTimerStart would refuse.
LEMMA Periods ==
  \A p \in {StartPeriod, RetryPeriod, ResyncPeriod, MaxPeriod} :
    p \in Nat /\ p # 0 /\ StartPeriod <= p /\ p <= MaxPeriod
BY SMT DEF StartPeriod, RetryPeriod, ResyncPeriod, MaxPeriod

\* So is the one it computes from the server's poll interval.
LEMMA NextSyncTimePeriod ==
  ASSUME NEW poll \in Polls
  PROVE  /\ NextSyncTime(poll) \in Nat /\ NextSyncTime(poll) # 0
         /\ StartPeriod <= NextSyncTime(poll) /\ NextSyncTime(poll) <= MaxPeriod
BY PollsAssumption, SMT DEF NextSyncTime, StartPeriod, MaxPeriod

-----------------------------------------------------------------------------
(* The thread flags.                                                       *)

\* Setting flags loses none and invents none, and leaves a thread blocked only
\* if it waits for none of them.
LEMMA FlagsSetKeeps ==
  ASSUME NEW fs \in SUBSET AllFlags, TypeOK, Blocked => got = {},
         FlagsSet(fs)
  PROVE  /\ flags' \subseteq AllFlags
         /\ waitMask' \subseteq AllFlags
         /\ got' \subseteq AllFlags
         /\ flags' \cup got' = flags \cup got \cup fs
         /\ Blocked' => /\ Blocked /\ waitMask' = waitMask /\ got' = got
                        /\ flags' = flags \cup fs
                        /\ flags' \cap waitMask = {}
         /\ ~Blocked => /\ ~Blocked' /\ got' = got /\ flags' = flags \cup fs
         /\ got' # got => Blocked /\ ~Blocked'
BY DEF FlagsSet, Blocked, TypeOK

\* A wait moves flags from pending to returned, or blocks with nothing to
\* return.
LEMMA FlagsWaitKeeps ==
  ASSUME NEW mask \in SUBSET AllFlags, TypeOK, got = {}, FlagsWait(mask)
  PROVE  /\ flags' \subseteq AllFlags
         /\ waitMask' \subseteq AllFlags
         /\ got' \subseteq AllFlags
         /\ flags' \cup got' = flags \cup got
         /\ Blocked' => got' = {} /\ waitMask' = mask /\ flags' \cap mask = {}
BY DEF FlagsWait, Blocked, TypeOK

-----------------------------------------------------------------------------
(* The initial states.                                                     *)

LEMMA InitIInv == Init => IInv
<1> SUFFICES ASSUME Init PROVE IInv
  OBVIOUS
<1> USE DEF Init, FlagsInit, NetifInit
<1>1. TypeOK
  <2>1. dhcp \in DhcpStates /\ addr \in Addrs \cup {NoAddr}
    BY DEF DhcpStates
  <2>4. chain \in [Threads -> Callbacks]
    BY DEF Callbacks
  <2>2. /\ link \in BOOLEAN /\ dhcp_bound \in BOOLEAN
        /\ overlap \in BOOLEAN /\ dhcpUp \in BOOLEAN
    OBVIOUS
  <2>3. pc \in PCs /\ last \in Outcomes /\ timer = 0 /\ syncCount = 0
    BY DEF PCs, Outcomes
  <2>. QED BY <2>1, <2>2, <2>3, <2>4 DEF TypeOK
<1>2. Control
  BY DEF Control, Blocked, Starting
<1>3. /\ Heartbeat /\ CountsToThree /\ AnnounceIsFresh
      /\ LeaseHasAddress /\ ReadSound /\ BoundFlagSound
  BY DEF Heartbeat, CountsToThree, AnnounceIsFresh, LeaseHasAddress,
     ReadSound, BoundFlagSound
<1>. QED BY <1>1, <1>2, <1>3 DEF IInv

-----------------------------------------------------------------------------
(* Type correctness.                                                       *)

\* What a callback of the interface changes: itself, dhcp_bound, and at most
\* one of the two flags of the main thread.
LEMMA CallbackEffect ==
  ASSUME TypeOK, NEW t \in Threads, Callback(t)
  PROVE  /\ UNCHANGED <<link, dhcp, addr, overlap>>
         /\ chain' \in [Threads -> Callbacks]
         /\ dhcp_bound' \in BOOLEAN
         /\ \/ UNCHANGED flagVars
            \/ \E e \in {"dhcp_up", "dhcp_down"} : FlagsSet({e})
<1>1. CASE StatusCallbackReads(t)
  BY <1>1 DEF StatusCallbackReads, CallNext, Callbacks, TypeOK
<1>2. CASE StatusCallbackWrites(t)
  <2>1. dhcp_bound' \in BOOLEAN
    BY <1>2 DEF StatusCallbackWrites
  <2>. QED
    BY <1>2, <2>1 DEF StatusCallbackWrites, CallNext, Callbacks, TypeOK
<1>3. CASE ExtCallbackReads(t)
  BY <1>3 DEF ExtCallbackReads, CallNext, Callbacks, TypeOK
<1>4. CASE DhcpUpDown(t)
  <2>1. PICK e \in {"dhcp_up", "dhcp_down"} : FlagsSet({e})
    BY <1>4 DEF DhcpUpDown
  <2>2. chain' \in [Threads -> Callbacks]
    BY <1>4 DEF DhcpUpDown, CallNext, Callbacks, TypeOK
  <2>3. UNCHANGED <<link, dhcp, addr, overlap, dhcp_bound>>
    BY <1>4 DEF DhcpUpDown, CallNext
  <2>. QED BY <2>1, <2>2, <2>3 DEF TypeOK
<1>. QED BY <1>1, <1>2, <1>3, <1>4 DEF Callback

LEMMA TypeStep == IInv /\ [Next]_vars => TypeOK'
<1> SUFFICES ASSUME IInv, [Next]_vars PROVE TypeOK'
  OBVIOUS
<1> USE DEF IInv
<1>q. Blocked => got = {}
  BY DEF Control
<1>1. CASE TcpipInit
  BY <1>1 DEF TcpipInit, TypeOK, flagVars, netifVars, PCs
<1>2. CASE TcpipInitDone
  <2>1. {"tcpip_ready"} \in SUBSET AllFlags
    BY DEF AllFlags
  <2>. QED
    BY <1>2, <1>q, <2>1, FlagsSetKeeps DEF TcpipInitDone, TypeOK, netifVars,
       mainVars
<1>3. CASE AwaitTcpip
  <2>1. {"tcpip_ready"} \in SUBSET AllFlags /\ got = {}
    BY <1>3 DEF AllFlags, AwaitTcpip, Control, Starting
  <2>. QED
    BY <1>3, <2>1, FlagsWaitKeeps DEF AwaitTcpip, TypeOK, netifVars, PCs
<1>4. CASE NetifAdd \/ LinkIsUp \/ EndOfBatch
  BY <1>4 DEF NetifAdd, LinkIsUp, EndOfBatch, TypeOK, flagVars, netifVars, PCs
<1>5. CASE DhcpStart
  BY <1>5 DEF DhcpStart, TypeOK, flagVars, PCs, DhcpStates
<1>6. CASE EnterWait
  <2>1. AllFlags \in SUBSET AllFlags /\ got = {}
    BY <1>6 DEF EnterWait, Control
  <2>. QED
    BY <1>6, <2>1, FlagsWaitKeeps DEF EnterWait, TypeOK, netifVars, PCs
<1>7. CASE WaitTimeout
  BY <1>7 DEF WaitTimeout, FlagsTimeout, TypeOK, netifVars, mainVars
<1>8. CASE OnAcquired \/ OnTrigger \/ OnDhcpUp \/ OnDhcpDown
  <2>1. CASE OnAcquired
    BY <2>1, Periods DEF OnAcquired, NextEvent, TypeOK, netifVars
  <2>2. CASE OnTrigger
    BY <2>2 DEF OnTrigger, NextEvent, TypeOK, netifVars, PCs
  <2>3. CASE OnDhcpUp
    BY <2>3, Periods DEF OnDhcpUp, NextEvent, TypeOK, netifVars
  <2>4. CASE OnDhcpDown
    <3>1. timer' \in {0, timer} /\ pc' \in PCs
      BY <2>4 DEF OnDhcpDown, TypeOK, PCs
    <3>3. dhcpUp' \in BOOLEAN
      BY <2>4 DEF OnDhcpDown, TypeOK
    <3>2. flags' = flags /\ waitMask' = waitMask /\ got' \subseteq got
      BY <2>4 DEF OnDhcpDown, NextEvent
    <3>. QED
      BY <2>4, <3>1, <3>2, <3>3 DEF OnDhcpDown, TypeOK, netifVars
  <2>. QED BY <1>8, <2>1, <2>2, <2>3, <2>4
<1>9. CASE NtpReturn
  <2>1. ASSUME NEW diff \in Diffs, NEW poll \in Polls, NtpReply(diff, poll)
        PROVE  TypeOK'
    <3>1. syncCount' \in 0..3 /\ last' \in Outcomes
      <4>1. syncCount \in 0..2
        <5>1. pc = "ntp"
          BY <2>1 DEF NtpReply
        <5>2. syncCount # 3
          BY <5>1 DEF Control, CountsToThree
        <5>. QED BY <5>2 DEF TypeOK
      <4>2. Outcome(diff) \in {"good", "drift", "far"}
        BY DEF Outcome
      <4>3. SyncCountAfter(diff) \in {0, syncCount, syncCount + 1}
        BY <4>2 DEF SyncCountAfter
      <4>4. syncCount' = SyncCountAfter(diff) /\ last' = Outcome(diff)
        BY <2>1 DEF NtpReply
      <4>. QED
        BY <4>1, <4>2, <4>3, <4>4 DEF Outcomes
    <3>2. CASE syncCount' >= 3
      <4>1. {"ntp_aquired"} \in SUBSET AllFlags
        BY DEF AllFlags, MainEvents
      <4>. QED
        <5>1. FlagsSet({"ntp_aquired"}) /\ timer' = timer /\ pc' = "events"
          BY <2>1, <3>2 DEF NtpReply
        <5>2. dhcpUp' = dhcpUp /\ UNCHANGED netifVars
          BY <2>1 DEF NtpReply
        <5>. QED
          BY <3>1, <4>1, <5>1, <5>2, <1>q, FlagsSetKeeps
             DEF TypeOK, netifVars, PCs
    <3>3. CASE ~(syncCount' >= 3)
      <4>1. /\ timer' = NextSyncTime(poll) /\ pc' = "events"
            /\ UNCHANGED flagVars
        BY <2>1, <3>3 DEF NtpReply
      <4>2. dhcpUp' = dhcpUp /\ UNCHANGED netifVars
        BY <2>1 DEF NtpReply
      <4>. QED
        BY <3>1, <4>1, <4>2, NextSyncTimePeriod
           DEF TypeOK, flagVars, netifVars, PCs
    <3>. QED BY <3>2, <3>3
  <2>2. CASE NtpFailure
    BY <2>2, Periods DEF NtpFailure, TypeOK, flagVars, netifVars, PCs,
       Outcomes
  <2>. QED BY <1>9, <2>1, <2>2 DEF NtpReturn
<1>10. CASE TimerExpire
  <2>1. {"trigger_ntp"} \in SUBSET AllFlags
    BY DEF AllFlags, MainEvents
  <2>. QED
    BY <1>10, <1>q, <2>1, FlagsSetKeeps DEF TimerExpire, TypeOK, netifVars
<1>11. CASE NetifEvent
  <2>1. ASSUME NEW t \in Threads, Callback(t)
        PROVE  TypeOK'
    <3>1. CASE UNCHANGED flagVars
      BY <1>11, <2>1, <3>1, CallbackEffect DEF NetifEvent, TypeOK, mainVars,
         flagVars
    <3>2. ASSUME NEW e \in {"dhcp_up", "dhcp_down"}, FlagsSet({e})
          PROVE  TypeOK'
      <4>1. {e} \in SUBSET AllFlags
        BY DEF AllFlags, MainEvents
      <4>. QED
        BY <1>11, <1>q, <2>1, <3>2, <4>1, CallbackEffect, FlagsSetKeeps
           DEF NetifEvent, TypeOK, mainVars
    <3>. QED BY <2>1, <3>1, <3>2, CallbackEffect
  <2>2. ASSUME NEW t \in Threads, NEW a \in Addrs \cup {NoAddr}, SetAddr(t, a)
        PROVE  /\ addr' \in Addrs \cup {NoAddr}
               /\ chain' \in [Threads -> Callbacks]
               /\ overlap' \in BOOLEAN
    BY <2>2 DEF SetAddr, Callbacks, TypeOK
  <2>3. CASE \E a \in Addrs : DhcpBind(a)
    BY <1>11, <2>2, <2>3 DEF DhcpBind, NetifEvent, DhcpStates, Threads, TypeOK,
       mainVars, flagVars
  <2>4. CASE \E t \in Threads : DhcpLose(t)
    BY <1>11, <2>2, <2>4 DEF DhcpLose, NetifEvent, DhcpStates, TypeOK,
       mainVars, flagVars
  <2>5. CASE DhcpRebootTimeout \/ LinkUp \/ LinkDown
    BY <1>11, <2>5 DEF DhcpRebootTimeout, LinkUp, LinkDown, NetifEvent, TypeOK,
       mainVars, flagVars, DhcpStates
  <2>. QED
    BY <1>11, <2>1, <2>3, <2>4, <2>5 DEF NetifEvent, NetifNext
<1>12. CASE UNCHANGED vars
  BY <1>12 DEF vars, flagVars, netifVars, mainVars, TypeOK
<1>. QED
  BY <1>1, <1>2, <1>3, <1>4, <1>5, <1>6, <1>7, <1>8, <1>9, <1>10, <1>11, <1>12
     DEF Next, MainStep

-----------------------------------------------------------------------------
(* Steps of the other threads.                                             *)

\* What a step of the timer or a network thread does to the main thread: it
\* sets some flags, and only the expiry of the timer sets trigger_ntp.
Signal(fs) ==
  /\ fs \subseteq AllFlags
  /\ "ntp_aquired" \notin fs
  /\ FlagsSet(fs)
  /\ UNCHANGED <<pc, syncCount, dhcpUp, last>>
  /\ IF "trigger_ntp" \in fs THEN timer # 0 /\ timer' = 0 ELSE timer' = timer

LEMMA SignalSteps ==
  ASSUME TypeOK, TcpipInitDone \/ TimerExpire \/ NetifEvent
  PROVE  (\E fs : Signal(fs)) \/ UNCHANGED <<flagVars, mainVars>>
<1>1. CASE TcpipInitDone
  <2>1. Signal({"tcpip_ready"})
    BY <1>1 DEF TcpipInitDone, Signal, AllFlags, mainVars
  <2>. QED BY <2>1
<1>2. CASE TimerExpire
  <2>1. Signal({"trigger_ntp"})
    BY <1>2 DEF TimerExpire, Signal, AllFlags, MainEvents
  <2>. QED BY <2>1
<1>3. CASE NetifEvent
  <2>1. ASSUME NEW e \in {"dhcp_up", "dhcp_down"}, FlagsSet({e})
        PROVE  \E fs : Signal(fs)
    <3>1. Signal({e})
      BY <1>3, <2>1 DEF NetifEvent, Signal, AllFlags, MainEvents, mainVars
    <3>. QED BY <3>1
  <2>2. CASE UNCHANGED flagVars
    BY <1>3, <2>2 DEF NetifEvent
  <2>. QED
    BY <1>3, <2>1, <2>2, CallbackEffect DEF NetifEvent, NetifNext, DhcpBind,
       DhcpLose, DhcpRebootTimeout, LinkUp, LinkDown
<1>. QED BY <1>1, <1>2, <1>3

LEMMA SignalKeeps ==
  ASSUME IInv, NEW fs, Signal(fs), dhcp' = dhcp \/ pc \notin Starting
  PROVE  Control' /\ Heartbeat' /\ CountsToThree' /\ AnnounceIsFresh'
<1> USE DEF IInv
<1>1. /\ fs \in SUBSET AllFlags /\ "ntp_aquired" \notin fs
      /\ FlagsSet(fs) /\ pc' = pc /\ syncCount' = syncCount /\ last' = last
      /\ "trigger_ntp" \in fs => timer # 0 /\ timer' = 0
      /\ "trigger_ntp" \notin fs => timer' = timer
  BY DEF Signal
<1>2. dhcpUp' = dhcpUp
  BY DEF Signal
<1>3. Blocked => got = {}
  BY DEF Control
<1>4. /\ flags' \cup got' = flags \cup got \cup fs
      /\ flags' \subseteq AllFlags
      /\ Blocked' => /\ Blocked /\ waitMask' = waitMask /\ got' = got
                     /\ flags' \cap waitMask = {}
      /\ ~Blocked => ~Blocked' /\ got' = got /\ flags' = flags \cup fs
      /\ got' # got => Blocked
  BY <1>1, <1>3, FlagsSetKeeps
<1>5. Control'
  <2>1. Blocked' => pc' \in {"netif_add", "events"} /\ got' = {}
    BY <1>1, <1>4 DEF Control
  <2>2. pc' = "events" /\ Blocked' => waitMask' = AllFlags /\ flags' = {}
    BY <1>1, <1>4 DEF Control
  <2>3. /\ pc' = "loop" => got' = {}
        /\ pc' \in Starting \ {"netif_add"} => got' = {}
    BY <1>1, <1>4 DEF Control, Starting
  <2>4. pc' \in Starting =>
          /\ timer' = 0 /\ syncCount' = 0 /\ dhcp' = "off"
          /\ {"trigger_ntp", "ntp_aquired"} \cap (flags' \cup got') = {}
    BY <1>1, <1>4 DEF Control
  <2>5. pc' \in Starting => ~dhcpUp'
    BY <1>1, <1>2 DEF Control
  <2>6. pc' = "ntp" =>
          timer' = 0 /\ {"trigger_ntp", "ntp_aquired"} \cap got' = {}
                     /\ "ntp_aquired" \notin flags'
    BY <1>1, <1>4 DEF Control
  <2>7. "ntp_aquired" \in flags' =>
          {"trigger_ntp", "ntp_aquired"} \cap got' = {}
    <3>1. CASE Blocked
      <4>1. got = {} /\ "ntp_aquired" \notin flags
        BY <1>1, <3>1 DEF Control, Starting
      <4>2. "ntp_aquired" \notin flags'
        BY <1>1, <1>4, <4>1
      <4>. QED BY <4>2
    <3>2. CASE ~Blocked
      <4>1. got' = got /\ ("ntp_aquired" \in flags' => "ntp_aquired" \in flags)
        BY <1>1, <1>4, <3>2
      <4>. QED BY <4>1 DEF Control
    <3>. QED BY <3>1, <3>2
  <2>. QED
    BY <2>1, <2>2, <2>3, <2>4, <2>5, <2>6, <2>7 DEF Control
<1>6. Heartbeat'
  <2>1. SUFFICES ASSUME dhcpUp PROVE Heartbeat'
    BY <1>2 DEF Heartbeat
  <2>2. CASE "trigger_ntp" \in fs
    BY <1>4, <2>2 DEF Heartbeat, MainEvents
  <2>3. CASE "trigger_ntp" \notin fs
    <3>1. CASE timer # 0 \/ pc = "ntp" \/ pc = "panic"
      BY <1>1, <2>3, <3>1 DEF Heartbeat
    <3>2. CASE {"trigger_ntp", "ntp_aquired"} \cap flags # {}
      BY <1>4, <3>2 DEF Heartbeat, MainEvents
    <3>3. CASE MainEvents \cap got # {}
      BY <1>3, <1>4, <3>3 DEF Heartbeat
    <3>. QED BY <2>1, <3>1, <3>2, <3>3 DEF Heartbeat
  <2>. QED BY <2>2, <2>3
<1>7. CountsToThree' /\ AnnounceIsFresh'
  BY <1>1, <1>4 DEF CountsToThree, AnnounceIsFresh
<1>. QED BY <1>5, <1>6, <1>7

-----------------------------------------------------------------------------
(* Steps of the main thread.                                               *)

\* Start-up leaves the flags of the event loop and its state alone.
LEMMA StartKeeps ==
  ASSUME IInv, TcpipInit \/ AwaitTcpip \/ NetifAdd \/ LinkIsUp \/ DhcpStart
  PROVE  Control' /\ Heartbeat' /\ CountsToThree' /\ AnnounceIsFresh'
<1> USE DEF IInv
<1>1. /\ pc \in Starting /\ pc' \in Starting \cup {"loop"}
      /\ timer' = timer /\ syncCount' = syncCount
      /\ pc' \in Starting => dhcp' = dhcp
  BY DEF TcpipInit, AwaitTcpip, NetifAdd, LinkIsUp, DhcpStart, Starting,
     netifVars
<1>2. dhcpUp' = dhcpUp
  BY DEF TcpipInit, AwaitTcpip, NetifAdd, LinkIsUp, DhcpStart
<1>3. /\ timer = 0 /\ syncCount = 0 /\ dhcp = "off"
      /\ {"trigger_ntp", "ntp_aquired"} \cap (flags \cup got) = {}
  BY <1>1 DEF Control
<1>4. ~dhcpUp'
  BY <1>1, <1>2 DEF Control
<1>5. /\ flags' \cup got' \subseteq flags \cup got
      /\ Blocked' => pc' = "netif_add" /\ got' = {}
      /\ pc' # "netif_add" => got' = {}
  <2>1. CASE AwaitTcpip
    <3>1. {"tcpip_ready"} \in SUBSET AllFlags /\ got = {}
      BY <2>1 DEF AwaitTcpip, AllFlags, Control, Starting
    <3>. QED
      BY <2>1, <3>1, FlagsWaitKeeps DEF AwaitTcpip
  <2>2. CASE NetifAdd
    BY <2>2 DEF NetifAdd, Blocked
  <2>3. CASE TcpipInit \/ LinkIsUp \/ DhcpStart
    BY <2>3 DEF TcpipInit, LinkIsUp, DhcpStart, flagVars, Control, Blocked,
       Starting
  <2>. QED BY <2>1, <2>2, <2>3
<1>6. Control'
  BY <1>1, <1>3, <1>4, <1>5 DEF Control, Starting
<1>7. Heartbeat' /\ CountsToThree' /\ AnnounceIsFresh'
  BY <1>1, <1>3, <1>4, <1>5 DEF Heartbeat, CountsToThree, AnnounceIsFresh
<1>. QED BY <1>6, <1>7

\* Waiting, waking and going round the loop.
LEMMA WaitKeeps ==
  ASSUME IInv, EnterWait \/ WaitTimeout \/ EndOfBatch
  PROVE  Control' /\ Heartbeat' /\ CountsToThree' /\ AnnounceIsFresh'
<1> USE DEF IInv
<1>1. CASE EnterWait
  <2>1. AllFlags \in SUBSET AllFlags /\ got = {}
    BY <1>1 DEF EnterWait, Control
  <2>2. /\ flags' \cup got' = flags \cup got
        /\ flags' \subseteq AllFlags
        /\ Blocked' => got' = {} /\ waitMask' = AllFlags
                       /\ flags' \cap AllFlags = {}
    BY <1>1, <2>1, FlagsWaitKeeps DEF EnterWait
  <2>3. /\ pc' = "events" /\ timer' = timer /\ syncCount' = syncCount
        /\ last' = last /\ pc = "loop" /\ flags' = {}
    BY <1>1 DEF EnterWait, FlagsWait, TypeOK
  <2>4. dhcpUp' = dhcpUp
    BY <1>1 DEF EnterWait
  <2>5. Control'
    BY <2>2, <2>3 DEF Control, Starting
  <2>6. Heartbeat'
    BY <2>1, <2>2, <2>3, <2>4 DEF Heartbeat, MainEvents
  <2>. QED
    BY <2>2, <2>3, <2>5, <2>6 DEF CountsToThree, AnnounceIsFresh
<1>2. CASE WaitTimeout
  BY <1>2 DEF WaitTimeout, FlagsTimeout, Control, Blocked, Heartbeat,
     CountsToThree, AnnounceIsFresh, netifVars, mainVars, Starting
<1>3. CASE EndOfBatch
  BY <1>3 DEF EndOfBatch, Control, Blocked, Heartbeat, CountsToThree,
     AnnounceIsFresh, flagVars, netifVars, Starting
<1>. QED BY <1>1, <1>2, <1>3

\* The handlers of the event loop.
LEMMA HandlerKeeps ==
  ASSUME IInv, OnAcquired \/ OnTrigger \/ OnDhcpUp \/ OnDhcpDown
  PROVE  Control' /\ Heartbeat' /\ CountsToThree' /\ AnnounceIsFresh'
<1> USE DEF IInv
<1>1. CASE OnAcquired
  <2>1. /\ ~Blocked' /\ pc' = "events" /\ timer' = ResyncPeriod
        /\ syncCount' = 0 /\ last' = last /\ "ntp_aquired" \in got
        /\ flags' = flags /\ got' = got \ {"ntp_aquired"}
    BY <1>1 DEF OnAcquired, NextEvent, Blocked
  <2>2. "ntp_aquired" \notin flags'
    BY <2>1 DEF Control
  <2>3. Control'
    BY <2>1 DEF Control, Starting
  <2>4. timer' # 0
    BY <2>1, Periods
  <2>5. Heartbeat'
    BY <2>4 DEF Heartbeat
  <2>6. CountsToThree' /\ AnnounceIsFresh'
    BY <2>1, <2>2 DEF CountsToThree, AnnounceIsFresh
  <2>. QED BY <2>3, <2>5, <2>6
<1>2. CASE OnTrigger
  <2>1. /\ ~Blocked' /\ pc' = "ntp" /\ timer' = 0
        /\ syncCount' = syncCount /\ last' = last
        /\ flags' = flags /\ got' = got \ {"trigger_ntp"}
        /\ {"trigger_ntp", "ntp_aquired"} \cap got' = {}
        /\ "ntp_aquired" \notin got
    BY <1>2 DEF OnTrigger, NextEvent, Blocked
  <2>2. "ntp_aquired" \notin flags
    BY <1>2 DEF OnTrigger, NextEvent, Control
  <2>3. Control'
    BY <2>1, <2>2 DEF Control, Starting
  <2>4. Heartbeat'
    BY <2>1 DEF Heartbeat
  <2>5. CountsToThree' /\ AnnounceIsFresh'
    BY <2>1, <2>2 DEF CountsToThree, AnnounceIsFresh
  <2>. QED BY <2>3, <2>4, <2>5
<1>3. CASE OnDhcpUp
  <2>1. /\ ~Blocked' /\ pc' = "events" /\ timer' = StartPeriod
        /\ syncCount' = syncCount /\ last' = last
        /\ flags' = flags /\ got' = got \ {"dhcp_up"}
    BY <1>3 DEF OnDhcpUp, NextEvent, Blocked
  <2>2. Control'
    BY <2>1 DEF Control, Starting
  <2>3. timer' # 0
    BY <2>1, Periods
  <2>4. Heartbeat'
    BY <2>3 DEF Heartbeat
  <2>5. CountsToThree' /\ AnnounceIsFresh'
    BY <2>1 DEF CountsToThree, AnnounceIsFresh
  <2>. QED BY <2>2, <2>4, <2>5
<1>4. CASE OnDhcpDown
  <2>1. /\ ~Blocked' /\ pc' \in {"events", "panic"}
        /\ syncCount' = syncCount /\ last' = last
        /\ flags' = flags /\ got' = got \ {"dhcp_down"}
    BY <1>4 DEF OnDhcpDown, NextEvent, Blocked
  <2>2. pc' = "panic" \/ ~dhcpUp'
    BY <1>4 DEF OnDhcpDown
  <2>. QED
    BY <2>1, <2>2 DEF Control, Heartbeat, CountsToThree, AnnounceIsFresh,
       Starting
<1>. QED BY <1>1, <1>2, <1>3, <1>4

\* The end of an exchange: a third good one announces, any other one arms the
\* timer.
LEMMA ReturnKeeps ==
  ASSUME IInv, NtpReturn
  PROVE  Control' /\ Heartbeat' /\ CountsToThree' /\ AnnounceIsFresh'
<1> USE DEF IInv
<1>1. ASSUME NEW diff \in Diffs, NEW poll \in Polls, NtpReply(diff, poll)
      PROVE  Control' /\ Heartbeat' /\ CountsToThree' /\ AnnounceIsFresh'
  <2>1. pc = "ntp" /\ pc' = "events" /\ syncCount' = SyncCountAfter(diff)
        /\ last' = Outcome(diff)
    BY <1>1 DEF NtpReply
  <2>2. /\ ~Blocked /\ {"trigger_ntp", "ntp_aquired"} \cap got = {}
        /\ "ntp_aquired" \notin flags
        /\ syncCount \in 0..2
    BY <2>1 DEF Control, CountsToThree, TypeOK
  <2>3. Outcome(diff) \in {"good", "drift", "far"}
    BY DEF Outcome
  <2>4. /\ syncCount' \in {0, syncCount, syncCount + 1}
        /\ syncCount' = syncCount + 1 => last' = "good"
    BY <2>1, <2>2, <2>3 DEF SyncCountAfter
  <2>5. CASE syncCount' >= 3
    <3>1. {"ntp_aquired"} \in SUBSET AllFlags
      BY DEF AllFlags, MainEvents
    <3>2. FlagsSet({"ntp_aquired"})
      BY <1>1, <2>5 DEF NtpReply
    <3>3. ~Blocked' /\ got' = got /\ flags' = flags \cup {"ntp_aquired"}
      BY <2>2, <3>1, <3>2, FlagsSetKeeps DEF Control
    <3>4. syncCount' = 3 /\ last' = "good"
      BY <2>2, <2>4, <2>5
    <3>. QED
      BY <2>1, <3>3, <3>4 DEF Control, Heartbeat, CountsToThree,
         AnnounceIsFresh, Starting
  <2>6. CASE ~(syncCount' >= 3)
    <3>1. timer' = NextSyncTime(poll) /\ UNCHANGED flagVars
      BY <1>1, <2>6 DEF NtpReply
    <3>2. timer' # 0
      BY <3>1, NextSyncTimePeriod
    <3>3. ~Blocked' /\ got' = got /\ flags' = flags
      BY <2>2, <3>1 DEF flagVars, Blocked
    <3>4. syncCount' \in 0..2
      BY <2>2, <2>4, <2>6
    <3>. QED
      BY <2>1, <2>2, <3>2, <3>3, <3>4 DEF Control, Heartbeat, CountsToThree,
         AnnounceIsFresh, Starting
  <2>. QED BY <2>5, <2>6
<1>2. CASE NtpFailure
  <2>1. /\ pc = "ntp" /\ pc' = "events" /\ timer' = RetryPeriod
        /\ syncCount' = 0 /\ got' = got /\ flags' = flags
        /\ Blocked' => Blocked
    BY <1>2 DEF NtpFailure, flagVars, Blocked
  <2>. QED
    BY <2>1, Periods DEF Control, Heartbeat, CountsToThree, AnnounceIsFresh,
       Starting
<1>. QED BY <1>1, <1>2 DEF NtpReturn

-----------------------------------------------------------------------------
(* The interface.                                                          *)

LEMMA BoundStep ==
  IInv /\ [Next]_vars => LeaseHasAddress' /\ ReadSound' /\ BoundFlagSound'
<1> SUFFICES ASSUME IInv, [Next]_vars
             PROVE  LeaseHasAddress' /\ ReadSound' /\ BoundFlagSound'
  OBVIOUS
<1> USE DEF IInv
<1> DEFINE Sound == LeaseHasAddress' /\ ReadSound' /\ BoundFlagSound'
<1>1. CASE UNCHANGED <<dhcp, addr, dhcp_bound, chain, overlap>>
  BY <1>1 DEF LeaseHasAddress, ReadSound, BoundFlagSound
<1>2. CASE DhcpStart
  BY <1>2 DEF DhcpStart, LeaseHasAddress, ReadSound, BoundFlagSound
<1>3. CASE NetifEvent
  <2>1. ASSUME NEW t \in Threads, Callback(t)
        PROVE  Sound
    <3>1. /\ UNCHANGED <<dhcp, addr, overlap>>
          /\ \A u \in Threads \ {t} : chain'[u] = chain[u]
      BY <2>1 DEF Callback, StatusCallbackReads, StatusCallbackWrites,
         ExtCallbackReads, DhcpUpDown, CallNext, TypeOK
    <3>2. CASE StatusCallbackReads(t)
      <4>1. /\ chain'[t] = "leased" => dhcp = "bound"
            /\ chain'[t] \in {"leased", "unleased"}
            /\ dhcp_bound' = dhcp_bound
        BY <3>2 DEF StatusCallbackReads, CallNext, SuppliedAddress, TypeOK
      <4>. QED
        BY <3>1, <4>1 DEF LeaseHasAddress, ReadSound, BoundFlagSound
    <3>3. CASE StatusCallbackWrites(t)
      <4>1. chain'[t] = "ext" /\ (dhcp_bound' <=> chain[t] = "leased")
        BY <3>3 DEF StatusCallbackWrites, CallNext, TypeOK
      <4>. QED
        BY <3>1, <4>1 DEF LeaseHasAddress, ReadSound, BoundFlagSound
    <3>4. CASE ExtCallbackReads(t) \/ DhcpUpDown(t)
      <4>1. /\ chain[t] \in {"ext", "up", "down"}
            /\ chain'[t] \in {"up", "down", "none"}
            /\ dhcp_bound' = dhcp_bound
        BY <3>4 DEF ExtCallbackReads, DhcpUpDown, CallNext, TypeOK
      <4>. QED
        BY <3>1, <4>1 DEF LeaseHasAddress, ReadSound, BoundFlagSound
    <3>. QED BY <2>1, <3>2, <3>3, <3>4 DEF Callback
  <2>2. ASSUME NEW a \in Addrs, DhcpBind(a)
        PROVE  Sound
    BY <2>2, AddrsAssumption DEF DhcpBind, SetAddr, LeaseHasAddress, ReadSound,
       BoundFlagSound
  <2>3. ASSUME NEW t \in Threads, DhcpLose(t)
        PROVE  Sound
    <3>1. /\ chain'[t] = "status" /\ dhcp' = "selecting"
          /\ ~overlap' => \A u \in Threads \ {t} : chain'[u] = "none"
      BY <2>3 DEF DhcpLose, SetAddr, TypeOK
    <3>. QED BY <3>1 DEF LeaseHasAddress, ReadSound, BoundFlagSound
  <2>4. CASE DhcpRebootTimeout \/ LinkUp \/ LinkDown
    BY <2>4 DEF DhcpRebootTimeout, LinkUp, LinkDown, LeaseHasAddress,
       ReadSound, BoundFlagSound
  <2>. QED BY <1>3, <2>1, <2>2, <2>3, <2>4 DEF NetifEvent, NetifNext
<1>. QED
  BY <1>1, <1>2, <1>3 DEF Next, MainStep, TcpipInit, TcpipInitDone,
     AwaitTcpip, NetifAdd, LinkIsUp, EnterWait, WaitTimeout, EndOfBatch,
     OnAcquired, OnTrigger, OnDhcpUp, OnDhcpDown, NtpReturn, NtpReply,
     NtpFailure, TimerExpire, vars, netifVars

-----------------------------------------------------------------------------
(* The theorems.                                                           *)

LEMMA StepIInv == IInv /\ [Next]_vars => IInv'
<1> SUFFICES ASSUME IInv, [Next]_vars PROVE IInv'
  OBVIOUS
<1>1. TypeOK' /\ LeaseHasAddress' /\ ReadSound' /\ BoundFlagSound'
  BY TypeStep, BoundStep
<1>2. Control' /\ Heartbeat' /\ CountsToThree' /\ AnnounceIsFresh'
  <2>1. CASE TcpipInit \/ AwaitTcpip \/ NetifAdd \/ LinkIsUp \/ DhcpStart
    BY <2>1, StartKeeps
  <2>2. CASE EnterWait \/ WaitTimeout \/ EndOfBatch
    BY <2>2, WaitKeeps
  <2>3. CASE OnAcquired \/ OnTrigger \/ OnDhcpUp \/ OnDhcpDown
    BY <2>3, HandlerKeeps
  <2>4. CASE NtpReturn
    BY <2>4, ReturnKeeps
  <2>5. CASE UNCHANGED <<flagVars, mainVars>> /\ (dhcp' = dhcp \/ pc \notin Starting)
    BY <2>5 DEF flagVars, mainVars, IInv, Control, Heartbeat, CountsToThree,
       AnnounceIsFresh, Blocked
  <2>6. CASE TcpipInitDone \/ TimerExpire \/ NetifEvent
    <3>1. dhcp' = dhcp \/ pc \notin Starting
      <4>1. CASE TcpipInitDone \/ TimerExpire
        BY <4>1 DEF TcpipInitDone, TimerExpire, netifVars
      <4>2. CASE NetifEvent
        <5>1. pc \in Starting => dhcp = "off"
          BY DEF IInv, Control
        <5>. QED
          BY <4>2, <5>1, CallbackEffect DEF NetifEvent, NetifNext, DhcpBind,
             DhcpLose, DhcpRebootTimeout, LinkUp, LinkDown, IInv
      <4>. QED BY <2>6, <4>1, <4>2
    <3>2. CASE \E fs : Signal(fs)
      BY <3>1, <3>2, SignalKeeps
    <3>3. CASE UNCHANGED <<flagVars, mainVars>>
      BY <2>5, <3>1, <3>3
    <3>. QED BY <2>6, <3>2, <3>3, SignalSteps DEF IInv
  <2>7. CASE UNCHANGED vars
    BY <2>5, <2>7 DEF vars, netifVars
  <2>. QED
    BY <2>1, <2>2, <2>3, <2>4, <2>6, <2>7 DEF Next, MainStep
<1>. QED BY <1>1, <1>2 DEF IInv

\* Every behaviour of the firmware satisfies the inductive invariant.
THEOREM Invariance == Spec => []IInv
<1>. QED BY InitIInv, StepIInv, PTL DEF Spec

\* The type invariant, and with it the limits of the timer's period.
THEOREM TypeCorrect == Spec => []TypeOK
<1>1. IInv => TypeOK
  BY DEF IInv
<1>. QED BY <1>1, Invariance, PTL

\* The chain of NTP queries never dies while the main thread believes that
\* DHCP is up.
THEOREM HeartbeatHolds == Spec => []Heartbeat
<1>1. IInv => Heartbeat
  BY DEF IInv
<1>. QED BY <1>1, Invariance, PTL

\* The third good exchange is announced, and none is counted after it.
THEOREM CountsToThreeHolds == Spec => []CountsToThree
<1>1. IInv => CountsToThree
  BY DEF IInv
<1>. QED BY <1>1, Invariance, PTL

\* An announcement is handled before anything can make it untrue.
THEOREM AnnounceIsFreshHolds == Spec => []AnnounceIsFresh
<1>1. IInv => AnnounceIsFresh
  BY DEF IInv
<1>. QED BY <1>1, Invariance, PTL

\* dhcp_bound outlives the address at most until its loss has called back.
THEOREM BoundFlagSoundHolds == Spec => []BoundFlagSound
<1>1. IInv => BoundFlagSound
  BY DEF IInv
<1>. QED BY <1>1, Invariance, PTL
=============
