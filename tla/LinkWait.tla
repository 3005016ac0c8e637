------------------------------ MODULE LinkWait ------------------------------
(***************************************************************************)
(* The start of the network interface in the main thread (main.zig:133-150 *)
(* with ethernetif_init and ethernetif_wait_linkup of                      *)
(* board/frdmmcxe247/board/ethernet/ethernetif.c), the cyclic probe of the *)
(* PHY in the tcpip thread, and the core lock between them                 *)
(* (external/lwip/src/sys_arch.zig:229-252).                               *)
(*                                                                         *)
(* A step ends where another thread can see what it did: at each access of *)
(* the lock, the queue, the link flag and the bus of the PHY.              *)
(***************************************************************************)
EXTENDS Naturals

CONSTANTS
  Speeds,     \* the speeds (with duplex modes) of a link
  QueueLen,   \* ETH_WAIT_QUEUE_MSG_CNT
  Prompt      \* the main thread gets the processor between two probes

NotSet == "unset"   \* 0xa5a5 in last_speed

ASSUME QueueLenAssumption == QueueLen \in Nat \ {0}
ASSUME PromptAssumption == Prompt \in BOOLEAN
ASSUME SpeedsAssumption == NotSet \notin Speeds

VARIABLES
  link,     \* the PHY has a link
  speed,    \* the speed it has negotiated
  flag,     \* NETIF_FLAG_LINK_UP
  eif,      \* last_link_up and last_speed of struct ethernetif
  mii,      \* the speed the controller is set to (ENET_SetMII)
  lock,     \* the holder of the core lock: "none", "main" or "tcpip"
  queue,    \* extcb_queue: whether it exists, and how many messages it holds
  cb,       \* extcb is in the list of callbacks
  main,     \* where the main thread is
  ret,      \* `ret` of the wait
  probe,    \* where the probe is, and who runs it
  seen,     \* history: the link flag was up at some moment of this wait
  quiet     \* history: no probe has begun since the main thread last blocked

phyVars == <<link, speed>>
macVars == <<flag, eif, mii>>
waitVars == <<queue, cb, main, ret>>
vars == <<phyVars, macVars, lock, waitVars, probe, seen, quiet>>

Idle == [at |-> "idle", by |-> "tcpip"]

Init ==
  /\ link \in BOOLEAN
  /\ speed \in Speeds
  /\ flag = FALSE
  /\ eif = [up |-> FALSE, speed |-> NotSet]
  /\ mii = NotSet
  /\ lock = "none"
  /\ queue = [open |-> FALSE, msgs |-> 0]
  /\ cb = FALSE
  /\ main = "add"
  /\ ret = "INPROGRESS"
  /\ probe = Idle
  /\ seen = FALSE
  /\ quiet = TRUE

\* The link of the PHY comes, goes and is negotiated anew at any moment.
PhyChanges ==
  /\ link' \in BOOLEAN /\ speed' \in Speeds
  /\ <<link', speed'>> # phyVars
  /\ UNCHANGED <<macVars, lock, waitVars, probe, seen, quiet>>

-----------------------------------------------------------------------------
(* ethernetif_probe_link, in the main thread at first and then in the      *)
(* tcpip thread, which handles its time-outs with the core lock held.      *)

\* The main thread waits for something else than the processor, or turns in an
\* assertion, below the priority of the tcpip thread.
MainBlocked == main \in {"add", "up", "halted"} \/ (main = "get" /\ queue.msgs = 0)

At(place) == probe' = [probe EXCEPT !.at = place]

\* probe_link_cyclic; the first probe of the main thread is over by then.
ProbeStarts ==
  /\ probe = Idle /\ main # "add" /\ lock = "none"
  /\ Prompt => MainBlocked \/ quiet
  /\ lock' = "tcpip"
  /\ At("status")
  /\ quiet' = FALSE
  /\ UNCHANGED <<phyVars, macVars, waitVars, seen>>

\* PHY_GetLinkStatus; when it fails, nothing more happens.
ProbeStatus ==
  /\ probe.at = "status"
  /\ \/ At(IF link THEN "speed" ELSE "setdown")
     \/ At("end")
  /\ UNCHANGED <<phyVars, macVars, lock, waitVars, seen, quiet>>

\* Fault: a controller that was set up before is not told of another speed.
OnLinkUp_OnlyOnce ==
  IF ~eif.up
    THEN mii' = speed /\ eif' = [up |-> TRUE, speed |-> speed]
    ELSE UNCHANGED <<mii, eif>>

\* ethernetif_on_link_up
OnLinkUp ==
  IF ~eif.up \/ speed # eif.speed
    THEN mii' = speed /\ eif' = [up |-> TRUE, speed |-> speed]
    ELSE UNCHANGED <<mii, eif>>

\* PHY_GetLinkSpeedDuplex and ethernetif_on_link_up; the link comes up
\* even when the speed cannot be read.
ProbeSpeed ==
  /\ probe.at = "speed"
  /\ OnLinkUp \/ UNCHANGED <<mii, eif>>
  /\ At("setup")
  /\ UNCHANGED <<phyVars, flag, lock, waitVars, seen, quiet>>

\* netif_set_link_up and netif_set_link_down call the callbacks for a change only.
SetLink(place, value, next) ==
  /\ probe.at = place
  /\ flag' = value
  /\ At(IF flag # value /\ cb THEN next.callback ELSE next.after)
  /\ seen' = (seen \/ value)
  /\ UNCHANGED <<phyVars, eif, mii, lock, waitVars, quiet>>

SetLinkUp == SetLink("setup", TRUE, [callback |-> "putup", after |-> "end"])
SetLinkDown == SetLink("setdown", FALSE, [callback |-> "putdown", after |-> "down"])

AfterPut == At(IF probe.at = "putup" THEN "end" ELSE "down")

\* extcb: the put blocks while the queue is full, with the core lock held.
ExtCb ==
  /\ probe.at \in {"putup", "putdown"}
  /\ queue.msgs < QueueLen
  /\ queue' = [queue EXCEPT !.msgs = @ + 1]
  /\ AfterPut
  /\ UNCHANGED <<phyVars, macVars, lock, cb, main, ret, seen, quiet>>

\* ethernetif_on_link_down
OnLinkDown ==
  /\ probe.at = "down"
  /\ eif' = [eif EXCEPT !.up = FALSE]
  /\ At("end")
  /\ UNCHANGED <<phyVars, flag, mii, lock, waitVars, seen, quiet>>

ProbeEnds ==
  /\ probe.at = "end"
  /\ probe' = Idle
  /\ IF probe.by = "tcpip"
       THEN lock' = "none" /\ UNCHANGED main
       ELSE main' = "call" /\ UNCHANGED lock
  /\ UNCHANGED <<phyVars, macVars, queue, cb, ret, seen, quiet>>

Probe == ProbeStatus \/ ProbeSpeed \/ SetLinkUp \/ SetLinkDown \/ ExtCb \/ OnLinkDown \/ ProbeEnds

-----------------------------------------------------------------------------
(* The main thread.                                                        *)

Goes(from, to) == main = from /\ main' = to

Blocks == quiet' = (quiet \/ (main' = "get" /\ queue.msgs = 0 /\ probe = Idle))

\* netif_add: ethernetif_init declares the link up and probes it, without the lock.
NetifAdd ==
  /\ main = "add" /\ probe = Idle
  /\ flag' = TRUE
  /\ probe' = [at |-> "status", by |-> "main"]
  /\ UNCHANGED <<phyVars, eif, mii, lock, waitVars, seen, quiet>>

\* The call of ethernetif_wait_linkup, whose first look at the flag may do.
FirstCheck ==
  /\ main = "call"
  /\ seen' = flag
  /\ ret' = IF flag THEN "OK" ELSE "INPROGRESS"
  /\ main' = IF flag THEN "up" ELSE "new"
  /\ UNCHANGED <<phyVars, macVars, lock, queue, cb, probe, quiet>>

NewQueue ==
  /\ Goes("new", "lockadd")
  /\ queue' = [open |-> TRUE, msgs |-> 0]
  /\ UNCHANGED <<phyVars, macVars, lock, cb, ret, probe, seen, quiet>>

\* No memory for the queue: LWIP_ASSERT, which turns in a loop for good.
NewQueueFails ==
  /\ Goes("new", "halted")
  /\ UNCHANGED <<phyVars, macVars, lock, queue, cb, ret, probe, seen, quiet>>

\* Fault: the lock is taken from its holder.
LockCore_Barges ==
  /\ Goes("lockadd", "adding") \/ Goes("lockremove", "removing")
  /\ lock' = "main"
  /\ UNCHANGED <<phyVars, macVars, queue, cb, ret, probe, seen, quiet>>

LockCore ==
  /\ lock = "none"
  /\ Goes("lockadd", "adding") \/ Goes("lockremove", "removing")
  /\ lock' = "main"
  /\ UNCHANGED <<phyVars, macVars, queue, cb, ret, probe, seen, quiet>>

AddCallback ==
  /\ Goes("adding", "check")
  /\ cb' = TRUE
  /\ lock' = "none"
  /\ UNCHANGED <<phyVars, macVars, queue, ret, probe, seen, quiet>>

\* "Event might occur before CB was registered": ret stays ERR_INPROGRESS then.
SecondCheck ==
  /\ main = "check"
  /\ main' = IF flag THEN "lockremove" ELSE "get"
  /\ Blocks
  /\ UNCHANGED <<phyVars, macVars, lock, queue, cb, ret, probe, seen>>

Get ==
  /\ Goes("get", "look") /\ queue.msgs > 0
  /\ queue' = [queue EXCEPT !.msgs = @ - 1]
  /\ UNCHANGED <<phyVars, macVars, lock, cb, ret, probe, seen, quiet>>

\* A change of the link is a success only if it is up when it is looked at.
Look ==
  /\ main = "look"
  /\ main' = IF flag THEN "lockremove" ELSE "get"
  /\ ret' = IF flag THEN "OK" ELSE ret
  /\ Blocks
  /\ UNCHANGED <<phyVars, macVars, lock, queue, cb, probe, seen>>

\* Fault: the end of the time counts as a change of the link.
Timeout_Success ==
  /\ Goes("get", "lockremove") /\ queue.msgs = 0
  /\ ret' = "OK"
  /\ quiet' = (quiet \/ probe = Idle)
  /\ UNCHANGED <<phyVars, macVars, lock, queue, cb, probe, seen>>

\* Fault: the loop goes on after the end of the time.
Timeout_GoesOn ==
  /\ main = "get" /\ queue.msgs = 0
  /\ UNCHANGED vars

\* osMessageQueueGet gives up after its five seconds.
Timeout ==
  /\ Goes("get", "lockremove") /\ queue.msgs = 0
  /\ ret' = "TIMEOUT"
  /\ quiet' = (quiet \/ probe = Idle)
  /\ UNCHANGED <<phyVars, macVars, lock, queue, cb, probe, seen>>

\* Fault: the callback is left in the list.
RemoveCallback_Forgotten ==
  /\ Goes("removing", "delete")
  /\ lock' = "none"
  /\ UNCHANGED <<phyVars, macVars, queue, cb, ret, probe, seen, quiet>>

RemoveCallback ==
  /\ Goes("removing", "delete")
  /\ cb' = FALSE
  /\ lock' = "none"
  /\ UNCHANGED <<phyVars, macVars, queue, ret, probe, seen, quiet>>

\* The end of the wait; the loop of main.zig:145 calls again unless it is ERR_OK.
DeleteQueue ==
  /\ main = "delete"
  /\ queue' = [open |-> FALSE, msgs |-> 0]
  /\ main' = IF ret = "OK" THEN "up" ELSE "call"
  /\ UNCHANGED <<phyVars, macVars, lock, cb, ret, probe, seen, quiet>>

Waits == AddCallback \/ SecondCheck \/ Get \/ Look \/ Timeout \/ RemoveCallback \/ DeleteQueue

Main == NetifAdd \/ FirstCheck \/ NewQueue \/ NewQueueFails \/ Waits

Next == PhyChanges \/ ProbeStarts \/ Probe \/ Main \/ LockCore

Spec == Init /\ [][Next]_vars

\* The time-out of the probe expires again and again, threads run, and the mutex
\* is handed to a thread that waits for it.
FairSpec ==
  /\ Spec
  /\ SF_vars(ProbeStarts) /\ WF_vars(Probe) /\ WF_vars(Main) /\ SF_vars(LockCore)

\* Reads of the PHY succeed again and again.
ReadsSucceed ==
  /\ SF_vars(ProbeStatus /\ probe'.at # "end")
  /\ SF_vars(ProbeSpeed /\ eif' = [up |-> TRUE, speed |-> speed])

-----------------------------------------------------------------------------
(* Properties.                                                             *)

MainPlaces ==
  {"add", "call", "new", "lockadd", "adding", "check", "get", "look", "lockremove", "removing",
   "delete", "up", "halted"}
ProbePlaces == {"idle", "status", "speed", "setup", "setdown", "putup", "putdown", "down", "end"}

\* The types, and what ties the lock to where the threads are.
TypeOK ==
  /\ link \in BOOLEAN /\ flag \in BOOLEAN /\ cb \in BOOLEAN /\ seen \in BOOLEAN /\ quiet \in BOOLEAN
  /\ speed \in Speeds
  /\ eif \in [up : BOOLEAN, speed : Speeds \cup {NotSet}]
  /\ mii \in Speeds \cup {NotSet}
  /\ lock \in {"none", "main", "tcpip"}
  /\ queue \in [open : BOOLEAN, msgs : 0..QueueLen]
  /\ main \in MainPlaces
  /\ ret \in {"INPROGRESS", "OK", "TIMEOUT"}
  /\ probe \in [at : ProbePlaces, by : {"main", "tcpip"}]
  /\ lock = "main" <=> main \in {"adding", "removing"}
  /\ lock = "tcpip" <=> probe # Idle /\ probe.by = "tcpip"

\* Whoever is in extcb finds the queue: the callback is in the list only while the
\* queue exists, and no probe is inside it when the queue is deleted (extcb has no
\* other protection, and ethernetif_wait_linkup_array asserts that no queue is left).
CallbackHasQueue ==
  /\ cb => queue.open
  /\ probe.at \in {"putup", "putdown"} => cb /\ queue.open
  /\ main \in {"call", "new", "up", "halted"} => ~queue.open

\* The wait does what LinkPromise says of it, whatever the PHY does and however its
\* probes fall between the two looks at the flag and the registration of extcb: no
\* ERR_OK without a link (ethernetif_wait_linkup_array, ethernetif.c:464-535).
Promise == INSTANCE LinkPromise WITH
  up <- flag,
  call <- CASE main = "up" -> "ok"
            [] main = "halted" -> "stopped"
            [] main \in {"add", "call"} -> "none"
            [] OTHER -> IF seen THEN "seen" ELSE "waiting"

KeepsPromise == Promise!Spec

\* A call of ethernetif_wait_linkup ends, whatever the link does meanwhile
\* (ethernetif.h:178: "Maximum time to wait in ms"), unless it stops in the
\* assertion of an allocation that failed.
WaitEnds == []<>(main \in {"add", "call", "up", "halted"})

\* Once the PHY is stable, the interface comes to agree with it and stays so: the flag
\* is that of the link, and the controller runs at its speed, after any order of
\* losses, failed reads and negotiations (ethernetif_probe_link).
Agrees == flag = link /\ (link => eif.up /\ mii = speed)
Settles == ReadsSucceed => (<>[][FALSE]_phyVars => <>[]Agrees)
=============================================================================
