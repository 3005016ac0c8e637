------------------------------- MODULE EthTx -------------------------------
(***************************************************************************)
(* The transmit path of the Ethernet driver                                *)
(* (board/frdmmcxe247/board/ethernet/enet_ethernetif_kinetis.c): threads   *)
(* that call ethernetif_linkoutput, the one buffer into which chains of    *)
(* pbufs are copied, the ring of descriptors, the transmit interrupt and   *)
(* the event flag it sets.                                                 *)
(*                                                                         *)
(* lwIP calls linkoutput with the core lock held (sys_arch.zig:229-247),   *)
(* except from the receive task, whose netif->input is ethernet_input      *)
(* itself (ethernet.zig:184-194): what answers a frame there, or was       *)
(* waiting for an ARP reply, goes out without the lock.                    *)
(*                                                                         *)
(* ENET_SendFrame is the vendor's: it looks at the next descriptor, copies *)
(* the data and then makes the descriptor ready, in three steps.           *)
(***************************************************************************)
EXTENDS Naturals, Sequences, FiniteSets

CONSTANTS
  Locked,     \* the threads that send with the core lock held
  Unlocked,   \* the receive task
  Frames,     \* contents
  NumBD       \* ENET_TXBD_NUM: descriptors in the ring

ASSUME NumBDAssumption == NumBD \in Nat \ {0}
ASSUME SendersAssumption == Locked \cap Unlocked = {} /\ "nobody" \notin Locked \cup Unlocked
ASSUME FramesAssumption == "none" \notin Frames

VARIABLES
  bd,        \* the ring: whether a descriptor is ready, and its data
  txGenIdx,  \* the descriptor the driver fills next
  dmaIdx,    \* the descriptor the controller sends next
  txEvent,   \* the controller's event bit, set when a frame is sent
  txFlag,    \* the flag in enetTransmitAccessEvent
  ucBuffer,  \* the contiguous copy of a chain
  coreLock,  \* the holder of the core lock, or "nobody"
  at,        \* where each thread is in linkoutput
  pbuf,      \* the pbuf it sends: its kind and its content
  slot,      \* the descriptor it found free, until it has filled it
  overlap    \* history: two threads were where only one may be

ring == <<bd, txGenIdx, dmaIdx>>
irq == <<txEvent, txFlag>>
thread == <<at, pbuf, slot>>
vars == <<ring, irq, ucBuffer, coreLock, thread, overlap>>

Senders == Locked \cup Unlocked
Descs == 0..(NumBD - 1)
Empty == [ready |-> FALSE, data |-> "none"]
NoPbuf == [kind |-> "none", data |-> "none"]

NextDesc(i) == (i + 1) % NumBD

\* ethernetif_plat_init: the event flags exist before ENET_Init enables the
\* transmit interrupts, and the ring is empty.
Init ==
  /\ bd = [i \in Descs |-> Empty]
  /\ txGenIdx = 0
  /\ dmaIdx = 0
  /\ txEvent = FALSE
  /\ txFlag = FALSE
  /\ ucBuffer = "none"
  /\ coreLock = "nobody"
  /\ at = [s \in Senders |-> "idle"]
  /\ pbuf = [s \in Senders |-> NoPbuf]
  /\ slot = [s \in Senders |-> 0]
  /\ overlap = FALSE

-----------------------------------------------------------------------------
(* Where only one thread may be: in ENET_SendFrame once it has found its   *)
(* descriptor, and between the copy of a chain and its last use.           *)

InDriver(s) == at[s] \in {"fill", "commit"}
UsesBuffer(s) == pbuf[s].kind = "chain" /\ at[s] \in {"send", "wait", "fill"}

Clash ==
  \E s, t \in Senders :
    /\ s # t
    /\ \/ InDriver(s) /\ InDriver(t)
       \/ UsesBuffer(s) /\ UsesBuffer(t)

Watched == overlap' = (overlap \/ Clash')

Goes(s, from, to) == at[s] = from /\ at' = [at EXCEPT ![s] = to]

-----------------------------------------------------------------------------
(* A thread in ethernetif_linkoutput.                                      *)

\* The call, under the lock or not; what is longer than MAX_TX_FRAMELEN is an
\* ERR_BUF, a single pbuf is sent from where it is.
LinkOutput(s, p) ==
  /\ Goes(s, "idle", CASE p.kind = "chain" -> "copy"
                       [] p.kind = "single" -> "send"
                       [] p.kind = "long" -> "return")
  /\ pbuf' = [pbuf EXCEPT ![s] = p]
  /\ IF s \in Locked THEN coreLock = "nobody" /\ coreLock' = s ELSE UNCHANGED coreLock
  /\ UNCHANGED <<ring, irq, ucBuffer, slot>>

\* pbuf_copy_partial into the buffer that enet_get_tx_buffer returns.
CopyChain(s) ==
  /\ Goes(s, "copy", "send")
  /\ ucBuffer' = pbuf[s].data
  /\ UNCHANGED <<ring, irq, coreLock, pbuf, slot>>

\* ENET_SendFrame, as far as kStatus_ENET_TxFrameBusy.
LookForDesc(s) ==
  /\ Goes(s, "send", IF bd[txGenIdx].ready THEN "wait" ELSE "fill")
  /\ slot' = [slot EXCEPT ![s] = IF bd[txGenIdx].ready THEN @ ELSE txGenIdx]
  /\ UNCHANGED <<ring, irq, ucBuffer, coreLock, pbuf>>

\* Fault: the flag is cleared before the wait, so that an earlier one is lost.
WaitForFlag_ClearsFirst(s) ==
  /\ txFlag
  /\ txFlag' = FALSE
  /\ UNCHANGED at \/ Goes(s, "wait", "send")
  /\ at[s] = "wait"
  /\ UNCHANGED <<ring, txEvent, ucBuffer, coreLock, pbuf, slot>>

\* osEventFlagsWait, which clears the flag for the one thread it lets go on.
WaitForFlag(s) ==
  /\ txFlag
  /\ Goes(s, "wait", "send")
  /\ txFlag' = FALSE
  /\ UNCHANGED <<ring, txEvent, ucBuffer, coreLock, pbuf, slot>>

\* Fault: the data of every frame come from the buffer for chains.
FillDesc_FromBuffer(s) ==
  /\ Goes(s, "fill", "commit")
  /\ bd' = [bd EXCEPT ![slot[s]].data = ucBuffer]
  /\ UNCHANGED <<txGenIdx, dmaIdx, irq, ucBuffer, coreLock, pbuf, slot>>

FillDesc(s) ==
  /\ Goes(s, "fill", "commit")
  /\ bd' = [bd EXCEPT ![slot[s]].data = IF pbuf[s].kind = "chain" THEN ucBuffer ELSE pbuf[s].data]
  /\ UNCHANGED <<txGenIdx, dmaIdx, irq, ucBuffer, coreLock, pbuf, slot>>

CommitDesc(s) ==
  /\ Goes(s, "commit", "return")
  /\ bd' = [bd EXCEPT ![slot[s]].ready = TRUE]
  /\ txGenIdx' = NextDesc(txGenIdx)
  /\ slot' = [slot EXCEPT ![s] = 0]
  /\ UNCHANGED <<dmaIdx, irq, ucBuffer, coreLock, pbuf>>

\* Fault: the frame is given up and the lock stays taken.
Return_KeepsLock(s) ==
  /\ Goes(s, "return", "idle")
  /\ pbuf' = [pbuf EXCEPT ![s] = NoPbuf]
  /\ UNCHANGED <<ring, irq, ucBuffer, coreLock, slot>>

Return(s) ==
  /\ Goes(s, "return", "idle")
  /\ pbuf' = [pbuf EXCEPT ![s] = NoPbuf]
  /\ coreLock' = IF s \in Locked THEN "nobody" ELSE coreLock
  /\ UNCHANGED <<ring, irq, ucBuffer, slot>>

Sends(s) ==
  /\ \/ CopyChain(s) \/ LookForDesc(s) \/ WaitForFlag(s)
     \/ FillDesc(s) \/ CommitDesc(s) \/ Return(s)
  /\ Watched

TooLong == [kind |-> "long", data |-> "none"]
Pbufs == [kind : {"single", "chain"}, data : Frames] \cup {TooLong}

-----------------------------------------------------------------------------
(* The controller and its interrupt.                                       *)

\* A frame has left; what stays of it in the buffer is of no use to anybody.
ControllerSends ==
  /\ bd[dmaIdx].ready
  /\ bd' = [bd EXCEPT ![dmaIdx] = Empty]
  /\ dmaIdx' = NextDesc(dmaIdx)
  /\ txEvent' = TRUE
  /\ UNCHANGED <<txGenIdx, txFlag, ucBuffer, coreLock, thread, overlap>>

\* ethernet_callback with kENET_TxEvent: one event for any number of frames.
TxInterrupt ==
  /\ txEvent
  /\ txEvent' = FALSE
  /\ txFlag' = TRUE
  /\ UNCHANGED <<ring, ucBuffer, coreLock, thread, overlap>>

Next ==
  \/ \E s \in Senders : Sends(s) \/ \E p \in Pbufs : LinkOutput(s, p) /\ Watched
  \/ ControllerSends
  \/ TxInterrupt

Spec == Init /\ [][Next]_vars

FairSpec ==
  /\ Spec
  /\ \A s \in Senders : WF_vars(Sends(s))
  /\ WF_vars(ControllerSends) /\ WF_vars(TxInterrupt)
-----------------------------------------------------------------------------
(* Properties.                                                             *)

Places == {"idle", "copy", "send", "wait", "fill", "commit", "return"}

\* The types, and that the lock is held exactly while its holder sends.
TypeOK ==
  /\ bd \in [Descs -> [ready : BOOLEAN, data : Frames \cup {"none"}]]
  /\ txGenIdx \in Descs /\ dmaIdx \in Descs
  /\ txEvent \in BOOLEAN /\ txFlag \in BOOLEAN /\ overlap \in BOOLEAN
  /\ ucBuffer \in Frames \cup {"none"}
  /\ coreLock \in Locked \cup {"nobody"}
  /\ at \in [Senders -> Places]
  /\ pbuf \in [Senders -> Pbufs \cup {NoPbuf}]
  /\ slot \in [Senders -> Descs]
  /\ \A s \in Locked : coreLock = s <=> at[s] # "idle"

Sending(s) == at[s] \in {"copy", "send", "wait", "fill", "commit"}

InFlight == {i \in Descs : bd[i].ready}

\* The frames in the ring, the oldest first.
InRing ==
  [k \in 1..Cardinality(InFlight) |-> bd[(dmaIdx + k - 1) % NumBD].data]

\* The transmit path is a first-in first-out channel that keeps frames whole and
\* goes on while there is room, as long as no two threads overlap where only one
\* may be: the buffer for chains (enet_get_tx_buffer) and ENET_SendFrame.
Channel == INSTANCE TxChannel WITH
  Capacity <- NumBD,
  NoFrame <- "none",
  sending <- [s \in Senders |-> IF Sending(s) THEN pbuf[s].data ELSE "none"],
  channel <- InRing,
  damaged <- overlap

IsChannel == Channel!Spec

\* A thread that waits for the flag (enet_send_frame) has somebody who will set it -
\* a controller that is not waiting itself, an interrupt or a thread on its way - though
\* one event stands for many frames, and one thread takes the flag from all that wait.
WaiterHasWaker ==
  (~overlap /\ \E s \in Senders : at[s] = "wait") =>
    \/ bd[dmaIdx].ready \/ txEvent \/ txFlag
    \/ \E s \in Senders : at[s] \in {"send", "fill", "commit"}

\* A call of ethernetif_linkoutput returns once the others have stopped calling,
\* unless threads overlapped before.
SendReturns ==
  \A s \in Senders :
    <>[](\A t \in Senders \ {s} : at[t] = "idle") => (at[s] # "idle" ~> at[s] = "idle" \/ overlap)

\* Whoever is in linkoutput holds the core lock: the assertion of
\* sys_check_core_locking (sys_arch.zig:254-266).
CoreLocked == \A s \in Senders : at[s] # "idle" => coreLock = s
=============================================================================
