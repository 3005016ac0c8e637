------------------------------- MODULE EthRx -------------------------------
(***************************************************************************)
(* The receive path of the Ethernet driver                                 *)
(* (board/frdmmcxe247/board/ethernet): a ring of descriptors that the      *)
(* controller fills, a pool of buffers that travel from the ring to lwIP   *)
(* without being copied and back, the receive interrupt, and the task that *)
(* drains the ring.                                                        *)
(*                                                                         *)
(* The controller, the interrupt, the receive task and the threads that    *)
(* free a pbuf run in any order.  rx_alloc and rx_free switch interrupts   *)
(* off, so each is a part of one step.  The vendor's driver (fsl_enet) is  *)
(* external: ENET_GetRxFrame swaps the buffer of a good frame for a new    *)
(* one, and gives a descriptor it cannot pass on back to the controller.   *)
(***************************************************************************)
EXTENDS Naturals, FiniteSets

CONSTANTS
  NumBD,    \* ENET_RXBD_NUM: descriptors in the ring
  NumBuf    \* ENET_RXBUFF_NUM: buffers in the pool

\* The preprocessor checks of the driver, one buffer being enough for a frame.
ASSUME NumBDAssumption == NumBD \in Nat \ {0}
ASSUME NumBufAssumption == NumBuf \in Nat /\ NumBuf >= NumBD + 1

VARIABLES
  bd,         \* the ring: each descriptor's buffer and what is in it
  dmaIdx,     \* the descriptor the controller fills next
  rxGenIdx,   \* the descriptor the driver reads next
  used,       \* RxPbufs[i].buffer_used
  rxInt,      \* the receive interrupt is enabled
  rxEvent,    \* the controller's event bit, set by a frame
  rxFlag,     \* the thread flag of the receive task
  task,       \* where the receive task is
  listed,     \* the interface is in lwIP's netif_list
  early,      \* history: the last drain ended before the ring was empty, or
              \* there was none although the flag was set
  hand,       \* the buffer of the pbuf the receive task passes on
  lwip        \* the buffers of the pbufs lwIP holds or is asked to free

ring == <<bd, dmaIdx, rxGenIdx>>
irq == <<rxInt, rxEvent>>
vars == <<ring, used, irq, rxFlag, task, listed, early, hand, lwip>>

Descs == 0..(NumBD - 1)
Buffers == 0..(NumBuf - 1)
Frames == {"none", "good", "bad"}

NextDesc(i) == (i + 1) % NumBD

\* The end of ethernetif_plat_init: ENET_Init has taken a buffer for each
\* descriptor from the pool, and ENET_ActiveRead starts the controller.
Init ==
  /\ bd = [i \in Descs |-> [buffer |-> i, frame |-> "none"]]
  /\ dmaIdx = 0
  /\ rxGenIdx = 0
  /\ used = [b \in Buffers |-> b \in Descs]
  /\ rxInt = TRUE
  /\ rxEvent = FALSE
  /\ rxFlag = FALSE
  /\ task = "wait"
  /\ listed = FALSE
  /\ early = FALSE
  /\ hand = {}
  /\ lwip = {}

-----------------------------------------------------------------------------
(* The controller and its interrupt.                                       *)

FrameArrives(frame) ==
  /\ bd[dmaIdx].frame = "none"
  /\ bd' = [bd EXCEPT ![dmaIdx].frame = frame]
  /\ dmaIdx' = NextDesc(dmaIdx)
  /\ rxEvent' = TRUE
  /\ UNCHANGED <<rxGenIdx, used, rxInt, rxFlag, task, early, hand, lwip, listed>>

\* Fault: a task that is busy is not told.
RxInterrupt_OnlyIfWaiting ==
  /\ rxInt /\ rxEvent
  /\ rxEvent' = FALSE
  /\ rxFlag' = (rxFlag \/ task = "wait")
  /\ UNCHANGED <<ring, used, rxInt, task, early, hand, lwip, listed>>

\* The driver's handler clears the event; ethernet_callback and
\* ethernetif_input set the flag of the receive task.
RxInterrupt ==
  /\ rxInt /\ rxEvent
  /\ rxEvent' = FALSE
  /\ rxFlag' = TRUE
  /\ UNCHANGED <<ring, used, rxInt, task, early, hand, lwip, listed>>

-----------------------------------------------------------------------------
(* The pool.                                                               *)

\* Fault: the search goes on past the last buffer.
FreeBuffers_OneMore == {b \in 0..NumBuf : b = NumBuf \/ ~used[b]}

FreeBuffers == {b \in Buffers : ~used[b]}

\* ethernetif_rx_alloc with free buffers: it returns the first.
RxAlloc(b) ==
  /\ \A c \in FreeBuffers : b <= c
  /\ used' = [used EXCEPT ![b] = TRUE]
  /\ UNCHANGED rxInt

\* ethernetif_rx_alloc without: no interrupts until a buffer is freed.
RxAllocFails ==
  /\ FreeBuffers = {}
  /\ rxInt' = FALSE
  /\ UNCHANGED used

\* Fault: interrupts stay off.
RxFree_NoEnable(b) ==
  /\ used' = [used EXCEPT ![b] = FALSE]
  /\ UNCHANGED rxInt

\* ethernetif_rx_free.
RxFree(b) ==
  /\ used' = [used EXCEPT ![b] = FALSE]
  /\ rxInt' = TRUE

-----------------------------------------------------------------------------
(* The receive task.                                                       *)

\* osThreadFlagsWait takes the flag, and NETIF_FOREACH finds the interface.
Wake ==
  /\ task = "wait" /\ rxFlag
  /\ listed
  /\ rxFlag' = FALSE
  /\ task' = "read"
  /\ UNCHANGED <<ring, used, irq, early, hand, lwip, listed>>

\* The flag is taken, but netif_add is still in ethernetif_init: the interface
\* is not in the list yet, and the loop over the list passes it by.
WakeUnlisted ==
  /\ task = "wait" /\ rxFlag
  /\ ~listed
  /\ rxFlag' = FALSE
  /\ early' = TRUE
  /\ UNCHANGED <<ring, used, irq, task, hand, lwip, listed>>

Reading(frame) == task = "read" /\ bd[rxGenIdx].frame = frame

\* No pbuf: the loop of fetch_received_pkts ends.
EndDrain(isEarly) ==
  /\ task' = "drained"
  /\ early' = isEarly
  /\ UNCHANGED <<dmaIdx, rxEvent, rxFlag, hand, lwip, listed>>

\* Descriptor rxGenIdx goes back to the controller, with buffer b.
Rearm(b) ==
  /\ bd' = [bd EXCEPT ![rxGenIdx] = [buffer |-> b, frame |-> "none"]]
  /\ rxGenIdx' = NextDesc(rxGenIdx)

\* kStatus_ENET_RxFrameEmpty
ReadEmpty ==
  /\ Reading("none")
  /\ EndDrain(FALSE)
  /\ UNCHANGED <<bd, rxGenIdx, used, rxInt>>

\* Fault: the error frame is left where it is, and read again.
ReadError_Again ==
  /\ Reading("bad")
  /\ UNCHANGED vars

\* kStatus_ENET_RxFrameError: no pbuf, as for an empty ring.
ReadError ==
  /\ Reading("bad")
  /\ Rearm(bd[rxGenIdx].buffer)
  /\ EndDrain(TRUE)
  /\ UNCHANGED <<used, rxInt>>

\* kStatus_ENET_RxFrameDrop: no new buffer, the frame is lost, no pbuf.
ReadDrop ==
  /\ Reading("good")
  /\ RxAllocFails
  /\ Rearm(bd[rxGenIdx].buffer)
  /\ EndDrain(TRUE)

\* kStatus_Success: a new buffer for the descriptor, the old one in a pbuf.
ReadFrame ==
  /\ Reading("good")
  /\ \E b \in FreeBuffers : RxAlloc(b) /\ Rearm(b)
  /\ task' = "input"
  /\ hand' = {bd[rxGenIdx].buffer}
  /\ UNCHANGED <<dmaIdx, rxEvent, rxFlag, early, lwip, listed>>

\* netif->input takes the pbuf.
InputTakes ==
  /\ task = "input"
  /\ task' = "read"
  /\ lwip' = lwip \cup hand
  /\ hand' = {}
  /\ UNCHANGED <<ring, used, irq, rxFlag, early, listed>>

\* Fault: a refused pbuf is forgotten.
InputRefuses_Leaks ==
  /\ task = "input"
  /\ task' = "read"
  /\ hand' = {}
  /\ UNCHANGED <<ring, used, irq, rxFlag, early, lwip, listed>>

\* netif->input returns an error: the pbuf goes to ethernetif_pbuf_free_safe.
InputRefuses ==
  /\ task = "input"
  /\ task' = "freeing"
  /\ UNCHANGED <<ring, used, irq, rxFlag, early, hand, lwip, listed>>

\* ethernetif_pbuf_free_safe asks lwIP's thread to free the pbuf: it is lwIP's
\* from here on.
FreePosted ==
  /\ task = "freeing"
  /\ task' = "read"
  /\ lwip' = lwip \cup hand
  /\ hand' = {}
  /\ UNCHANGED <<ring, used, irq, rxFlag, early, listed>>

\* tcpip_callback has no message left: sys_msleep(1), and once more.
FreeFails ==
  /\ task = "freeing"
  /\ task' = "sleeping"
  /\ UNCHANGED <<ring, used, irq, rxFlag, early, hand, lwip, listed>>

SleepEnds ==
  /\ task = "sleeping"
  /\ task' = "freeing"
  /\ UNCHANGED <<ring, used, irq, rxFlag, early, hand, lwip, listed>>

\* Back to osThreadFlagsWait.
WaitAgain ==
  /\ task = "drained"
  /\ task' = "wait"
  /\ UNCHANGED <<ring, used, irq, rxFlag, early, hand, lwip, listed>>

RxTask ==
  \/ Wake \/ WakeUnlisted \/ ReadEmpty \/ ReadError \/ ReadFrame \/ ReadDrop
  \/ InputTakes \/ InputRefuses \/ FreePosted \/ FreeFails \/ SleepEnds
  \/ WaitAgain

\* The last reference to a pbuf goes: ethernetif_rx_release, in any thread.
RxRelease(b) ==
  /\ b \in lwip
  /\ lwip' = lwip \ {b}
  /\ RxFree(b)
  /\ UNCHANGED <<ring, rxEvent, rxFlag, task, early, hand, listed>>

\* netif_add puts the interface into the list once ethernetif_init is back.
NetifListed ==
  /\ ~listed
  /\ listed' = TRUE
  /\ UNCHANGED <<ring, used, irq, rxFlag, task, early, hand, lwip>>

-----------------------------------------------------------------------------
Next ==
  \/ \E frame \in Frames \ {"none"} : FrameArrives(frame)
  \/ RxInterrupt
  \/ RxTask
  \/ \E b \in Buffers : RxRelease(b)
  \/ NetifListed

Spec == Init /\ [][Next]_vars

\* The interrupt and the tasks run, lwIP's thread takes its messages, so that a
\* post tried again and again succeeds, lwIP frees every pbuf in the end, and
\* the network is never silent for good.
Fairness ==
  /\ WF_vars(RxInterrupt)
  /\ WF_vars(RxTask)
  /\ SF_vars(FreePosted)
  /\ WF_vars(NetifListed)
  /\ \A b \in Buffers : WF_vars(RxRelease(b))
  /\ WF_vars(\E frame \in Frames \ {"none"} : FrameArrives(frame))

FairSpec == Spec /\ Fairness

-----------------------------------------------------------------------------
(* Properties.                                                             *)

InRing == {bd[i].buffer : i \in Descs}

\* The type invariant.
TypeOK ==
  /\ bd \in [Descs -> [buffer : Buffers, frame : Frames]]
  /\ dmaIdx \in Descs
  /\ rxGenIdx \in Descs
  /\ used \in [Buffers -> BOOLEAN]
  /\ rxInt \in BOOLEAN /\ rxEvent \in BOOLEAN /\ rxFlag \in BOOLEAN
  /\ task \in {"wait", "read", "input", "freeing", "sleeping", "drained"}
  /\ listed \in BOOLEAN /\ early \in BOOLEAN
  /\ hand \subseteq Buffers
  /\ lwip \subseteq Buffers

\* Every buffer is in one place: the controller never writes into a buffer
\* that lwIP reads, two descriptors never share one, none is lost, and the
\* assertion of rx_free (enet_ethernetif_kinetis.c:372) holds.
BuffersConserved ==
  /\ \A i, j \in Descs : bd[i].buffer = bd[j].buffer => i = j
  /\ InRing \cap (hand \cup lwip) = {}
  /\ hand \cap lwip = {}
  /\ \A b \in Buffers : used[b] <=> b \in InRing \cup hand \cup lwip

\* When the driver has switched its interrupt off for lack of buffers, someone
\* holds a buffer whose release switches it on again: the disabling in
\* rx_alloc (:347) and the enabling in rx_free (:376) cannot cross.
NeverDeaf == ~rxInt => hand \cup lwip # {}

\* A frame in the ring is never forgotten between the task's last look at the
\* ring and its wait, unless that look was cut short or missed altogether
\* (ethernetif.c:205-225, 239-255, 266-270).
NoLostWakeup ==
  /\ task \in {"drained", "wait"} /\ ~early
  /\ \E i \in Descs : bd[i].frame # "none"
  => rxEvent \/ rxFlag

\* Unless a flag was taken before the interface was listed, every frame in the
\* ring is taken out of it, although an error frame or a lack of buffers ends the
\* drain early (ethernetif.c:205-225, 240-253).
FramesTaken ==
  [](early => listed)
    => \A i \in Descs : bd[i].frame # "none" ~> bd[i].frame = "none"
=============================================================================
