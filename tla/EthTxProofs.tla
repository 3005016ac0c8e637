---------------------------- MODULE EthTxProofs ----------------------------
(***************************************************************************)
(* Proofs about the transmit path, for any threads and frames and a ring   *)
(* of any size.                                                            *)
(*                                                                         *)
(* A thread that waits for a descriptor relies on the controller, and what *)
(* says that the controller is at work is the shape of the ring: the ready *)
(* descriptors follow each other from dmaIdx to txGenIdx.  That holds only *)
(* while one thread at a time is in the driver.                            *)
(***************************************************************************)
EXTENDS EthTx, Integers, FiniteSetTheorems, SequenceTheorems, TLAPS

-----------------------------------------------------------------------------
(* Types.                                                                  *)

USE DEF Places, Senders, Goes

\* Which steps a call begins with.
LEMMA CallPlaces ==
  ASSUME NEW s \in Senders, NEW p \in Pbufs, LinkOutput(s, p), TypeOK
  PROVE  at[s] = "idle" /\ \E q \in {"copy", "send", "return"} : at' = [at EXCEPT ![s] = q]
<1>1. p.kind \in {"single", "chain", "long"}
  BY DEF Pbufs, TooLong
<1>2. CASE p.kind = "chain"
  BY <1>2 DEF LinkOutput
<1>3. CASE p.kind = "single"
  BY <1>3 DEF LinkOutput
<1>4. CASE p.kind = "long"
  BY <1>4 DEF LinkOutput
<1> QED BY <1>1, <1>2, <1>3, <1>4

LEMMA PbufData == \A p \in Pbufs \cup {NoPbuf} : p.data \in Frames \cup {"none"}
  BY DEF Pbufs, TooLong, NoPbuf

LEMMA ZeroIsDesc == 0 \in Descs
  BY NumBDAssumption DEF Descs

LEMMA NextIsDesc ==
  ASSUME NEW i \in Descs
  PROVE  NextDesc(i) \in Descs /\ NextDesc(i) = IF i = NumBD - 1 THEN 0 ELSE i + 1
  BY NumBDAssumption, SMT DEF NextDesc, Descs

LEMMA TypesInitially == Init => TypeOK
<1> SUFFICES ASSUME Init PROVE TypeOK
  OBVIOUS
<1>1. bd \in [Descs -> [ready : BOOLEAN, data : Frames \cup {"none"}]]
  BY DEF Init, Empty
<1>2. \A s \in Locked : coreLock = s <=> at[s] # "idle"
  BY SendersAssumption DEF Init
<1>3. pbuf \in [Senders -> Pbufs \cup {NoPbuf}] /\ slot \in [Senders -> Descs]
  BY ZeroIsDesc DEF Init
<1> QED BY <1>1, <1>2, <1>3, ZeroIsDesc DEF Init, TypeOK

LEMMA TypesStep == TypeOK /\ [Next]_vars => TypeOK'
<1> SUFFICES ASSUME TypeOK, [Next]_vars PROVE TypeOK'
  OBVIOUS
<1> USE SendersAssumption DEF TypeOK, ring, irq, thread
<1>1. ASSUME NEW s \in Senders, NEW p \in Pbufs, LinkOutput(s, p), Watched
      PROVE  TypeOK'
  <2>1. PICK q \in {"copy", "send", "return"} : at' = [at EXCEPT ![s] = q]
    BY <1>1, CallPlaces
  <2>2. at[s] = "idle" /\ at' \in [Senders -> Places]
    BY <1>1, <2>1, CallPlaces
  <2>3. pbuf' \in [Senders -> Pbufs \cup {NoPbuf}]
    BY <1>1 DEF LinkOutput
  <2>4. coreLock' \in Locked \cup {"nobody"} /\ \A t \in Locked : coreLock' = t <=> at'[t] # "idle"
    <3>1. CASE s \in Locked
      <4>1. coreLock = "nobody" /\ coreLock' = s
        BY <1>1, <3>1 DEF LinkOutput
      <4> QED BY <2>1, <3>1, <4>1
    <3>2. CASE s \notin Locked
      <4>1. coreLock' = coreLock
        BY <1>1, <3>2 DEF LinkOutput
      <4> QED BY <2>1, <3>2, <4>1
    <3> QED BY <3>1, <3>2
  <2>5. overlap' \in BOOLEAN
    BY <1>1 DEF Watched, Clash
  <2> QED BY <1>1, <2>2, <2>3, <2>4, <2>5 DEF LinkOutput
<1>2. ASSUME NEW s \in Senders, Sends(s) PROVE TypeOK'
  <2>1. overlap' \in BOOLEAN
    BY <1>2 DEF Sends, Watched, Clash
  <2>2. CASE CopyChain(s)
    <3>1. ucBuffer' \in Frames \cup {"none"}
      BY <2>2, PbufData DEF CopyChain
    <3> QED BY <2>1, <2>2, <3>1 DEF CopyChain
  <2>3. CASE LookForDesc(s)
    <3>1. slot' \in [Senders -> Descs] /\ at[s] = "send"
      BY <2>3 DEF LookForDesc
    <3>2. PICK q \in {"wait", "fill"} : at' = [at EXCEPT ![s] = q]
      BY <2>3 DEF LookForDesc
    <3> QED BY <2>1, <2>3, <3>1, <3>2 DEF LookForDesc
  <2>4. CASE WaitForFlag(s)
    BY <2>1, <2>4 DEF WaitForFlag
  <2>5. CASE FillDesc(s)
    <3>1. PICK d \in Frames \cup {"none"} : bd' = [bd EXCEPT ![slot[s]].data = d]
      BY <2>5, PbufData DEF FillDesc
    <3>2. bd' \in [Descs -> [ready : BOOLEAN, data : Frames \cup {"none"}]]
      BY <3>1
    <3> QED BY <2>1, <2>5, <3>2 DEF FillDesc
  <2>6. CASE CommitDesc(s)
    <3>1. bd' \in [Descs -> [ready : BOOLEAN, data : Frames \cup {"none"}]]
      BY <2>6 DEF CommitDesc
    <3>2. txGenIdx' \in Descs /\ slot' \in [Senders -> Descs]
      BY <2>6, ZeroIsDesc, NextIsDesc DEF CommitDesc
    <3> QED BY <2>1, <2>6, <3>1, <3>2 DEF CommitDesc
  <2>7. CASE Return(s)
    <3>1. coreLock' \in Locked \cup {"nobody"} /\ \A t \in Locked : coreLock' = t <=> at'[t] # "idle"
      BY <2>7 DEF Return
    <3> QED BY <2>1, <2>7, <3>1 DEF Return
  <2> QED BY <1>2, <2>2, <2>3, <2>4, <2>5, <2>6, <2>7 DEF Sends
<1>3. CASE ControllerSends
  <2>1. bd' \in [Descs -> [ready : BOOLEAN, data : Frames \cup {"none"}]] /\ dmaIdx' \in Descs
    BY <1>3, NextIsDesc DEF ControllerSends, Empty
  <2> QED BY <1>3, <2>1 DEF ControllerSends
<1>4. CASE TxInterrupt
  BY <1>4 DEF TxInterrupt
<1>5. CASE UNCHANGED vars
  BY <1>5 DEF vars
<1> QED BY <1>1, <1>2, <1>3, <1>4, <1>5 DEF Next

\* The types, and that the core lock is held exactly while its holder sends.
THEOREM TypeCorrectness == Spec => []TypeOK
  BY TypesInitially, TypesStep, PTL DEF Spec

-----------------------------------------------------------------------------
(* The ring.                                                               *)

\* How many steps lead from descriptor `from' to descriptor i, and n steps from i.
Dist(i, from) == IF i >= from THEN i - from ELSE i - from + NumBD
After(i, n) == IF i + n < NumBD THEN i + n ELSE i + n - NumBD

\* The n descriptors from dmaIdx on are ready, the others are not, and the driver
\* goes on behind them.
Holds(n) ==
  /\ txGenIdx = After(dmaIdx, n)
  /\ \A i \in Descs : bd[i].ready <=> Dist(i, dmaIdx) < n

\* A thread in the driver has found the next descriptor, and it is still free.
DriverInv == \A s \in Senders : InDriver(s) => slot[s] = txGenIdx /\ ~bd[txGenIdx].ready

RingInv == (\E n \in 0..NumBD : Holds(n)) /\ DriverInv

\* What holds as long as no two threads were where one may be.
TxInv ==
  ~overlap => RingInv /\ WaiterHasWaker /\ ~Clash

USE DEF InDriver

\* The controller never waits at a descriptor while another is ready, and a ring
\* that is full to the driver is full to the controller.
LEMMA ReadyIsFirst ==
  ASSUME TypeOK, RingInv, NEW i \in Descs, bd[i].ready
  PROVE  bd[dmaIdx].ready
<1>1. PICK n \in 0..NumBD : Holds(n)
  BY DEF RingInv
<1>2. n > 0 /\ Dist(dmaIdx, dmaIdx) = 0
  BY <1>1, NumBDAssumption DEF Holds, TypeOK, Descs, Dist
<1> QED BY <1>1, <1>2 DEF Holds, TypeOK

\* Making the next descriptor ready.
LEMMA CommitHolds ==
  ASSUME TypeOK, DriverInv, NEW n \in 0..NumBD, Holds(n), NEW s \in Senders, CommitDesc(s)
  PROVE  /\ n < NumBD /\ n + 1 \in 0..NumBD /\ Holds(n + 1)'
         /\ slot[s] = txGenIdx /\ txGenIdx \in Descs /\ UNCHANGED dmaIdx
         /\ bd' = [bd EXCEPT ![txGenIdx].ready = TRUE]
<1>1. at[s] = "commit" /\ slot[s] = txGenIdx /\ ~bd[txGenIdx].ready /\ txGenIdx \in Descs
  BY DEF CommitDesc, DriverInv, TypeOK
<1>2. /\ bd' = [bd EXCEPT ![txGenIdx].ready = TRUE]
      /\ dmaIdx' = dmaIdx /\ txGenIdx' = NextDesc(txGenIdx) /\ bd'[txGenIdx].ready
      /\ \A i \in Descs : i # txGenIdx => bd'[i].ready = bd[i].ready
  <2>1. /\ bd' = [bd EXCEPT ![txGenIdx].ready = TRUE]
        /\ dmaIdx' = dmaIdx /\ txGenIdx' = NextDesc(txGenIdx)
    BY <1>1 DEF CommitDesc
  <2> QED BY <1>1, <2>1 DEF TypeOK
<1>3. n < NumBD /\ Dist(txGenIdx, dmaIdx) = n
  BY <1>1, NumBDAssumption DEF Holds, TypeOK, Descs, Dist, After
<1>4. \A i \in Descs : i # txGenIdx => Dist(i, dmaIdx) # n
  BY <1>3, NumBDAssumption DEF Holds, TypeOK, Descs, Dist, After
<1>5. txGenIdx' = After(dmaIdx, n + 1)
  <2>1. txGenIdx' = IF txGenIdx = NumBD - 1 THEN 0 ELSE txGenIdx + 1
    BY <1>2, NextIsDesc DEF TypeOK
  <2> QED BY <1>3, <2>1, NumBDAssumption DEF Holds, TypeOK, Descs, After
<1>6. \A i \in Descs : bd'[i].ready <=> Dist(i, dmaIdx) < n + 1
  <2> SUFFICES ASSUME NEW i \in Descs
               PROVE  bd'[i].ready <=> Dist(i, dmaIdx) < n + 1
    OBVIOUS
  <2>1. Dist(i, dmaIdx) \in Nat
    BY NumBDAssumption DEF TypeOK, Descs, Dist
  <2>2. Dist(i, dmaIdx) < n + 1 <=> Dist(i, dmaIdx) < n \/ Dist(i, dmaIdx) = n
    BY <2>1
  <2>3. CASE i = txGenIdx
    BY <1>2, <1>3, <2>2, <2>3
  <2>4. CASE i # txGenIdx
    BY <1>2, <1>4, <2>2, <2>4 DEF Holds
  <2> QED BY <2>3, <2>4
<1>7. n + 1 \in 0..NumBD /\ Holds(n + 1)'
  BY <1>2, <1>3, <1>5, <1>6, NumBDAssumption DEF Holds, Dist, After
<1> QED BY <1>1, <1>2, <1>3, <1>7

LEMMA CommitKeepsRing ==
  ASSUME TypeOK, RingInv, ~Clash, NEW s \in Senders, CommitDesc(s)
  PROVE  RingInv' /\ bd'[dmaIdx'].ready
<1>1. PICK n \in 0..NumBD : Holds(n)
  BY DEF RingInv
<1>2. n + 1 \in 0..NumBD /\ Holds(n + 1)' /\ UNCHANGED dmaIdx
  BY <1>1, CommitHolds DEF RingInv
<1>3. \A t \in Senders : ~(InDriver(t))'
  BY DEF CommitDesc, Clash, TypeOK
<1>4. bd'[dmaIdx'].ready
  <2>1. Dist(dmaIdx, dmaIdx) < n + 1 /\ dmaIdx \in Descs
    BY NumBDAssumption DEF TypeOK, Descs, Dist
  <2> QED BY <1>2, <2>1 DEF Holds
<1> QED BY <1>2, <1>3, <1>4 DEF RingInv, DriverInv

\* A frame leaves.
LEMMA ControllerHolds ==
  ASSUME TypeOK, NEW n \in 0..NumBD, Holds(n), ControllerSends
  PROVE  n >= 1 /\ n - 1 \in 0..NumBD /\ Holds(n - 1)'
<1>1. /\ bd[dmaIdx].ready /\ dmaIdx' = NextDesc(dmaIdx) /\ ~bd'[dmaIdx].ready
      /\ UNCHANGED txGenIdx
      /\ \A i \in Descs : i # dmaIdx => bd'[i].ready = bd[i].ready
  BY DEF ControllerSends, TypeOK, Empty
<1>2. dmaIdx \in Descs /\ dmaIdx' = IF dmaIdx = NumBD - 1 THEN 0 ELSE dmaIdx + 1
  BY <1>1, NextIsDesc DEF TypeOK
<1>3. n >= 1
  BY <1>1, <1>2, NumBDAssumption DEF Holds, Descs, Dist
<1>4. /\ Dist(dmaIdx, dmaIdx') = NumBD - 1
      /\ \A i \in Descs : i # dmaIdx => Dist(i, dmaIdx') = Dist(i, dmaIdx) - 1
  BY <1>2, NumBDAssumption DEF Descs, Dist
<1>5. txGenIdx' = After(dmaIdx', n - 1)
  BY <1>1, <1>2, <1>3, NumBDAssumption DEF Holds, Descs, After
<1>6. \A i \in Descs : bd'[i].ready <=> Dist(i, dmaIdx') < n - 1
  <2> SUFFICES ASSUME NEW i \in Descs
               PROVE  bd'[i].ready <=> Dist(i, dmaIdx') < n - 1
    OBVIOUS
  <2>1. CASE i = dmaIdx
    BY <1>1, <1>4, <2>1, NumBDAssumption
  <2>2. CASE i # dmaIdx
    <3>1. Dist(i, dmaIdx) \in Int
      BY <1>2, NumBDAssumption DEF Descs, Dist
    <3>2. Dist(i, dmaIdx') < n - 1 <=> Dist(i, dmaIdx) < n
      BY <1>4, <2>2, <3>1
    <3> QED BY <1>1, <2>2, <3>2 DEF Holds
  <2> QED BY <2>1, <2>2
<1> QED BY <1>3, <1>5, <1>6, NumBDAssumption DEF Holds, Dist, After

LEMMA ControllerKeepsRing ==
  ASSUME TypeOK, RingInv, ControllerSends
  PROVE  RingInv'
<1>1. PICK n \in 0..NumBD : Holds(n)
  BY DEF RingInv
<1>2. n - 1 \in 0..NumBD /\ Holds(n - 1)'
  BY <1>1, ControllerHolds
<1>3. DriverInv'
  <2> SUFFICES ASSUME NEW s \in Senders, (InDriver(s))'
               PROVE  slot'[s] = txGenIdx' /\ ~bd'[txGenIdx'].ready
    BY DEF DriverInv
  <2>1. bd[dmaIdx].ready /\ UNCHANGED <<at, slot, txGenIdx>>
        /\ \A i \in Descs : i # dmaIdx => bd'[i].ready = bd[i].ready
    BY DEF ControllerSends, TypeOK, thread
  <2>2. slot[s] = txGenIdx /\ ~bd[txGenIdx].ready
    BY <2>1 DEF RingInv, DriverInv
  <2>3. txGenIdx # dmaIdx /\ txGenIdx \in Descs
    BY <2>1, <2>2 DEF TypeOK
  <2> QED BY <2>1, <2>2, <2>3
<1> QED BY <1>2, <1>3 DEF RingInv

\* The steps that leave the ring alone.
LEMMA SameRing ==
  ASSUME TypeOK, RingInv, UNCHANGED <<txGenIdx, dmaIdx>>,
         \A i \in Descs : bd'[i].ready = bd[i].ready,
         \A s \in Senders : (InDriver(s))' => slot'[s] = txGenIdx /\ ~bd[txGenIdx].ready
  PROVE  RingInv'
<1>1. PICK n \in 0..NumBD : Holds(n)
  BY DEF RingInv
<1>2. Holds(n)'
  BY <1>1 DEF Holds, Dist, After
<1> QED BY <1>2 DEF RingInv, DriverInv, TypeOK

-----------------------------------------------------------------------------
(* No waiting without a waker.                                             *)

LEMMA TxInitially == Init => TxInv
<1> SUFFICES ASSUME Init PROVE RingInv /\ WaiterHasWaker /\ ~Clash
  BY DEF TxInv
<1>1. Holds(0)
  <2>1. \A i \in Descs : ~(Dist(i, 0) < 0) /\ ~bd[i].ready
    BY NumBDAssumption DEF Init, Descs, Dist, Empty
  <2>2. dmaIdx = 0 /\ txGenIdx = After(dmaIdx, 0)
    BY NumBDAssumption DEF Init, After
  <2> QED BY <2>1, <2>2 DEF Holds
<1>2. \A s \in Senders : at[s] = "idle"
  BY DEF Init
<1>3. RingInv
  BY <1>1, <1>2, NumBDAssumption DEF RingInv, DriverInv
<1> QED BY <1>2, <1>3 DEF WaiterHasWaker, Clash, UsesBuffer

\* A thread that looks for a descriptor waits only for a controller at work.
LEMMA LookKeeps ==
  ASSUME TypeOK, RingInv, WaiterHasWaker, ~overlap, NEW s \in Senders, LookForDesc(s)
  PROVE  RingInv' /\ WaiterHasWaker'
<1>1. /\ UNCHANGED <<bd, txGenIdx, dmaIdx, txEvent, txFlag>>
      /\ \A t \in Senders : t # s => at'[t] = at[t] /\ slot'[t] = slot[t]
  BY DEF LookForDesc, ring, irq, TypeOK
<1>2. txGenIdx \in Descs
  BY DEF TypeOK
<1>3. CASE bd[txGenIdx].ready
  <2>1. at' = [at EXCEPT ![s] = "wait"] /\ bd[dmaIdx].ready
    BY <1>2, <1>3, ReadyIsFirst DEF LookForDesc
  <2>2. \A t \in Senders : (InDriver(t))' => slot'[t] = txGenIdx /\ ~bd[txGenIdx].ready
    BY <1>1, <2>1 DEF RingInv, DriverInv, TypeOK
  <2> QED BY <1>1, <2>1, <2>2, SameRing DEF WaiterHasWaker
<1>4. CASE ~bd[txGenIdx].ready
  <2>1. at'[s] = "fill" /\ slot'[s] = txGenIdx
    BY <1>4 DEF LookForDesc, TypeOK
  <2>2. \A t \in Senders : (InDriver(t))' => slot'[t] = txGenIdx /\ ~bd[txGenIdx].ready
    BY <1>1, <1>4, <2>1 DEF RingInv, DriverInv
  <2> QED BY <1>1, <2>1, <2>2, SameRing DEF WaiterHasWaker
<1> QED BY <1>3, <1>4

LEMMA TxStep == TypeOK /\ TxInv /\ [Next]_vars => TxInv'
<1> SUFFICES ASSUME TypeOK, TxInv, [Next]_vars, ~overlap'
             PROVE  RingInv' /\ WaiterHasWaker' /\ ~Clash'
  BY DEF TxInv
<1>1. ASSUME UNCHANGED <<bd, txGenIdx, dmaIdx>>, RingInv,
             \A s \in Senders : (InDriver(s))' => InDriver(s) /\ slot'[s] = slot[s]
      PROVE  RingInv'
  BY <1>1, SameRing DEF RingInv, DriverInv
<1>2. ASSUME NEW s \in Senders, NEW p \in Pbufs, LinkOutput(s, p), Watched
      PROVE  RingInv' /\ WaiterHasWaker' /\ ~Clash'
  <2>1. ~overlap /\ ~Clash' /\ RingInv /\ WaiterHasWaker
    BY <1>2 DEF Watched, TxInv, TypeOK
  <2>2. PICK q \in {"copy", "send", "return"} : at[s] = "idle" /\ at' = [at EXCEPT ![s] = q]
    BY <1>2, CallPlaces
  <2>3. UNCHANGED <<bd, txGenIdx, dmaIdx, txEvent, txFlag, slot>>
    BY <1>2 DEF LinkOutput, ring, irq
  <2>4. \A t \in Senders : at'[t] \in {"send", "wait", "fill", "commit"} /\ t # s => at'[t] = at[t]
    BY <2>2 DEF TypeOK
  <2>5. at'[s] \notin {"wait", "fill", "commit"}
    BY <2>2 DEF TypeOK
  <2>6. RingInv'
    BY <1>1, <2>1, <2>3, <2>4, <2>5
  <2>7. WaiterHasWaker'
    BY <2>1, <2>2, <2>3, <2>4, <2>5 DEF WaiterHasWaker, TypeOK
  <2> QED BY <2>1, <2>6, <2>7
<1>3. ASSUME NEW s \in Senders, Sends(s)
      PROVE  RingInv' /\ WaiterHasWaker' /\ ~Clash'
  <2>1. ~overlap /\ ~Clash /\ ~Clash' /\ RingInv /\ WaiterHasWaker
    BY <1>3 DEF Sends, Watched, TxInv, TypeOK
  <2>2. CASE CopyChain(s)
    BY <1>1, <2>1, <2>2 DEF CopyChain, ring, irq, TypeOK, WaiterHasWaker
  <2>3. CASE LookForDesc(s)
    BY <2>1, <2>3, LookKeeps
  <2>4. CASE WaitForFlag(s)
    BY <1>1, <2>1, <2>4 DEF WaitForFlag, ring, TypeOK, WaiterHasWaker
  <2>5. CASE FillDesc(s)
    <3>1. /\ UNCHANGED <<txGenIdx, dmaIdx, slot>> /\ at[s] = "fill" /\ at'[s] = "commit"
          /\ \A t \in Senders : t # s => at'[t] = at[t]
      BY <2>5 DEF FillDesc, TypeOK
    <3>2. \A i \in Descs : bd'[i].ready = bd[i].ready
      BY <2>5 DEF FillDesc, TypeOK
    <3>3. \A t \in Senders : (InDriver(t))' => slot'[t] = txGenIdx /\ ~bd[txGenIdx].ready
      BY <2>1, <3>1 DEF RingInv, DriverInv
    <3> QED BY <2>1, <3>1, <3>2, <3>3, SameRing DEF WaiterHasWaker
  <2>6. CASE CommitDesc(s)
    BY <2>1, <2>6, CommitKeepsRing DEF WaiterHasWaker
  <2>7. CASE Return(s)
    BY <1>1, <2>1, <2>7 DEF Return, ring, irq, TypeOK, WaiterHasWaker
  <2> QED BY <1>3, <2>1, <2>2, <2>3, <2>4, <2>5, <2>6, <2>7 DEF Sends
<1>4. CASE ControllerSends
  <2>1. RingInv /\ ~Clash /\ overlap' = overlap /\ UNCHANGED thread /\ txEvent'
    BY <1>4 DEF ControllerSends, TxInv
  <2> QED
    BY <1>4, <2>1, ControllerKeepsRing DEF WaiterHasWaker, Clash, UsesBuffer, thread
<1>5. CASE TxInterrupt
  <2>1. RingInv /\ ~Clash /\ UNCHANGED <<ring, thread>> /\ txFlag'
    BY <1>5 DEF TxInterrupt, TxInv
  <2> QED BY <1>1, <2>1 DEF WaiterHasWaker, Clash, UsesBuffer, thread, ring
<1>6. CASE UNCHANGED vars
  <2>1. RingInv /\ WaiterHasWaker /\ ~Clash /\ UNCHANGED <<ring, irq, thread, overlap>>
    BY <1>6 DEF vars, TxInv
  <2> QED BY <1>1, <2>1 DEF WaiterHasWaker, Clash, UsesBuffer, thread, ring, irq
<1> QED BY <1>2, <1>3, <1>4, <1>5, <1>6 DEF Next

\* Whoever waits for a descriptor has somebody who will wake it, for any number of
\* threads and any ring (enet_ethernetif_kinetis.c:718-737, 252-271).
THEOREM WaiterHasWakerHolds == Spec => []WaiterHasWaker
<1>1. TypeOK /\ TxInv /\ [Next]_vars => TxInv'
  BY TxStep
<1>2. TxInv => WaiterHasWaker
  BY DEF TxInv, WaiterHasWaker
<1> QED BY <1>1, <1>2, TxInitially, TypeCorrectness, PTL DEF Spec

-----------------------------------------------------------------------------
(* The path is a channel.                                                  *)

\* What is on its way is what its sender was given: the copy of a chain until it
\* is in a descriptor, and the descriptor until it is ready.
DataInv ==
  /\ \A s \in Senders : Sending(s) => pbuf[s].data \in Frames
  /\ \A s \in Senders : at[s] = "copy" => pbuf[s].kind = "chain"
  /\ \A s \in Senders : UsesBuffer(s) => ucBuffer = pbuf[s].data
  /\ \A s \in Senders : at[s] = "commit" => bd[slot[s]].data = pbuf[s].data

ChanInv == ~overlap => DataInv

LEMMA ChanInitially == Init => ChanInv
  BY DEF Init, ChanInv, DataInv, Sending, UsesBuffer

LEMMA ChanStep == TypeOK /\ TxInv /\ ChanInv /\ [Next]_vars => ChanInv'
<1> SUFFICES ASSUME TypeOK, TxInv, ChanInv, [Next]_vars, ~overlap'
             PROVE  DataInv'
  BY DEF ChanInv
<1> USE DEF DataInv, Sending
<1>1. ASSUME NEW s \in Senders, NEW p \in Pbufs, LinkOutput(s, p), Watched
      PROVE  DataInv'
  <2>1. ~overlap /\ DataInv
    BY <1>1 DEF Watched, TypeOK, ChanInv
  <2>2. /\ at[s] = "idle" /\ pbuf' = [pbuf EXCEPT ![s] = p] /\ UNCHANGED <<bd, ucBuffer, slot>>
    BY <1>1 DEF LinkOutput, ring
  <2>3. \/ p.kind = "chain" /\ p.data \in Frames /\ at' = [at EXCEPT ![s] = "copy"]
        \/ p.kind = "single" /\ p.data \in Frames /\ at' = [at EXCEPT ![s] = "send"]
        \/ p.kind = "long" /\ at' = [at EXCEPT ![s] = "return"]
    <3>1. \/ p.kind \in {"chain", "single"} /\ p.data \in Frames
          \/ p.kind = "long"
      BY DEF Pbufs, TooLong
    <3>2. CASE p.kind = "chain"
      BY <1>1, <3>1, <3>2 DEF LinkOutput
    <3>3. CASE p.kind = "single"
      BY <1>1, <3>1, <3>3 DEF LinkOutput
    <3>4. CASE p.kind = "long"
      BY <1>1, <3>4 DEF LinkOutput
    <3> QED BY <3>1, <3>2, <3>3, <3>4
  <2>4. \A t \in Senders : t # s => at'[t] = at[t] /\ pbuf'[t] = pbuf[t]
    BY <2>2, <2>3 DEF TypeOK
  <2>5. pbuf'[s] = p
    BY <2>2 DEF TypeOK
  <2>6. \/ p.kind = "chain" /\ p.data \in Frames /\ at'[s] = "copy"
        \/ p.kind = "single" /\ p.data \in Frames /\ at'[s] = "send"
        \/ p.kind = "long" /\ at'[s] = "return"
    BY <2>3 DEF TypeOK
  <2> QED BY <2>1, <2>2, <2>4, <2>5, <2>6 DEF UsesBuffer
<1>2. ASSUME NEW s \in Senders, Sends(s)
      PROVE  DataInv'
  <2>1. ~overlap /\ DataInv /\ ~Clash /\ ~Clash' /\ RingInv
    BY <1>2 DEF Sends, Watched, TypeOK, ChanInv, TxInv
  <2>2. CASE CopyChain(s)
    <3>1. /\ at[s] = "copy" /\ at'[s] = "send" /\ ucBuffer' = pbuf[s].data
          /\ \A t \in Senders : t # s => at'[t] = at[t]
          /\ UNCHANGED <<bd, pbuf, slot>>
      BY <2>2 DEF CopyChain, ring, TypeOK
    <3>2. (UsesBuffer(s))'
      BY <2>1, <3>1 DEF UsesBuffer
    <3>3. \A t \in Senders : (UsesBuffer(t))' => t = s
      BY <2>1, <3>2 DEF Clash
    <3> QED BY <2>1, <3>1, <3>3
  <2>3. CASE LookForDesc(s)
    <3>1. /\ at[s] = "send" /\ at'[s] \in {"wait", "fill"}
          /\ \A t \in Senders : t # s => at'[t] = at[t] /\ slot'[t] = slot[t]
          /\ UNCHANGED <<bd, pbuf, ucBuffer>>
      BY <2>3 DEF LookForDesc, ring, TypeOK
    <3> QED BY <2>1, <3>1 DEF UsesBuffer
  <2>4. CASE WaitForFlag(s)
    <3>1. /\ at[s] = "wait" /\ at'[s] = "send"
          /\ \A t \in Senders : t # s => at'[t] = at[t]
          /\ UNCHANGED <<bd, pbuf, ucBuffer, slot>>
      BY <2>4 DEF WaitForFlag, ring, TypeOK
    <3> QED BY <2>1, <3>1 DEF UsesBuffer
  <2>5. CASE FillDesc(s)
    <3>1. /\ at[s] = "fill" /\ at'[s] = "commit"
          /\ \A t \in Senders : t # s => at'[t] = at[t]
          /\ UNCHANGED <<pbuf, ucBuffer, slot>>
      BY <2>5 DEF FillDesc, TypeOK
    <3>2. bd'[slot[s]].data = pbuf[s].data
      <4>1. slot[s] \in Descs
            /\ bd'[slot[s]].data = IF pbuf[s].kind = "chain" THEN ucBuffer ELSE pbuf[s].data
        BY <2>5 DEF FillDesc, TypeOK
      <4> QED BY <2>1, <3>1, <4>1 DEF UsesBuffer
    <3>3. \A t \in Senders : at'[t] = "commit" => t = s
      BY <2>1, <3>1 DEF Clash
    <3> QED BY <2>1, <3>1, <3>2, <3>3 DEF UsesBuffer
  <2>6. CASE CommitDesc(s)
    <3>1. /\ at[s] = "commit" /\ at'[s] = "return"
          /\ \A t \in Senders : t # s => at'[t] = at[t]
          /\ UNCHANGED <<pbuf, ucBuffer>>
      BY <2>6 DEF CommitDesc, TypeOK
    <3>2. \A t \in Senders : at'[t] # "commit"
      BY <2>1, <3>1 DEF Clash
    <3> QED BY <2>1, <3>1, <3>2 DEF UsesBuffer
  <2>7. CASE Return(s)
    <3>1. /\ at[s] = "return" /\ at'[s] = "idle"
          /\ \A t \in Senders : t # s => at'[t] = at[t] /\ pbuf'[t] = pbuf[t]
          /\ UNCHANGED <<bd, ucBuffer, slot>>
      BY <2>7 DEF Return, ring, TypeOK
    <3> QED BY <2>1, <3>1 DEF UsesBuffer
  <2> QED BY <1>2, <2>2, <2>3, <2>4, <2>5, <2>6, <2>7 DEF Sends
<1>3. CASE ControllerSends
  <2>1. ~overlap /\ DataInv /\ RingInv /\ bd[dmaIdx].ready
        /\ UNCHANGED <<at, pbuf, slot, ucBuffer>>
        /\ \A i \in Descs : i # dmaIdx => bd'[i] = bd[i]
    BY <1>3 DEF ControllerSends, TypeOK, ChanInv, TxInv, thread
  <2>2. \A s \in Senders : at[s] = "commit" => slot[s] \in Descs /\ slot[s] # dmaIdx
    BY <2>1 DEF RingInv, DriverInv, TypeOK
  <2> QED BY <2>1, <2>2 DEF UsesBuffer
<1>4. CASE TxInterrupt
  <2>1. ~overlap /\ DataInv /\ UNCHANGED <<at, pbuf, slot, ucBuffer, bd>>
    BY <1>4 DEF TxInterrupt, TypeOK, ChanInv, thread, ring
  <2> QED BY <2>1 DEF UsesBuffer
<1>5. CASE UNCHANGED vars
  <2>1. ~overlap /\ DataInv /\ UNCHANGED <<at, pbuf, slot, ucBuffer, bd>>
    BY <1>5 DEF vars, TypeOK, ChanInv, thread, ring
  <2> QED BY <2>1 DEF UsesBuffer
<1> QED BY <1>1, <1>2, <1>3, <1>4, <1>5 DEF Next

\* The k-th descriptor from dmaIdx on, with and without a modulus.
LEMMA ModIsAfter ==
  ASSUME NEW d \in Descs, NEW k \in 0..NumBD - 1
  PROVE  (d + k) % NumBD = After(d, k) /\ After(d, k) \in Descs
<1>1. d \in Nat /\ d < NumBD /\ k \in Nat /\ k < NumBD /\ NumBD \in Nat /\ NumBD > 0
  BY NumBDAssumption DEF Descs
<1>2. CASE d + k < NumBD
  BY <1>1, <1>2 DEF After, Descs
<1>3. CASE d + k >= NumBD
  <2>1. d + k - NumBD \in 0..NumBD - 1
    BY <1>1, <1>3
  <2>2. (d + k) % NumBD = d + k - NumBD
    BY <1>1, <1>3, <2>1
  <2> QED BY <1>1, <1>3, <2>1, <2>2 DEF After, Descs
<1> QED BY <1>1, <1>2, <1>3

\* The n frames in the ring, read from the descriptors one after the other.
FromRing(n) == [k \in 1..n |-> bd[After(dmaIdx, k - 1)].data]

LEMMA InRingIsFromRing ==
  ASSUME TypeOK, NEW n \in 0..NumBD, Holds(n)
  PROVE  InRing = FromRing(n)
<1>1. /\ NumBD \in Nat \ {0} /\ dmaIdx \in Descs /\ n \in Nat
      /\ \A k \in 1..n : k - 1 \in 0..NumBD - 1
  BY NumBDAssumption DEF TypeOK
<1>2. Cardinality(InFlight) = n
  <2> DEFINE f == [k \in 1..n |-> After(dmaIdx, k - 1)]
  <2>1. \A k \in 1..n : f[k] \in Descs /\ Dist(f[k], dmaIdx) = k - 1
    BY <1>1 DEF After, Dist, Descs
  <2>2. f \in [1..n -> InFlight]
    <3>1. \A k \in 1..n : f[k] \in InFlight
      BY <1>1, <2>1 DEF InFlight, Holds
    <3> QED BY <3>1
  <2>3. \A j, k \in 1..n : f[j] = f[k] => j = k
    BY <1>1, <2>1
  <2>4. ASSUME NEW i \in InFlight PROVE \E k \in 1..n : f[k] = i
    <3>1. i \in Descs /\ Dist(i, dmaIdx) < n
      BY <2>4 DEF InFlight, Holds
    <3>2. Dist(i, dmaIdx) + 1 \in 1..n /\ After(dmaIdx, Dist(i, dmaIdx)) = i
      BY <1>1, <3>1 DEF Dist, After, Descs
    <3>3. (Dist(i, dmaIdx) + 1) - 1 = Dist(i, dmaIdx)
      BY <1>1, <3>1 DEF Dist, Descs
    <3> QED BY <3>2, <3>3
  <2>5. f \in Bijection(1..n, InFlight)
    <3> HIDE DEF f
    <3>1. f \in Injection(1..n, InFlight)
      BY <2>2, <2>3 DEF Injection, IsInjective
    <3>2. f \in Surjection(1..n, InFlight)
      BY <2>2, <2>4 DEF Surjection
    <3> QED BY <3>1, <3>2 DEF Bijection
  <2>6. ExistsBijection(1..n, InFlight)
    BY <2>5 DEF ExistsBijection
  <2> QED BY <1>1, <2>6, FS_CountingElements
<1>3. \A k \in 1..n : (dmaIdx + k - 1) % NumBD = After(dmaIdx, k - 1)
  <2> SUFFICES ASSUME NEW k \in 1..n
               PROVE  (dmaIdx + k - 1) % NumBD = After(dmaIdx, k - 1)
    OBVIOUS
  <2>1. dmaIdx + k - 1 = dmaIdx + (k - 1)
    BY <1>1 DEF Descs
  <2> QED BY <1>1, <2>1, ModIsAfter
<1> QED BY <1>2, <1>3 DEF InRing, FromRing

Contents == Frames \cup {"none"}

LEMMA FromRingIsSeq ==
  ASSUME TypeOK, NEW n \in 0..NumBD
  PROVE  FromRing(n) \in Seq(Contents) /\ Len(FromRing(n)) = n
<1>1. \A k \in 1..n : bd[After(dmaIdx, k - 1)].data \in Contents
  <2> SUFFICES ASSUME NEW k \in 1..n
               PROVE  bd[After(dmaIdx, k - 1)].data \in Contents
    OBVIOUS
  <2>1. dmaIdx \in Descs /\ k - 1 \in 0..NumBD - 1
    BY NumBDAssumption DEF TypeOK
  <2>2. After(dmaIdx, k - 1) \in Descs
    BY <2>1, ModIsAfter
  <2> QED BY <2>2 DEF TypeOK, Contents
<1>2. n \in Nat
  BY NumBDAssumption
<1>3. FromRing(n) \in Seq(Contents)
  BY <1>1, <1>2 DEF FromRing
<1>4. DOMAIN FromRing(n) = 1..n
  BY DEF FromRing
<1>5. Len(FromRing(n)) \in Nat /\ DOMAIN FromRing(n) = 1..Len(FromRing(n))
  BY <1>3, LenProperties
<1> QED BY <1>2, <1>3, <1>4, <1>5

\* Both at once, in a form that also speaks of the next state.
RingShown ==
  \A n \in 0..NumBD :
    Holds(n) => InRing = FromRing(n) /\ FromRing(n) \in Seq(Contents) /\ Len(FromRing(n)) = n

LEMMA RingContents == TypeOK => RingShown
  BY InRingIsFromRing, FromRingIsSeq DEF RingShown

\* The step of a sender that makes its frame the last of the ring.
LEMMA CommitHandsOver ==
  ASSUME TypeOK, TypeOK', RingInv, DataInv, NEW s \in Senders, CommitDesc(s)
  PROVE  Len(InRing) < NumBD /\ InRing' = Append(InRing, pbuf[s].data)
<1>1. PICK n \in 0..NumBD : Holds(n)
  BY DEF RingInv
<1>2. /\ n < NumBD /\ n + 1 \in 0..NumBD /\ Holds(n + 1)'
      /\ slot[s] = txGenIdx /\ txGenIdx \in Descs /\ UNCHANGED dmaIdx
      /\ bd' = [bd EXCEPT ![txGenIdx].ready = TRUE]
  BY <1>1, CommitHolds DEF RingInv
<1>3. InRing = FromRing(n) /\ FromRing(n) \in Seq(Contents) /\ Len(FromRing(n)) = n
  BY <1>1, RingContents DEF RingShown
<1>4. RingShown'
  BY RingContents, PTL
<1>5. InRing' = FromRing(n + 1)' /\ FromRing(n + 1)' \in Seq(Contents)
      /\ Len(FromRing(n + 1)') = n + 1
  BY <1>2, <1>4 DEF RingShown
<1>6. /\ dmaIdx \in Descs /\ n \in Nat /\ txGenIdx = After(dmaIdx, n)
      /\ \A i \in Descs : bd'[i].data = bd[i].data
  BY <1>1, <1>2, NumBDAssumption DEF Holds, TypeOK
<1>7. \A k \in 1..n : FromRing(n + 1)'[k] = FromRing(n)[k]
  <2> SUFFICES ASSUME NEW k \in 1..n
               PROVE  FromRing(n + 1)'[k] = FromRing(n)[k]
    OBVIOUS
  <2>1. k \in 1..n + 1 /\ k - 1 \in 0..NumBD - 1
    BY <1>2, <1>6, NumBDAssumption
  <2>2. After(dmaIdx, k - 1) \in Descs
    BY <1>6, <2>1, ModIsAfter
  <2> QED BY <1>2, <1>6, <2>1, <2>2 DEF FromRing, After
<1>8. FromRing(n + 1)'[n + 1] = pbuf[s].data
  <2>1. n + 1 \in 1..n + 1 /\ (n + 1) - 1 = n
    BY <1>6
  <2>2. bd[txGenIdx].data = pbuf[s].data
    BY <1>2 DEF DataInv, CommitDesc
  <2> QED BY <1>2, <1>6, <2>1, <2>2 DEF FromRing, After
<1>9. pbuf[s].data \in Contents
  BY PbufData DEF TypeOK, Contents
<1>10. /\ Append(InRing, pbuf[s].data) \in Seq(Contents)
       /\ Len(Append(InRing, pbuf[s].data)) = n + 1
       /\ \A k \in 1..n : Append(InRing, pbuf[s].data)[k] = FromRing(n)[k]
       /\ Append(InRing, pbuf[s].data)[n + 1] = pbuf[s].data
  BY <1>3, <1>9, AppendProperties
<1>11. \A k \in 1..n + 1 : InRing'[k] = Append(InRing, pbuf[s].data)[k]
  BY <1>5, <1>6, <1>7, <1>8, <1>10
<1>12. InRing' = Append(InRing, pbuf[s].data)
  BY <1>5, <1>10, <1>11, SeqEqual
<1> QED BY <1>2, <1>3, <1>12

\* The controller takes the first of the ring.
LEMMA ControllerTakesFirst ==
  ASSUME TypeOK, TypeOK', RingInv, ControllerSends
  PROVE  InRing # <<>> /\ InRing' = Tail(InRing)
<1>1. PICK n \in 0..NumBD : Holds(n)
  BY DEF RingInv
<1>2. n >= 1 /\ n - 1 \in 0..NumBD /\ Holds(n - 1)' /\ n \in Nat /\ n <= NumBD
  BY <1>1, ControllerHolds, NumBDAssumption
<1>3. InRing = FromRing(n) /\ FromRing(n) \in Seq(Contents) /\ Len(FromRing(n)) = n
  BY <1>1, RingContents DEF RingShown
<1>4. RingShown'
  BY RingContents, PTL
<1>5. InRing' = FromRing(n - 1)' /\ FromRing(n - 1)' \in Seq(Contents)
      /\ Len(FromRing(n - 1)') = n - 1
  BY <1>2, <1>4 DEF RingShown
<1>6. InRing # <<>>
  BY <1>2, <1>3, EmptySeq
<1>7. /\ Tail(InRing) \in Seq(Contents) /\ Len(Tail(InRing)) = n - 1
      /\ \A k \in 1..n - 1 : Tail(InRing)[k] = InRing[k + 1]
  BY <1>3, <1>6, HeadTailProperties
<1>8. /\ dmaIdx \in Descs /\ dmaIdx' \in Descs
      /\ dmaIdx' = IF dmaIdx = NumBD - 1 THEN 0 ELSE dmaIdx + 1
      /\ \A i \in Descs : i # dmaIdx => bd'[i] = bd[i]
  BY NextIsDesc DEF ControllerSends, TypeOK
<1>9. \A k \in 1..n - 1 : InRing'[k] = InRing[k + 1]
  <2> SUFFICES ASSUME NEW k \in 1..n - 1
               PROVE  InRing'[k] = InRing[k + 1]
    OBVIOUS
  <2>1. /\ k \in Nat /\ k \in 1..NumBD - 1 /\ k + 1 \in 1..n /\ (k + 1) - 1 = k
    BY <1>2, NumBDAssumption
  <2>2. After(dmaIdx', k - 1) = After(dmaIdx, k) /\ After(dmaIdx, k) # dmaIdx
    BY <1>8, <2>1, NumBDAssumption DEF After, Descs
  <2>3. After(dmaIdx, k) \in Descs
    BY <1>8, <2>1, ModIsAfter
  <2>4. InRing'[k] = bd'[After(dmaIdx', k - 1)].data
    BY <1>5 DEF FromRing, After
  <2>5. InRing[k + 1] = bd[After(dmaIdx, k)].data
    BY <1>3, <2>1 DEF FromRing
  <2> QED BY <1>8, <2>2, <2>3, <2>4, <2>5
<1>10. \A k \in 1..n - 1 : InRing'[k] = Tail(InRing)[k]
  BY <1>7, <1>9
<1>11. InRing' = Tail(InRing)
  BY <1>5, <1>7, <1>10, SeqEqual
<1> QED BY <1>6, <1>11

\* What is written into a descriptor that is not ready does not show.
LEMMA SameContents ==
  ASSUME TypeOK, TypeOK', RingInv, UNCHANGED <<txGenIdx, dmaIdx>>,
         \A i \in Descs : bd'[i].ready = bd[i].ready /\ (bd[i].ready => bd'[i].data = bd[i].data)
  PROVE  InRing' = InRing
<1>1. PICK n \in 0..NumBD : Holds(n)
  BY DEF RingInv
<1>2. Holds(n)'
  BY <1>1 DEF Holds, Dist, After
<1>3. RingShown /\ RingShown'
  BY RingContents, PTL
<1>4. InRing = FromRing(n) /\ InRing' = FromRing(n)'
  BY <1>1, <1>2, <1>3 DEF RingShown
<1>5. \A k \in 1..n : bd'[After(dmaIdx, k - 1)].data = bd[After(dmaIdx, k - 1)].data
  <2> SUFFICES ASSUME NEW k \in 1..n
               PROVE  bd'[After(dmaIdx, k - 1)].data = bd[After(dmaIdx, k - 1)].data
    OBVIOUS
  <2>1. dmaIdx \in Descs /\ k - 1 \in 0..NumBD - 1 /\ n \in Nat
    BY NumBDAssumption DEF TypeOK
  <2>2. After(dmaIdx, k - 1) \in Descs
    BY <2>1, ModIsAfter
  <2>3. Dist(After(dmaIdx, k - 1), dmaIdx) = k - 1 /\ k - 1 < n
    BY <2>1, NumBDAssumption DEF After, Dist, Descs
  <2>4. bd[After(dmaIdx, k - 1)].ready
    BY <1>1, <2>2, <2>3 DEF Holds
  <2> QED BY <2>2, <2>4
<1> QED BY <1>4, <1>5 DEF FromRing, After

\* What the senders are sending, as TxChannel sees it.
Shown == [s \in Senders |-> IF Sending(s) THEN pbuf[s].data ELSE "none"]

\* A step of one sender that is not the beginning or the end of its sending.
LEMMA SameShown ==
  ASSUME NEW s \in Senders, UNCHANGED pbuf, Sending(s), Sending(s)',
         \A t \in Senders : t # s => at'[t] = at[t]
  PROVE  Shown' = Shown
<1>1. \A t \in Senders : Sending(t)' <=> Sending(t)
  BY DEF Sending
<1> QED BY <1>1 DEF Shown

LEMMA ChannelStep ==
  ASSUME TypeOK, TypeOK', TxInv, ChanInv, ~overlap, ~overlap', [Next]_vars
  PROVE  \/ Shown' = Shown /\ InRing' = InRing
         \/ InRing # <<>> /\ InRing' = Tail(InRing) /\ Shown' = Shown
         \/ \E s \in Senders :
              /\ Shown[s] = "none" /\ \E f \in Frames : Shown' = [Shown EXCEPT ![s] = f]
              /\ InRing' = InRing
         \/ \E s \in Senders :
              /\ Shown[s] # "none" /\ Len(InRing) < NumBD
              /\ InRing' = Append(InRing, Shown[s]) /\ Shown' = [Shown EXCEPT ![s] = "none"]
<1> DEFINE Same == Shown' = Shown /\ InRing' = InRing
           Sent(s) == /\ Shown[s] = "none" /\ \E f \in Frames : Shown' = [Shown EXCEPT ![s] = f]
                      /\ InRing' = InRing
           HandedOver(s) ==
             /\ Shown[s] # "none" /\ Len(InRing) < NumBD
             /\ InRing' = Append(InRing, Shown[s]) /\ Shown' = [Shown EXCEPT ![s] = "none"]
<1>1. RingInv /\ DataInv
  BY DEF TxInv, ChanInv
<1>2. ASSUME UNCHANGED ring PROVE InRing' = InRing
  BY <1>2 DEF ring, InRing, InFlight
<1>3. ASSUME NEW s \in Senders, NEW p \in Pbufs, LinkOutput(s, p) PROVE Same \/ Sent(s)
  <2>1. /\ at[s] = "idle" /\ pbuf' = [pbuf EXCEPT ![s] = p] /\ UNCHANGED ring
    BY <1>3 DEF LinkOutput
  <2>2. PICK q \in {"copy", "send", "return"} : at' = [at EXCEPT ![s] = q]
    BY <1>3, CallPlaces
  <2>3. \A t \in Senders : t # s => (Sending(t)' <=> Sending(t)) /\ pbuf'[t] = pbuf[t]
    BY <2>1, <2>2 DEF Sending, TypeOK
  <2>4. Shown[s] = "none" /\ pbuf'[s] = p /\ at'[s] = q
    BY <2>1, <2>2 DEF Shown, Sending, TypeOK
  <2>5. CASE q = "return"
    <3>1. Shown' = Shown
      BY <2>3, <2>4, <2>5 DEF Shown, Sending
    <3> QED BY <1>2, <2>1, <3>1
  <2>6. CASE q # "return"
    <3>1. p.data \in Frames
      <4>1. p.kind # "long"
        BY <1>3, <2>4, <2>6 DEF LinkOutput, TypeOK
      <4> QED BY <4>1 DEF Pbufs, TooLong
    <3>2. Shown' = [Shown EXCEPT ![s] = p.data]
      BY <2>3, <2>4, <2>6 DEF Shown, Sending
    <3> QED BY <1>2, <2>1, <2>4, <3>1, <3>2
  <2> QED BY <2>5, <2>6
<1>4. ASSUME NEW s \in Senders, CopyChain(s) \/ LookForDesc(s) \/ WaitForFlag(s) PROVE Same
  <2>1. /\ UNCHANGED <<ring, pbuf>> /\ Sending(s) /\ Sending(s)'
        /\ \A t \in Senders : t # s => at'[t] = at[t]
    BY <1>4 DEF CopyChain, LookForDesc, WaitForFlag, Sending, TypeOK
  <2> QED BY <1>2, <2>1, SameShown
<1>5. ASSUME NEW s \in Senders, FillDesc(s) PROVE Same
  <2>1. /\ UNCHANGED <<txGenIdx, dmaIdx, pbuf>> /\ Sending(s) /\ Sending(s)'
        /\ \A t \in Senders : t # s => at'[t] = at[t]
    BY <1>5 DEF FillDesc, Sending, TypeOK
  <2>2. slot[s] \in Descs /\ ~bd[slot[s]].ready
    BY <1>1, <1>5 DEF FillDesc, RingInv, DriverInv, TypeOK
  <2>3. \A i \in Descs : bd'[i].ready = bd[i].ready /\ (bd[i].ready => bd'[i].data = bd[i].data)
    BY <1>5, <2>2 DEF FillDesc, TypeOK
  <2> QED BY <1>1, <2>1, <2>3, SameShown, SameContents
<1>6. ASSUME NEW s \in Senders, CommitDesc(s) PROVE HandedOver(s)
  <2>1. Len(InRing) < NumBD /\ InRing' = Append(InRing, pbuf[s].data)
    BY <1>1, <1>6, CommitHandsOver
  <2>2. /\ Sending(s) /\ ~Sending(s)' /\ UNCHANGED pbuf
        /\ \A t \in Senders : t # s => at'[t] = at[t]
    BY <1>6 DEF CommitDesc, Sending, TypeOK
  <2>3. Shown[s] = pbuf[s].data /\ pbuf[s].data # "none"
    BY <1>1, <2>2, FramesAssumption DEF Shown, DataInv
  <2>4. Shown' = [Shown EXCEPT ![s] = "none"]
    BY <2>2 DEF Shown, Sending
  <2> QED BY <2>1, <2>3, <2>4
<1>7. ASSUME NEW s \in Senders, Return(s) PROVE Same
  <2>1. /\ ~Sending(s) /\ ~Sending(s)' /\ UNCHANGED ring
        /\ \A t \in Senders : t # s => at'[t] = at[t] /\ pbuf'[t] = pbuf[t]
    BY <1>7 DEF Return, Sending, TypeOK
  <2>2. Shown' = Shown
    BY <2>1 DEF Shown, Sending
  <2> QED BY <1>2, <2>1, <2>2
<1>8. CASE ControllerSends
  <2>1. Shown' = Shown
    BY <1>8 DEF ControllerSends, thread, Shown, Sending
  <2> QED BY <1>1, <1>8, <2>1, ControllerTakesFirst
<1>9. CASE TxInterrupt \/ UNCHANGED vars
  <2>1. UNCHANGED <<ring, at, pbuf>>
    BY <1>9 DEF TxInterrupt, vars, thread
  <2> QED BY <1>2, <2>1 DEF Shown, Sending
<1> QED BY <1>3, <1>4, <1>5, <1>6, <1>7, <1>8, <1>9 DEF Next, Sends

\* A frame that a thread sends is handed over once and whole and leaves in order, for
\* any threads, any frames and any ring, until callers overlap: every step is one of
\* TxChannel or a stutter (enet_ethernetif_kinetis.c:558-585, 718-789).
THEOREM PathIsChannel == Spec => Channel!Init /\ [][Channel!Next]_(Channel!vars)
<1>1. Init => Channel!Init
  <2> SUFFICES ASSUME Init PROVE Channel!Init
    OBVIOUS
  <2>1. InFlight = {} /\ \A s \in Senders : ~Sending(s)
    BY DEF Init, InFlight, Empty, Sending
  <2>2. InRing = <<>>
    <3>1. Cardinality(InFlight) = 0
      BY <2>1, FS_EmptySet
    <3> QED BY <3>1 DEF InRing
  <2> QED BY <2>1, <2>2 DEF Init, Channel!Init
<1>2. TypeOK /\ TypeOK' /\ TxInv /\ ChanInv /\ [Next]_vars => [Channel!Next]_(Channel!vars)
  <2> SUFFICES ASSUME TypeOK, TypeOK', TxInv, ChanInv, [Next]_vars
               PROVE  [Channel!Next]_(Channel!vars)
    OBVIOUS
  <2>1. CASE overlap'
    BY <2>1 DEF Channel!Next
  <2>2. CASE ~overlap'
    <3>1. ~overlap
      BY <2>2 DEF Next, Sends, Watched, ControllerSends, TxInterrupt, vars, TypeOK
    <3>2. overlap = FALSE /\ overlap' = FALSE /\ Channel!Intact
      BY <2>2, <3>1 DEF TypeOK, Channel!Intact
    <3>3. CASE Shown' = Shown /\ InRing' = InRing
      BY <3>2, <3>3 DEF Channel!vars, Shown
    <3>4. CASE InRing # <<>> /\ InRing' = Tail(InRing) /\ Shown' = Shown
      BY <3>2, <3>4 DEF Channel!Next, Channel!Leave, Shown
    <3>5. ASSUME NEW s \in Senders, Shown[s] = "none", InRing' = InRing,
                 \E f \in Frames : Shown' = [Shown EXCEPT ![s] = f]
          PROVE  Channel!Next
      <4>1. Channel!Send(s)
        BY <3>5 DEF Channel!Send, Shown
      <4> QED BY <3>2, <4>1 DEF Channel!Next
    <3>6. ASSUME NEW s \in Senders, Shown[s] # "none", Len(InRing) < NumBD,
                 InRing' = Append(InRing, Shown[s]), Shown' = [Shown EXCEPT ![s] = "none"]
          PROVE  Channel!Next
      <4>1. Channel!HandOver(s)
        BY <3>6 DEF Channel!HandOver, Shown
      <4> QED BY <3>2, <4>1 DEF Channel!Next
    <3> QED BY <2>2, <3>1, <3>3, <3>4, <3>5, <3>6, ChannelStep
  <2> QED BY <2>1, <2>2
<1> QED BY <1>1, <1>2, TypeCorrectness, TxInitially, TxStep, ChanInitially, ChanStep, PTL DEF Spec
=============================================================================
