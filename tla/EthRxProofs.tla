---------------------------- MODULE EthRxProofs ----------------------------
(***************************************************************************)
(* Proofs that the receive path keeps its buffers, and never switches its  *)
(* interrupt off for good, with a ring and a pool of any size.             *)
(***************************************************************************)
EXTENDS EthRx, FiniteSetTheorems, TLAPS

\* The receive task has a pbuf in hand exactly while it passes it on or has it freed.
HandOfTask ==
  IF task \in {"input", "freeing", "sleeping"}
  THEN \E b \in Buffers : hand = {b}
  ELSE hand = {}

\* The interrupt is off only while the pool is empty.
OffMeansEmpty == ~rxInt => \A b \in Buffers : used[b]

\* The inductive invariant.
IInv ==
  /\ TypeOK
  /\ HandOfTask
  /\ BuffersConserved
  /\ OffMeansEmpty

-----------------------------------------------------------------------------
(* The ring.                                                               *)

\* Indices of the ring stay in it.
LEMMA NextDescInRing ==
  ASSUME NEW i \in Descs
  PROVE  NextDesc(i) \in Descs
BY NumBDAssumption, SMT DEF NextDesc, Descs

\* There are buffers for more than the ring.
LEMMA DescsAreBuffers == Descs \subseteq Buffers
BY NumBDAssumption, NumBufAssumption DEF Descs, Buffers

\* The ring never holds the whole pool.
LEMMA PoolOutgrowsRing ==
  ASSUME TypeOK
  PROVE  \E b \in Buffers : b \notin InRing
<1> SUFFICES ASSUME \A b \in Buffers : b \in InRing
             PROVE  FALSE
  OBVIOUS
<1> DEFINE f == [i \in Descs |-> bd[i].buffer]
<1>1. f \in [Descs -> Buffers]
  BY DEF TypeOK
<1>2. \A b \in Buffers : \E i \in Descs : f[i] = b
  BY DEF InRing
<1>3. f \in Surjection(Descs, Buffers)
  BY <1>1, <1>2 DEF Surjection
<1>4. IsFiniteSet(Descs) /\ Cardinality(Descs) = NumBD
  <2>1. 0 \in Int /\ NumBD - 1 \in Int /\ ~(0 > NumBD - 1)
    BY NumBDAssumption
  <2>. QED BY <2>1, FS_Interval, NumBDAssumption DEF Descs
<1>5. Cardinality(Buffers) = NumBuf
  <2>1. 0 \in Int /\ NumBuf - 1 \in Int /\ ~(0 > NumBuf - 1)
    BY NumBDAssumption, NumBufAssumption
  <2>. QED BY <2>1, FS_Interval, NumBufAssumption DEF Buffers
<1>6. Cardinality(Buffers) <= Cardinality(Descs)
  BY <1>3, <1>4, FS_Surjection
<1>. QED BY <1>4, <1>5, <1>6, NumBDAssumption, NumBufAssumption

-----------------------------------------------------------------------------
(* The initial states and the steps.                                       *)

LEMMA InitIInv == Init => IInv
<1> SUFFICES ASSUME Init PROVE IInv
  OBVIOUS
<1> USE DEF Init
<1>1. 0 \in Descs
  BY NumBDAssumption DEF Descs
<1>2. TypeOK
  <2>1. used \in [Buffers -> BOOLEAN]
    OBVIOUS
  <2>2. bd \in [Descs -> [buffer : Buffers, frame : Frames]]
    BY DescsAreBuffers DEF Frames
  <2>3. /\ rxInt \in BOOLEAN /\ rxEvent \in BOOLEAN /\ rxFlag \in BOOLEAN
        /\ listed \in BOOLEAN /\ early \in BOOLEAN
    OBVIOUS
  <2>. QED BY <1>1, <2>1, <2>2, <2>3 DEF TypeOK
<1>3. InRing = Descs
  BY DEF InRing
<1>4. BuffersConserved
  BY <1>3, DescsAreBuffers DEF BuffersConserved
<1>. QED BY <1>2, <1>4 DEF IInv, HandOfTask, OffMeansEmpty

\* A step that leaves each descriptor its buffer leaves the ring its buffers.
LEMMA SameRing ==
  ASSUME \A i \in Descs : bd'[i].buffer = bd[i].buffer
  PROVE  InRing' = InRing
BY DEF InRing

\* What the controller, its interrupt and netif_add do.
LEMMA ControllerKeeps ==
  ASSUME IInv,
         \/ \E frame \in Frames \ {"none"} : FrameArrives(frame)
         \/ RxInterrupt
         \/ NetifListed
  PROVE  IInv'
<1> USE DEF IInv
<1>1. ASSUME NEW frame \in Frames \ {"none"}, FrameArrives(frame)
      PROVE  IInv'
  <2>1. \A i \in Descs : bd'[i].buffer = bd[i].buffer
    BY <1>1 DEF FrameArrives, TypeOK
  <2>2. TypeOK'
    BY <1>1, NextDescInRing DEF FrameArrives, TypeOK
  <2>3. BuffersConserved'
    BY <1>1, <2>1, SameRing DEF FrameArrives, BuffersConserved
  <2>. QED BY <1>1, <2>2, <2>3 DEF FrameArrives, HandOfTask, OffMeansEmpty
<1>2. CASE RxInterrupt
  <2>1. TypeOK'
    BY <1>2 DEF RxInterrupt, ring, TypeOK
  <2>2. BuffersConserved'
    BY <1>2 DEF RxInterrupt, ring, BuffersConserved, InRing
  <2>. QED
    BY <1>2, <2>1, <2>2 DEF RxInterrupt, HandOfTask, OffMeansEmpty
<1>3. CASE NetifListed
  BY <1>3 DEF NetifListed, ring, irq, TypeOK, BuffersConserved, InRing,
     HandOfTask, OffMeansEmpty
<1>. QED BY <1>1, <1>2, <1>3

\* Reading what is not a frame to pass on: the descriptor keeps its buffer.
LEMMA ReadNothingKeeps ==
  ASSUME IInv,
         Wake \/ WakeUnlisted \/ ReadEmpty \/ ReadError \/ ReadDrop \/ WaitAgain
  PROVE  IInv'
<1> USE DEF IInv
<1>1. CASE Wake \/ WakeUnlisted \/ ReadEmpty \/ WaitAgain
  <2>1. TypeOK'
    BY <1>1 DEF Wake, WakeUnlisted, ReadEmpty, WaitAgain, EndDrain, ring, irq, TypeOK
  <2>2. BuffersConserved'
    BY <1>1 DEF Wake, WakeUnlisted, ReadEmpty, WaitAgain, EndDrain, ring, irq,
       BuffersConserved, InRing
  <2>. QED
    BY <1>1, <2>1, <2>2 DEF Wake, WakeUnlisted, ReadEmpty, WaitAgain, EndDrain, Reading, irq,
       HandOfTask, OffMeansEmpty
<1>2. ASSUME Rearm(bd[rxGenIdx].buffer)
      PROVE  /\ \A i \in Descs : bd'[i].buffer = bd[i].buffer
             /\ bd' \in [Descs -> [buffer : Buffers, frame : Frames]]
             /\ rxGenIdx' \in Descs
  BY <1>2, NextDescInRing DEF Rearm, TypeOK, Frames
<1>3. CASE ReadError
  <2>1. TypeOK'
    BY <1>2, <1>3 DEF ReadError, EndDrain, TypeOK
  <2>2. BuffersConserved'
    BY <1>2, <1>3, SameRing DEF ReadError, EndDrain, BuffersConserved
  <2>. QED
    BY <1>3, <2>1, <2>2 DEF ReadError, EndDrain, Reading, HandOfTask,
       OffMeansEmpty
<1>4. CASE ReadDrop
  <2>1. TypeOK'
    BY <1>2, <1>4 DEF ReadDrop, EndDrain, RxAllocFails, TypeOK
  <2>2. BuffersConserved'
    BY <1>2, <1>4, SameRing DEF ReadDrop, EndDrain, RxAllocFails,
       BuffersConserved
  <2>3. OffMeansEmpty'
    BY <1>4 DEF ReadDrop, RxAllocFails, FreeBuffers, OffMeansEmpty
  <2>. QED BY <1>4, <2>1, <2>2, <2>3 DEF ReadDrop, EndDrain, Reading,
       HandOfTask
<1>. QED BY <1>1, <1>3, <1>4

\* A good frame: a new buffer enters the ring and the old one leaves it.
LEMMA ReadFrameKeeps ==
  ASSUME IInv, ReadFrame
  PROVE  IInv'
<1> USE DEF IInv
<1> DEFINE old == bd[rxGenIdx].buffer
<1>1. PICK b \in FreeBuffers : RxAlloc(b) /\ Rearm(b)
  BY DEF ReadFrame
<1>2. /\ b \in Buffers /\ ~used[b] /\ rxInt' = rxInt
      /\ used' = [used EXCEPT ![b] = TRUE]
  BY <1>1 DEF RxAlloc, FreeBuffers
<1>3. /\ rxGenIdx \in Descs /\ old \in Buffers
      /\ hand = {} /\ hand' = {old} /\ lwip' = lwip /\ task' = "input"
  BY DEF ReadFrame, Reading, TypeOK, HandOfTask
<1>4. /\ bd'[rxGenIdx].buffer = b
      /\ \A i \in Descs : i # rxGenIdx => bd'[i].buffer = bd[i].buffer
      /\ bd' \in [Descs -> [buffer : Buffers, frame : Frames]]
  BY <1>1, <1>2, <1>3 DEF Rearm, TypeOK, Frames
<1>5. TypeOK'
  BY <1>1, <1>2, <1>3, <1>4, NextDescInRing DEF ReadFrame, Rearm, TypeOK
<1>6. b \notin InRing \cup hand \cup lwip
  BY <1>2 DEF BuffersConserved
<1>7. InRing' = (InRing \ {old}) \cup {b}
  <2>1. \A i \in Descs : bd[i].buffer = old => i = rxGenIdx
    BY <1>3 DEF BuffersConserved
  <2>. QED BY <1>3, <1>4, <2>1 DEF InRing
<1>8. BuffersConserved'
  <2>1. ASSUME NEW i \in Descs, NEW j \in Descs, bd'[i].buffer = bd'[j].buffer
        PROVE  i = j
    BY <1>4, <1>6, <2>1 DEF BuffersConserved, InRing
  <2>2. old \in InRing /\ old \notin lwip /\ old # b
    BY <1>3, <1>6 DEF BuffersConserved, InRing
  <2>3. \A c \in Buffers : used'[c] <=> (used[c] \/ c = b)
    BY <1>2 DEF TypeOK
  <2>4. InRing' \cap (hand' \cup lwip') = {} /\ hand' \cap lwip' = {}
    BY <1>3, <1>6, <1>7, <2>2 DEF BuffersConserved
  <2>5. \A c \in Buffers : used'[c] <=> c \in InRing' \cup hand' \cup lwip'
    BY <1>3, <1>7, <2>2, <2>3 DEF BuffersConserved
  <2>. QED BY <2>1, <2>4, <2>5 DEF BuffersConserved
<1>9. OffMeansEmpty'
  BY <1>2 DEF OffMeansEmpty
<1>. QED BY <1>3, <1>5, <1>8, <1>9 DEF HandOfTask

\* Passing a pbuf on, and getting it back.
LEMMA InputKeeps ==
  ASSUME IInv,
         \/ InputTakes \/ InputRefuses \/ FreePosted \/ FreeFails \/ SleepEnds
         \/ \E b \in Buffers : RxRelease(b)
  PROVE  IInv'
<1> USE DEF IInv
<1>1. CASE InputTakes \/ FreePosted
  BY <1>1 DEF InputTakes, FreePosted, ring, irq, TypeOK, HandOfTask, OffMeansEmpty,
     BuffersConserved, InRing
<1>2. ASSUME NEW b \in Buffers, b \in hand \cup lwip, RxFree(b), UNCHANGED ring,
             hand' \cup lwip' = (hand \cup lwip) \ {b},
             hand' \cap lwip' = {}
      PROVE  BuffersConserved' /\ OffMeansEmpty'
  <2>1. InRing' = InRing
    BY <1>2 DEF ring, InRing
  <2>2. \A c \in Buffers : used'[c] <=> (used[c] /\ c # b)
    BY <1>2 DEF RxFree, TypeOK
  <2>3. b \notin InRing
    BY <1>2 DEF BuffersConserved
  <2>4. /\ InRing' \cap (hand' \cup lwip') = {}
        /\ \A c \in Buffers : used'[c] <=> c \in InRing' \cup hand' \cup lwip'
    BY <1>2, <2>1, <2>2, <2>3 DEF BuffersConserved
  <2>5. \A i, j \in Descs : bd'[i].buffer = bd'[j].buffer => i = j
    BY <1>2 DEF ring, BuffersConserved
  <2>. QED BY <1>2, <2>4, <2>5 DEF BuffersConserved, OffMeansEmpty, RxFree
<1>3. CASE InputRefuses \/ FreeFails \/ SleepEnds
  BY <1>3 DEF InputRefuses, FreeFails, SleepEnds, ring, irq, TypeOK, HandOfTask,
     OffMeansEmpty, BuffersConserved, InRing
<1>4. ASSUME NEW b \in Buffers, RxRelease(b)
      PROVE  IInv'
  <2>1. /\ UNCHANGED ring /\ RxFree(b) /\ b \in hand \cup lwip
        /\ hand' \cup lwip' = (hand \cup lwip) \ {b} /\ hand' \cap lwip' = {}
    BY <1>4 DEF RxRelease, BuffersConserved
  <2>2. BuffersConserved' /\ OffMeansEmpty'
    BY <1>2, <2>1
  <2>3. TypeOK'
    BY <1>4 DEF RxRelease, RxFree, ring, TypeOK
  <2>. QED BY <1>4, <2>2, <2>3 DEF RxRelease, HandOfTask
<1>. QED BY <1>1, <1>3, <1>4

-----------------------------------------------------------------------------
(* The theorems.                                                           *)

\* Every behaviour of the receive path satisfies the inductive invariant.
THEOREM Invariance == Spec => []IInv
<1>1. IInv /\ [Next]_vars => IInv'
  <2> SUFFICES ASSUME IInv, [Next]_vars PROVE IInv'
    OBVIOUS
  <2>1. CASE UNCHANGED vars
    BY <2>1 DEF vars, ring, irq, IInv, TypeOK, HandOfTask, OffMeansEmpty,
       BuffersConserved, InRing
  <2>. QED
    BY <2>1, ControllerKeeps, ReadNothingKeeps, ReadFrameKeeps, InputKeeps
       DEF Next, RxTask
<1>. QED BY <1>1, InitIInv, PTL DEF Spec

\* The type invariant.
THEOREM TypeCorrect == Spec => []TypeOK
<1>1. IInv => TypeOK
  BY DEF IInv
<1>. QED BY <1>1, Invariance, PTL

\* No buffer is ever lost, freed twice, or given to the controller and to lwIP
\* at once.
THEOREM BuffersConservedHolds == Spec => []BuffersConserved
<1>1. IInv => BuffersConserved
  BY DEF IInv
<1>. QED BY <1>1, Invariance, PTL

\* Whenever the receive interrupt is off, a buffer is out whose release
\* switches it on.
THEOREM NeverDeafHolds == Spec => []NeverDeaf
<1>1. IInv => NeverDeaf
  <2> SUFFICES ASSUME IInv, ~rxInt PROVE hand \cup lwip # {}
    BY DEF NeverDeaf
  <2>1. PICK b \in Buffers : b \notin InRing
    BY PoolOutgrowsRing DEF IInv
  <2>2. used[b]
    BY DEF IInv, OffMeansEmpty
  <2>. QED BY <2>1, <2>2 DEF IInv, BuffersConserved
<1>. QED BY <1>1, Invariance, PTL

-----------------------------------------------------------------------------
(* No wakeup is lost.  The task looks only at descriptor rxGenIdx; that an *)
(* empty one there means an empty ring is what makes its last look enough. *)

\* How many steps lead from descriptor `from' to descriptor i, and n steps from i.
Dist(i, from) == IF i >= from THEN i - from ELSE i - from + NumBD
After(i, n) == IF i + n < NumBD THEN i + n ELSE i + n - NumBD

\* The n descriptors from rxGenIdx on hold frames, the others hold none, and the
\* controller goes on behind them.
Holds(n) ==
  /\ dmaIdx = After(rxGenIdx, n)
  /\ \A i \in Descs : bd[i].frame # "none" <=> Dist(i, rxGenIdx) < n

Contiguous == \E n \in 0..NumBD : Holds(n)

LEMMA NextIsAfter ==
  ASSUME NEW i \in Descs
  PROVE  NextDesc(i) = IF i = NumBD - 1 THEN 0 ELSE i + 1
  BY NumBDAssumption, SMT DEF NextDesc, Descs

LEMMA FrameArrivesContiguous ==
  ASSUME TypeOK, Contiguous, NEW frame \in Frames \ {"none"}, FrameArrives(frame)
  PROVE  Contiguous'
<1>1. PICK n \in 0..NumBD : Holds(n)
  BY DEF Contiguous
<1>2. /\ bd[dmaIdx].frame = "none" /\ rxGenIdx' = rxGenIdx /\ dmaIdx' = NextDesc(dmaIdx)
      /\ bd'[dmaIdx].frame # "none"
      /\ \A i \in Descs : i # dmaIdx => bd'[i].frame = bd[i].frame
  BY DEF FrameArrives, TypeOK
<1>3. n < NumBD /\ Dist(dmaIdx, rxGenIdx) = n
  BY <1>1, <1>2, NumBDAssumption DEF Holds, TypeOK, Descs, Dist, After
<1>4. \A i \in Descs : i # dmaIdx => Dist(i, rxGenIdx) # n
  BY <1>1, <1>3, NumBDAssumption DEF Holds, TypeOK, Descs, Dist, After
<1>5. dmaIdx' = After(rxGenIdx, n + 1)
  <2>1. rxGenIdx \in 0..(NumBD - 1) /\ dmaIdx \in 0..(NumBD - 1)
    BY DEF TypeOK, Descs
  <2>2. dmaIdx' = IF dmaIdx = NumBD - 1 THEN 0 ELSE dmaIdx + 1
    BY <1>2, <2>1, NextIsAfter DEF Descs
  <2>3. dmaIdx = After(rxGenIdx, n)
    BY <1>1 DEF Holds
  <2> QED BY <1>3, <2>1, <2>2, <2>3, NumBDAssumption DEF After
<1>6. \A i \in Descs : bd'[i].frame # "none" <=> Dist(i, rxGenIdx) < n + 1
  <2> SUFFICES ASSUME NEW i \in Descs
               PROVE  bd'[i].frame # "none" <=> Dist(i, rxGenIdx) < n + 1
    OBVIOUS
  <2>1. Dist(i, rxGenIdx) \in Nat
    BY NumBDAssumption DEF TypeOK, Descs, Dist
  <2>2. Dist(i, rxGenIdx) < n + 1 <=> Dist(i, rxGenIdx) < n \/ Dist(i, rxGenIdx) = n
    BY <2>1
  <2> QED BY <1>1, <1>2, <1>3, <1>4, <2>2 DEF Holds
<1>7. n + 1 \in 0..NumBD /\ Holds(n + 1)'
  BY <1>2, <1>3, <1>5, <1>6, NumBDAssumption DEF Holds, Dist, After
<1> QED BY <1>7 DEF Contiguous

LEMMA RearmContiguous ==
  ASSUME TypeOK, Contiguous, bd[rxGenIdx].frame # "none", dmaIdx' = dmaIdx,
         NEW b \in Buffers, Rearm(b)
  PROVE  Contiguous'
<1>1. PICK n \in 0..NumBD : Holds(n)
  BY DEF Contiguous
<1>2. /\ rxGenIdx \in Descs /\ rxGenIdx' = NextDesc(rxGenIdx) /\ bd'[rxGenIdx].frame = "none"
      /\ \A i \in Descs : i # rxGenIdx => bd'[i].frame = bd[i].frame
  BY DEF Rearm, TypeOK
<1>3. rxGenIdx' = IF rxGenIdx = NumBD - 1 THEN 0 ELSE rxGenIdx + 1
  BY <1>2, NextIsAfter
<1>4. n >= 1 /\ Dist(rxGenIdx, rxGenIdx) = 0
  BY <1>1, <1>2, NumBDAssumption DEF Holds, Descs, Dist
<1>5. /\ Dist(rxGenIdx, rxGenIdx') = NumBD - 1
      /\ \A i \in Descs : i # rxGenIdx => Dist(i, rxGenIdx') = Dist(i, rxGenIdx) - 1
  BY <1>2, <1>3, NumBDAssumption DEF Descs, Dist
<1>6. dmaIdx = After(rxGenIdx', n - 1)
  BY <1>1, <1>2, <1>3, <1>4, NumBDAssumption DEF Holds, Descs, After
<1>7. \A i \in Descs : bd'[i].frame # "none" <=> Dist(i, rxGenIdx') < n - 1
  <2> SUFFICES ASSUME NEW i \in Descs
               PROVE  bd'[i].frame # "none" <=> Dist(i, rxGenIdx') < n - 1
    OBVIOUS
  <2>1. CASE i = rxGenIdx
    BY <1>2, <1>4, <1>5, <2>1, NumBDAssumption
  <2>2. CASE i # rxGenIdx
    <3>1. Dist(i, rxGenIdx) \in Int
      BY <1>2, NumBDAssumption DEF Descs, Dist
    <3>2. Dist(i, rxGenIdx') < n - 1 <=> Dist(i, rxGenIdx) < n
      BY <1>5, <2>2, <3>1
    <3> QED BY <1>1, <1>2, <2>2, <3>2 DEF Holds
  <2> QED BY <2>1, <2>2
<1>8. n - 1 \in 0..NumBD /\ Holds(n - 1)'
  BY <1>4, <1>6, <1>7, NumBDAssumption DEF Holds, Dist, After
<1> QED BY <1>8 DEF Contiguous

\* An empty descriptor at rxGenIdx means an empty ring.
LEMMA EmptyMeansEmpty ==
  ASSUME TypeOK, Contiguous, bd[rxGenIdx].frame = "none"
  PROVE  \A i \in Descs : bd[i].frame = "none"
<1>1. PICK n \in 0..NumBD : Holds(n)
  BY DEF Contiguous
<1>2. n = 0
  BY <1>1, NumBDAssumption DEF Holds, TypeOK, Descs, Dist
<1> QED BY <1>1, <1>2, NumBDAssumption DEF Holds, TypeOK, Descs, Dist

LEMMA WakeupStep ==
  TypeOK /\ Contiguous /\ NoLostWakeup /\ [Next]_vars => Contiguous' /\ NoLostWakeup'
<1> SUFFICES ASSUME TypeOK, Contiguous, NoLostWakeup, [Next]_vars
             PROVE  Contiguous' /\ NoLostWakeup'
  OBVIOUS
<1>1. ASSUME UNCHANGED ring PROVE Contiguous'
  BY <1>1 DEF ring, Contiguous, Holds, Dist, After
<1>2. ASSUME NEW frame \in Frames \ {"none"}, FrameArrives(frame)
      PROVE  Contiguous' /\ NoLostWakeup'
  BY <1>2, FrameArrivesContiguous DEF FrameArrives, NoLostWakeup
<1>3. CASE RxInterrupt
  BY <1>1, <1>3 DEF RxInterrupt, NoLostWakeup
<1>4. CASE Wake
  BY <1>1, <1>4 DEF Wake, NoLostWakeup
<1>5. CASE WakeUnlisted
  BY <1>1, <1>5 DEF WakeUnlisted, NoLostWakeup
<1>6. CASE ReadEmpty
  <2>1. UNCHANGED ring
    BY <1>6 DEF ReadEmpty, EndDrain, ring
  <2>2. \A i \in Descs : bd'[i].frame = "none"
    BY <1>6, <2>1, EmptyMeansEmpty DEF ReadEmpty, Reading, ring
  <2> QED BY <1>1, <2>1, <2>2 DEF NoLostWakeup
<1>7. ASSUME ReadError \/ ReadDrop PROVE Contiguous' /\ NoLostWakeup'
  <2>1. /\ bd[rxGenIdx].frame # "none" /\ dmaIdx' = dmaIdx /\ early'
        /\ Rearm(bd[rxGenIdx].buffer) /\ bd[rxGenIdx].buffer \in Buffers
    BY <1>7 DEF ReadError, ReadDrop, Reading, EndDrain, TypeOK
  <2> QED BY <2>1, RearmContiguous DEF NoLostWakeup
<1>8. CASE ReadFrame
  <2>1. PICK b \in FreeBuffers : Rearm(b)
    BY <1>8 DEF ReadFrame
  <2>2. bd[rxGenIdx].frame # "none" /\ dmaIdx' = dmaIdx /\ task' = "input" /\ b \in Buffers
    BY <1>8 DEF ReadFrame, Reading, FreeBuffers
  <2> QED BY <2>1, <2>2, RearmContiguous DEF NoLostWakeup
<1>9. CASE InputTakes \/ InputRefuses
  BY <1>1, <1>9 DEF InputTakes, InputRefuses, ring, NoLostWakeup
<1>10. CASE FreePosted \/ FreeFails \/ SleepEnds
  BY <1>1, <1>10 DEF FreePosted, FreeFails, SleepEnds, ring, NoLostWakeup
<1>11. CASE WaitAgain
  BY <1>1, <1>11 DEF WaitAgain, ring, irq, NoLostWakeup
<1>12. ASSUME NEW b \in Buffers, RxRelease(b) PROVE Contiguous' /\ NoLostWakeup'
  BY <1>1, <1>12 DEF RxRelease, ring, NoLostWakeup
<1>13. CASE NetifListed
  BY <1>1, <1>13 DEF NetifListed, ring, irq, NoLostWakeup
<1>14. CASE UNCHANGED vars
  BY <1>1, <1>14 DEF vars, ring, irq, NoLostWakeup
<1> QED
  BY <1>2, <1>3, <1>4, <1>5, <1>6, <1>7, <1>8, <1>9, <1>10, <1>11, <1>12, <1>13, <1>14
  DEF Next, RxTask

\* A frame that arrives while the task goes back to its wait wakes it again, with a
\* ring of any size (ethernetif.c:205-225, 239-255, 266-270).
THEOREM NoLostWakeupHolds == Spec => []NoLostWakeup
<1>1. Init => Contiguous /\ NoLostWakeup
  <2> SUFFICES ASSUME Init PROVE Holds(0) /\ NoLostWakeup
    BY NumBDAssumption DEF Contiguous
  <2>1. 0 \in Descs
    BY NumBDAssumption DEF Descs
  <2>2. \A i \in Descs : ~(Dist(i, 0) < 0)
    BY NumBDAssumption DEF Descs, Dist
  <2>3. \A i \in Descs : bd[i].frame = "none"
    BY DEF Init
  <2>4. dmaIdx = After(rxGenIdx, 0) /\ rxGenIdx = 0
    BY NumBDAssumption DEF Init, After
  <2> QED BY <2>2, <2>3, <2>4 DEF Holds, NoLostWakeup
<1>2. TypeOK /\ (Contiguous /\ NoLostWakeup) /\ [Next]_vars => (Contiguous /\ NoLostWakeup)'
  BY WakeupStep
<1> QED BY <1>1, <1>2, TypeCorrect, PTL DEF Spec
=============================================================================
