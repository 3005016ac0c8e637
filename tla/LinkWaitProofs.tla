--------------------------- MODULE LinkWaitProofs ---------------------------
(***************************************************************************)
(* Proofs about the wait for the link, for any speeds, any length of the   *)
(* queue and whether or not the main thread is prompt.                     *)
(*                                                                         *)
(* The callback and the queue belong to the main thread, which the probe   *)
(* cannot see; the invariant says at which of its places each exists, and  *)
(* the lock keeps the probe of the tcpip thread out while they change.     *)
(***************************************************************************)
EXTENDS LinkWait, TLAPS

\* Where the main thread is while extcb is in the list, and while the queue exists.
Registered == {"check", "get", "look", "lockremove", "removing"}
WithQueue == Registered \cup {"lockadd", "adding", "delete"}

\* The places of the program that the invariant ties together.
PlacesInv ==
  /\ cb <=> main \in Registered
  /\ queue.open <=> main \in WithQueue
  /\ probe.at = "idle" => probe = Idle
  /\ probe.by = "main" => main = "add"
  /\ probe.at \in {"putup", "putdown"} => probe.by = "tcpip" /\ cb

\* What the history says of a call: a link that is up was seen, and so is one that
\* the call will report.
SeenInv ==
  main \notin {"add", "call", "up"} => (flag => seen) /\ (ret = "OK" => seen)

LinkInv == TypeOK /\ PlacesInv /\ SeenInv

USE DEF MainPlaces, ProbePlaces, Registered, WithQueue

LEMMA IdleFields ==
  Idle.at = "idle" /\ Idle.by = "tcpip" /\ Idle \in [at : ProbePlaces, by : {"main", "tcpip"}]
  BY DEF Idle

LEMMA LinkInitially == Init => LinkInv
<1> SUFFICES ASSUME Init PROVE LinkInv
  OBVIOUS
<1>1. TypeOK
  <2>1. queue \in [open : BOOLEAN, msgs : 0..QueueLen]
    BY QueueLenAssumption DEF Init
  <2>2. probe \in [at : ProbePlaces, by : {"main", "tcpip"}]
    BY IdleFields DEF Init
  <2>3. eif \in [up : BOOLEAN, speed : Speeds \cup {NotSet}]
    BY DEF Init
  <2> QED BY <2>1, <2>2, <2>3 DEF Init, TypeOK
<1>2. PlacesInv
  BY IdleFields DEF Init, PlacesInv
<1>3. SeenInv
  BY DEF Init, SeenInv
<1> QED BY <1>1, <1>2, <1>3 DEF LinkInv

\* A step inside the probe leaves it with who runs it.
LEMMA ProbeMoves ==
  ASSUME TypeOK, NEW place \in ProbePlaces \ {"idle"}, At(place)
  PROVE  /\ probe' \in [at : ProbePlaces, by : {"main", "tcpip"}] /\ probe' # Idle
         /\ probe'.at = place /\ probe'.by = probe.by
  BY IdleFields DEF TypeOK, At

LEMMA LinkStep == LinkInv /\ [Next]_vars => LinkInv'
<1> SUFFICES ASSUME LinkInv, [Next]_vars PROVE LinkInv'
  OBVIOUS
<1> USE QueueLenAssumption, IdleFields DEF LinkInv, TypeOK, PlacesInv, SeenInv, Goes,
        phyVars, macVars, waitVars
<1>1. CASE PhyChanges
  BY <1>1 DEF PhyChanges
<1>2. CASE ProbeStarts
  <2>1. probe = Idle /\ main # "add" /\ lock = "none" /\ lock' = "tcpip" /\ At("status")
    BY <1>2 DEF ProbeStarts
  <2>2. /\ probe' \in [at : ProbePlaces, by : {"main", "tcpip"}] /\ probe' # Idle
        /\ probe'.at = "status" /\ probe'.by = "tcpip"
    BY <2>1, ProbeMoves
  <2>3. quiet' = FALSE /\ UNCHANGED <<phyVars, macVars, waitVars, seen>>
    BY <1>2 DEF ProbeStarts
  <2>7. TypeOK'
    <3>1. lock' = "main" <=> main' \in {"adding", "removing"}
      BY <2>1, <2>3
    <3>2. lock' = "tcpip" <=> probe' # Idle /\ probe'.by = "tcpip"
      BY <2>1, <2>2, <2>3
    <3>3. quiet' \in BOOLEAN
      BY <2>3
    <3> QED BY <2>1, <2>2, <2>3, <3>1, <3>2, <3>3
  <2>8. PlacesInv'
    BY <2>1, <2>2, <2>3
  <2>9. SeenInv'
    BY <2>1, <2>2, <2>3
  <2> QED BY <2>7, <2>8, <2>9
<1>3. CASE ProbeStatus
  <2>1. PICK place \in {"speed", "setdown", "end"} : At(place)
    BY <1>3 DEF ProbeStatus
  <2>2. /\ probe' \in [at : ProbePlaces, by : {"main", "tcpip"}] /\ probe' # Idle
        /\ probe'.at = place /\ probe'.by = probe.by
    BY <2>1, ProbeMoves
  <2>3. probe # Idle /\ UNCHANGED <<phyVars, macVars, lock, waitVars, seen, quiet>>
    BY <1>3 DEF ProbeStatus
  <2> QED BY <2>2, <2>3
<1>4. CASE ProbeSpeed
  <2>1. /\ probe' \in [at : ProbePlaces, by : {"main", "tcpip"}] /\ probe' # Idle
        /\ probe'.at = "setup" /\ probe'.by = probe.by
    BY <1>4, ProbeMoves DEF ProbeSpeed
  <2>2. probe # Idle
    BY <1>4 DEF ProbeSpeed
  <2>3. eif' = [up |-> TRUE, speed |-> speed] \/ eif' = eif
    BY <1>4 DEF ProbeSpeed, OnLinkUp
  <2>4. eif' \in [up : BOOLEAN, speed : Speeds \cup {NotSet}]
    <3>1. ASSUME eif' = [up |-> TRUE, speed |-> speed] PROVE eif' \in [up : BOOLEAN, speed : Speeds \cup {NotSet}]
      BY <3>1
    <3> QED BY <2>3, <3>1
  <2> QED BY <1>4, <2>1, <2>2, <2>4 DEF ProbeSpeed, OnLinkUp
<1>5. CASE SetLinkUp
  <2>1. PICK place \in {"putup", "end"} : At(place) /\ (place = "putup" => flag # TRUE /\ cb)
    BY <1>5 DEF SetLinkUp, SetLink
  <2>2. /\ probe' \in [at : ProbePlaces, by : {"main", "tcpip"}] /\ probe' # Idle
        /\ probe'.at = place /\ probe'.by = probe.by
    BY <2>1, ProbeMoves
  <2>3. /\ probe # Idle /\ flag' = TRUE /\ seen' = TRUE
        /\ UNCHANGED <<phyVars, eif, mii, lock, waitVars, quiet>>
    BY <1>5 DEF SetLinkUp, SetLink
  <2>7. TypeOK'
    <3>1. lock' = "main" <=> main' \in {"adding", "removing"}
      BY <2>1, <2>3
    <3>2. lock' = "tcpip" <=> probe' # Idle /\ probe'.by = "tcpip"
      BY <2>1, <2>2, <2>3
    <3> QED BY <2>1, <2>2, <2>3, <3>1, <3>2
  <2>8. PlacesInv'
    BY <2>1, <2>2, <2>3
  <2>9. SeenInv'
    BY <2>1, <2>2, <2>3
  <2> QED BY <2>7, <2>8, <2>9
<1>6. CASE SetLinkDown
  <2>1. PICK place \in {"putdown", "down"} : At(place) /\ (place = "putdown" => flag # FALSE /\ cb)
    BY <1>6 DEF SetLinkDown, SetLink
  <2>2. /\ probe' \in [at : ProbePlaces, by : {"main", "tcpip"}] /\ probe' # Idle
        /\ probe'.at = place /\ probe'.by = probe.by
    BY <2>1, ProbeMoves
  <2>3. /\ probe # Idle /\ flag' = FALSE /\ seen' = seen
        /\ UNCHANGED <<phyVars, eif, mii, lock, waitVars, quiet>>
    BY <1>6 DEF SetLinkDown, SetLink
  <2>7. TypeOK'
    <3>1. lock' = "main" <=> main' \in {"adding", "removing"}
      BY <2>1, <2>3
    <3>2. lock' = "tcpip" <=> probe' # Idle /\ probe'.by = "tcpip"
      BY <2>1, <2>2, <2>3
    <3>3. flag' \in BOOLEAN
      BY <2>3
    <3> QED BY <2>1, <2>2, <2>3, <3>1, <3>2, <3>3
  <2>8. PlacesInv'
    BY <2>1, <2>2, <2>3
  <2>9. SeenInv'
    BY <2>1, <2>2, <2>3
  <2> QED BY <2>7, <2>8, <2>9
<1>7. CASE ExtCb
  <2>1. PICK place \in {"end", "down"} : At(place)
    BY <1>7 DEF ExtCb, AfterPut
  <2>2. /\ probe' \in [at : ProbePlaces, by : {"main", "tcpip"}] /\ probe' # Idle
        /\ probe'.at = place /\ probe'.by = probe.by
    BY <2>1, ProbeMoves
  <2>3. queue' \in [open : BOOLEAN, msgs : 0..QueueLen] /\ queue'.open = queue.open
    BY <1>7 DEF ExtCb
  <2>4. probe # Idle /\ UNCHANGED <<phyVars, macVars, lock, cb, main, ret, seen, quiet>>
    BY <1>7 DEF ExtCb
  <2> QED BY <2>2, <2>3, <2>4
<1>8. CASE OnLinkDown
  <2>1. /\ probe' \in [at : ProbePlaces, by : {"main", "tcpip"}] /\ probe' # Idle
        /\ probe'.at = "end" /\ probe'.by = probe.by
    BY <1>8, ProbeMoves DEF OnLinkDown
  <2>2. probe # Idle /\ eif' \in [up : BOOLEAN, speed : Speeds \cup {NotSet}]
    BY <1>8 DEF OnLinkDown
  <2> QED BY <1>8, <2>1, <2>2 DEF OnLinkDown
<1>9. CASE ProbeEnds
  <2>1. probe # Idle /\ probe' = Idle /\ Idle \in [at : ProbePlaces, by : {"main", "tcpip"}]
    BY <1>9 DEF ProbeEnds
  <2>2. UNCHANGED <<phyVars, macVars, queue, cb, ret, seen, quiet>>
    BY <1>9 DEF ProbeEnds
  <2>3. CASE probe.by = "tcpip"
    <3>1. lock' = "none" /\ main' = main /\ main \notin {"adding", "removing"}
      BY <1>9, <2>1, <2>3 DEF ProbeEnds
    <3> QED BY <2>1, <2>2, <3>1
  <2>4. CASE probe.by # "tcpip"
    <3>1. main = "add" /\ main' = "call" /\ lock' = lock
      BY <1>9, <2>4 DEF ProbeEnds
    <3> QED BY <2>1, <2>2, <2>4, <3>1
  <2> QED BY <2>3, <2>4
<1>10. CASE NetifAdd
  <2>1. /\ probe' = [at |-> "status", by |-> "main"]
        /\ probe' \in [at : ProbePlaces, by : {"main", "tcpip"}]
    BY <1>10 DEF NetifAdd
  <2> QED BY <1>10, <2>1 DEF NetifAdd
<1>11. CASE FirstCheck
  BY <1>11 DEF FirstCheck
<1>12. CASE NewQueue
  BY <1>12 DEF NewQueue
<1>13. CASE LockCore
  BY <1>13 DEF LockCore
<1>14. CASE AddCallback
  BY <1>14 DEF AddCallback
<1>15. CASE SecondCheck
  BY <1>15 DEF SecondCheck, Blocks
<1>16. CASE Get
  BY <1>16 DEF Get
<1>17. CASE Look
  BY <1>17 DEF Look, Blocks
<1>18. CASE Timeout
  BY <1>18 DEF Timeout
<1>19. CASE RemoveCallback
  <2>7. TypeOK'
    <3>1. lock' = "main" <=> main' \in {"adding", "removing"}
      BY <1>19 DEF RemoveCallback
    <3>2. lock' = "tcpip" <=> probe' # Idle /\ probe'.by = "tcpip"
      BY <1>19 DEF RemoveCallback
    <3>3. cb' \in BOOLEAN
      BY <1>19 DEF RemoveCallback
    <3> QED BY <1>19, <3>1, <3>2, <3>3 DEF RemoveCallback
  <2>8. PlacesInv'
    BY <1>19 DEF RemoveCallback
  <2>9. SeenInv'
    BY <1>19 DEF RemoveCallback
  <2> QED BY <2>7, <2>8, <2>9
<1>20. CASE DeleteQueue
  <2>1. queue' \in [open : BOOLEAN, msgs : 0..QueueLen] /\ ~queue'.open
    BY <1>20 DEF DeleteQueue
  <2>2. /\ main = "delete" /\ main' \in {"up", "call"}
        /\ UNCHANGED <<phyVars, macVars, lock, cb, ret, probe, seen, quiet>>
    BY <1>20 DEF DeleteQueue
  <2> QED BY <2>1, <2>2
<1>21. CASE NewQueueFails
  BY <1>21 DEF NewQueueFails
<1>22. CASE UNCHANGED vars
  BY <1>22 DEF vars
<1> QED
  BY <1>1, <1>2, <1>3, <1>4, <1>5, <1>6, <1>7, <1>8, <1>9, <1>10, <1>11, <1>12, <1>13,
     <1>14, <1>15, <1>16, <1>17, <1>18, <1>19, <1>20, <1>21, <1>22
  DEF Next, Probe, Main, Waits

THEOREM LinkInvariance == Spec => []LinkInv
  BY LinkInitially, LinkStep, PTL DEF Spec

\* The types of LinkWait, and that the core lock is held exactly at the places that
\* hold it (ethernetif.c:489-526, lwip's tcpip thread).
THEOREM TypeCorrectness == Spec => []TypeOK
<1>1. LinkInv => TypeOK
  BY DEF LinkInv
<1> QED BY <1>1, LinkInvariance, PTL

\* Whoever is in extcb finds the queue (ethernetif.c:446-459, 489-526).
THEOREM CallbackHasQueueHolds == Spec => []CallbackHasQueue
<1>1. LinkInv => CallbackHasQueue
  BY DEF LinkInv, PlacesInv, CallbackHasQueue
<1> QED BY <1>1, LinkInvariance, PTL

-----------------------------------------------------------------------------
(* The wait implements its promise, but for what needs fairness.           *)

\* `call' of LinkPromise, as KeepsPromise maps it.
CallOf(place, sawLink) ==
  CASE place = "up" -> "ok"
    [] place = "halted" -> "stopped"
    [] place \in {"add", "call"} -> "none"
    [] OTHER -> IF sawLink THEN "seen" ELSE "waiting"

LEMMA CallValues ==
  /\ \A b : /\ CallOf("up", b) = "ok" /\ CallOf("halted", b) = "stopped"
            /\ CallOf("add", b) = "none" /\ CallOf("call", b) = "none"
  /\ \A p \in MainPlaces \ {"add", "call", "up", "halted"} :
       CallOf(p, TRUE) = "seen" /\ CallOf(p, FALSE) = "waiting"
  BY DEF CallOf

LEMMA WaitingCall ==
  ASSUME NEW p \in MainPlaces \ {"add", "call", "up", "halted"}, NEW b \in BOOLEAN
  PROVE  CallOf(p, b) \in {"seen", "waiting"}
  BY DEF CallOf

LEMMA PromiseStep == LinkInv /\ [Next]_vars => [Promise!Next]_(Promise!vars)
<1> SUFFICES ASSUME LinkInv, [Next]_vars PROVE [Promise!Next]_(Promise!vars)
  OBVIOUS
<1> DEFINE call == CallOf(main, seen)
           Wait == MainPlaces \ {"add", "call", "up", "halted"}
<1>1. /\ Promise!vars = <<flag, call>> /\ Promise!vars' = <<flag', call'>>
      /\ Promise!Next <=>
           \/ flag' = ~flag /\ call' = IF call = "waiting" /\ flag' THEN "seen" ELSE call
           \/ call = "none" /\ call' = (IF flag THEN "ok" ELSE "waiting") /\ flag' = flag
           \/ call = "seen" /\ call' = "ok" /\ flag' = flag
           \/ call \in {"waiting", "seen"} /\ call' = "none" /\ flag' = flag
           \/ call \in {"waiting", "seen"} /\ call' = "stopped" /\ flag' = flag
  BY DEF Promise!vars, Promise!Next, Promise!LinkChanges, Promise!Call, Promise!ReturnOk,
         Promise!GiveUp, Promise!Stop, CallOf
<1> USE DEF LinkInv, TypeOK, Goes, phyVars, macVars, waitVars
<1>2. ASSUME flag' = flag, main' = main, seen' = seen PROVE [Promise!Next]_(Promise!vars)
  BY <1>1, <1>2
<1>3. ASSUME flag' = flag, seen' = seen, main \in Wait, main' \in Wait
      PROVE  [Promise!Next]_(Promise!vars)
  <2>1. call' = call
    <3>1. CASE seen = TRUE
      BY <1>3, <3>1, CallValues
    <3>2. CASE seen = FALSE
      BY <1>3, <3>2, CallValues
    <3> QED BY <3>1, <3>2
  <2> QED BY <1>1, <1>3, <2>1
<1>4. ASSUME NEW value \in BOOLEAN, flag' = value, seen' = (seen \/ value), main' = main
      PROVE  [Promise!Next]_(Promise!vars)
  <2>1. CASE main \notin Wait
    BY <1>1, <1>4, <2>1, CallValues
  <2>2. CASE main \in Wait /\ seen
    BY <1>1, <1>4, <2>2, CallValues
  <2>3. CASE main \in Wait /\ ~seen
    <3>1. flag = FALSE
      BY <2>3 DEF SeenInv
    <3> QED BY <1>1, <1>4, <2>3, <3>1, CallValues
  <2> QED BY <2>1, <2>2, <2>3
<1>5. CASE PhyChanges \/ ProbeStarts \/ ProbeStatus \/ ProbeSpeed \/ ExtCb \/ OnLinkDown
  BY <1>2, <1>5 DEF PhyChanges, ProbeStarts, ProbeStatus, ProbeSpeed, ExtCb, OnLinkDown
<1>6. CASE SetLinkUp
  BY <1>4, <1>6 DEF SetLinkUp, SetLink
<1>7. CASE SetLinkDown
  BY <1>4, <1>7 DEF SetLinkDown, SetLink
<1>8. CASE ProbeEnds
  <2>1. CASE probe.by = "tcpip"
    BY <1>2, <1>8, <2>1 DEF ProbeEnds
  <2>2. CASE probe.by # "tcpip"
    <3>1. main = "add" /\ main' = "call" /\ flag' = flag /\ seen' = seen
      BY <1>8, <2>2 DEF ProbeEnds, PlacesInv
    <3> QED BY <1>1, <3>1, CallValues
  <2> QED BY <2>1, <2>2
<1>9. CASE NetifAdd
  <2>1. main = "add" /\ main' = "add" /\ flag' = TRUE
    BY <1>9 DEF NetifAdd
  <2> QED BY <1>1, <2>1, CallValues
<1>10. CASE FirstCheck
  <2>1. main = "call" /\ main' = (IF flag THEN "up" ELSE "new") /\ seen' = flag /\ flag' = flag
    BY <1>10 DEF FirstCheck
  <2>2. CASE flag = TRUE
    BY <1>1, <2>1, <2>2, CallValues
  <2>3. CASE flag = FALSE
    <3>1. call = "none" /\ call' = "waiting"
      BY <2>1, <2>3, CallValues
    <3> QED BY <1>1, <2>1, <2>3, <3>1
  <2> QED BY <2>2, <2>3
<1>11. CASE NewQueue \/ LockCore \/ AddCallback \/ SecondCheck \/ Get \/ Look \/ Timeout
            \/ RemoveCallback
  BY <1>3, <1>11
  DEF NewQueue, LockCore, AddCallback, SecondCheck, Get, Look, Timeout, RemoveCallback
<1>12. CASE DeleteQueue
  <2>1. /\ main = "delete" /\ main' = (IF ret = "OK" THEN "up" ELSE "call")
        /\ flag' = flag /\ seen' = seen
    BY <1>12 DEF DeleteQueue
  <2>2. ret = "OK" => seen
    BY <2>1 DEF SeenInv
  <2>3. CASE ret = "OK"
    <3>1. call = "seen" /\ call' = "ok"
      BY <2>1, <2>2, <2>3, CallValues
    <3> QED BY <1>1, <2>1, <3>1
  <2>4. CASE ret # "OK"
    <3>1. call' = "none"
      BY <2>1, <2>4, CallValues
    <3>2. call \in {"seen", "waiting"}
      BY <2>1, WaitingCall
    <3> QED BY <1>1, <2>1, <3>1, <3>2
  <2> QED BY <2>3, <2>4
<1>13. CASE NewQueueFails
  <2>1. main = "new" /\ main' = "halted" /\ flag' = flag /\ seen' = seen
    BY <1>13 DEF NewQueueFails
  <2>2. call' = "stopped"
    BY <2>1, CallValues
  <2>3. call \in {"seen", "waiting"}
    BY <2>1, WaitingCall
  <2> QED BY <1>1, <2>1, <2>2, <2>3
<1>14. CASE UNCHANGED vars
  BY <1>2, <1>14 DEF vars
<1> QED
  BY <1>5, <1>6, <1>7, <1>8, <1>9, <1>10, <1>11, <1>12, <1>13, <1>14
  DEF Next, Probe, Main, Waits

\* No ERR_OK of ethernetif_wait_linkup without a link, whatever the speeds, the
\* length of the queue and the order of the steps (ethernetif.c:464-535).
THEOREM WaitImplementsPromise == Spec => Promise!Init /\ [][Promise!Next]_(Promise!vars)
<1>1. Init => Promise!Init
  BY DEF Init, Promise!Init
<1>2. LinkInv /\ [Next]_vars => [Promise!Next]_(Promise!vars)
  BY PromiseStep
<1> QED BY <1>1, <1>2, LinkInvariance, PTL DEF Spec
=============================================================================
