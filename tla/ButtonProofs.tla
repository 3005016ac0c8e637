---------------------------- MODULE ButtonProofs ----------------------------
(***************************************************************************)
(* Proofs that a button's state follows its pin, for any number of buttons *)
(* and a queue of any length.                                              *)
(***************************************************************************)
EXTENDS Button, TLAPS

\* What the callback has read is still there, or is looked at again.
ReadingSound ==
  \A b \in Buttons : cbAt = "compare" /\ cbOf = b =>
    pin[b] = cbNew \/ Rechecked(b)

\* A pin that moved during the period of its timer is looked at again.
MovedRechecked == \A b \in Buttons : moved[b] => Rechecked(b)

\* The inductive invariant.
IInv ==
  /\ TypeOK
  /\ ReadingSound
  /\ MovedRechecked
  /\ AgreesWhenQuiet

-----------------------------------------------------------------------------
(* The queue of the timer thread.                                          *)

LEMMA EntryTypes ==
  ASSUME NEW b \in Buttons, NEW c
  PROVE  /\ Job(b) \in Entries /\ Expiry(b) \in Entries
         /\ Job(b) # Expiry(c)
         /\ Job(b) = Job(c) => b = c
         /\ Expiry(b) = Expiry(c) => b = c
BY DEF Job, Expiry, Entries

\* A new entry comes behind the others.
LEMMA AppendQueues ==
  ASSUME queue \in Seq(Entries), NEW x \in Entries, queue' = Append(queue, x)
  PROVE  /\ queue' \in Seq(Entries) /\ Len(queue') = Len(queue) + 1
         /\ \A entry : Queued(entry)' <=> Queued(entry) \/ entry = x
<1>1. /\ queue' \in Seq(Entries) /\ Len(queue') = Len(queue) + 1
      /\ \A i \in 1..Len(queue) : queue'[i] = queue[i]
      /\ queue'[Len(queue) + 1] = x
      /\ Len(queue) \in Nat
  OBVIOUS
<1>2. ASSUME NEW entry
      PROVE  Queued(entry)' <=> Queued(entry) \/ entry = x
  <2>1. ASSUME NEW i \in 1..Len(queue'), queue'[i] = entry
        PROVE  Queued(entry) \/ entry = x
    <3>1. i \in 1..Len(queue) \/ i = Len(queue) + 1
      BY <1>1
    <3>. QED BY <1>1, <2>1, <3>1 DEF Queued
  <2>2. ASSUME NEW i \in 1..Len(queue), queue[i] = entry
        PROVE  Queued(entry)'
    <3>1. i \in 1..Len(queue')
      BY <1>1
    <3>. QED BY <1>1, <2>2, <3>1 DEF Queued
  <2>3. ASSUME entry = x
        PROVE  Queued(entry)'
    <3>1. Len(queue) + 1 \in 1..Len(queue')
      BY <1>1
    <3>. QED BY <1>1, <2>3, <3>1 DEF Queued
  <2>. QED BY <2>1, <2>2, <2>3 DEF Queued
<1>. QED BY <1>1, <1>2

\* Taking the head leaves every other entry.
LEMMA TakeQueues ==
  ASSUME queue \in Seq(Entries), NEW x, Take(x)
  PROVE  /\ queue' \in Seq(Entries) /\ Len(queue') <= Len(queue)
         /\ Len(queue) \in Nat /\ Len(queue') \in Nat
         /\ Queued(x)
         /\ \A entry : Queued(entry) => Queued(entry)' \/ entry = x
         /\ \A entry : Queued(entry)' => Queued(entry)
<1>1. /\ queue # <<>> /\ x = queue[1] /\ queue' = Tail(queue)
      /\ queue' \in Seq(Entries) /\ Len(queue') = Len(queue) - 1
      /\ Len(queue) \in Nat /\ Len(queue) >= 1
      /\ \A i \in 1..Len(queue') : queue'[i] = queue[i + 1]
  BY DEF Take
<1>2. Queued(x)
  <2>1. 1 \in 1..Len(queue)
    BY <1>1
  <2>. QED BY <1>1, <2>1 DEF Queued
<1>3. ASSUME NEW entry, Queued(entry), entry # x
      PROVE  Queued(entry)'
  <2>1. PICK i \in 1..Len(queue) : queue[i] = entry
    BY <1>3 DEF Queued
  <2>2. i # 1 /\ i - 1 \in 1..Len(queue')
    BY <1>1, <1>3, <2>1
  <2>3. queue'[i - 1] = entry
    BY <1>1, <2>1, <2>2
  <2>. QED BY <2>2, <2>3 DEF Queued
<1>4. ASSUME NEW entry, Queued(entry)'
      PROVE  Queued(entry)
  <2>1. PICK i \in 1..Len(queue') : queue'[i] = entry
    BY <1>4 DEF Queued
  <2>2. i + 1 \in 1..Len(queue) /\ queue[i + 1] = entry
    BY <1>1, <2>1
  <2>. QED BY <2>2 DEF Queued
<1>. QED BY <1>1, <1>2, <1>3, <1>4

-----------------------------------------------------------------------------
(* The steps.                                                              *)

LEMMA InitIInv == Init => IInv
<1> SUFFICES ASSUME Init PROVE IInv
  OBVIOUS
<1> USE DEF Init
<1>1. queue \in Seq(Entries) /\ Len(queue) <= QueueLen
  BY QueueLenAssumption
<1>2. TypeOK
  BY <1>1 DEF TypeOK
<1>. QED
  BY <1>2 DEF IInv, ReadingSound, MovedRechecked, AgreesWhenQuiet

\* Boot, and the pin.
LEMMA BootKeeps ==
  ASSUME IInv,
         StartKernel \/ \E b \in Buttons : InitButton(b) \/ PinMoves(b)
  PROVE  IInv'
<1> USE DEF IInv, Rechecked, Queued
<1>1. CASE StartKernel
  BY <1>1 DEF StartKernel, InThread, pins, isrVars, callback, TypeOK,
     ReadingSound, MovedRechecked, AgreesWhenQuiet, Quiet
<1>2. ASSUME NEW b \in Buttons, InitButton(b)
      PROVE  IInv'
  <2> USE <1>2 DEF InitButton, InThread, pins, isrVars, callback
  <2>1. TypeOK'
    BY DEF TypeOK
  <2>2. ReadingSound' /\ MovedRechecked'
    BY DEF ReadingSound, MovedRechecked
  <2>3. AgreesWhenQuiet'
    BY DEF AgreesWhenQuiet, Quiet, TypeOK
  <2>. QED BY <2>1, <2>2, <2>3
<1>3. ASSUME NEW b \in Buttons, PinMoves(b)
      PROVE  IInv'
  <2> USE <1>3 DEF PinMoves, isrVars, callback, boot
  <2>1. TypeOK'
    BY DEF TypeOK
  <2>2. ReadingSound' /\ MovedRechecked'
    BY DEF ReadingSound, MovedRechecked, TypeOK
  <2>3. AgreesWhenQuiet'
    BY DEF AgreesWhenQuiet, Quiet, TypeOK
  <2>. QED BY <2>1, <2>2, <2>3
<1>. QED BY <1>1, <1>2, <1>3

\* The interrupt: an edge becomes a job.
LEMMA InterruptKeeps ==
  ASSUME IInv, Interrupt
  PROVE  IInv'
<1> USE DEF IInv
<1>1. ASSUME NEW b \in Buttons, IsrEnter(b)
      PROVE  IInv'
  <2> USE <1>1, ButtonsAssumption
      DEF IsrEnter, InThread, pins, callback, boot, Rechecked, Queued
  <2>1. TypeOK'
    BY DEF TypeOK
  <2>2. ReadingSound' /\ MovedRechecked'
    BY DEF ReadingSound, MovedRechecked
  <2>3. AgreesWhenQuiet'
    BY DEF AgreesWhenQuiet, Quiet, TypeOK
  <2>. QED BY <2>1, <2>2, <2>3
<1>2. CASE IsrReturn
  <2>1. isr \in Buttons /\ Job(isr) \in Entries
    BY <1>2, EntryTypes DEF IsrReturn, TypeOK
  <2>2. /\ queue' \in Seq(Entries) /\ Len(queue') = Len(queue) + 1
        /\ \A entry : Queued(entry)' <=> Queued(entry) \/ entry = Job(isr)
    BY <1>2, <2>1, AppendQueues DEF IsrReturn, TypeOK
  <2>3. \A b \in Buttons : Rechecked(b) => Rechecked(b)'
    BY <1>2, <2>1, <2>2 DEF IsrReturn, Rechecked, TypeOK
  <2>4. \A b \in Buttons : Quiet(b)' => Quiet(b)
    <3>1. ASSUME NEW b \in Buttons, ~Rechecked(b)'
          PROVE  ~Rechecked(b)
      BY <2>3, <3>1
    <3>2. \A entry : ~Queued(entry)' => ~Queued(entry)
      BY <2>2
    <3>. QED BY <1>2, <3>1, <3>2 DEF IsrReturn, callback, Quiet
  <2>5. TypeOK'
    <3>1. Len(queue) \in Nat /\ Len(queue) + 1 <= QueueLen
      BY <1>2, QueueLenAssumption DEF IsrReturn, CanSend, TypeOK
    <3>. QED BY <1>2, <2>1, <2>2, <3>1
           DEF IsrReturn, callback, boot, TypeOK
  <2>6. ReadingSound' /\ MovedRechecked'
    BY <1>2, <2>3 DEF IsrReturn, callback, ReadingSound, MovedRechecked
  <2>7. AgreesWhenQuiet'
    <3>1. ready \subseteq Buttons
      BY DEF TypeOK
    <3>. QED BY <1>2, <2>4, <3>1 DEF IsrReturn, boot, AgreesWhenQuiet
  <2>. QED BY <2>5, <2>6, <2>7
<1>3. CASE IsrPanics
  BY <1>3 DEF IsrPanics, pins, isrVars, callback, boot, TypeOK, ReadingSound,
     MovedRechecked, AgreesWhenQuiet, Rechecked, Queued
<1>. QED BY <1>1, <1>2, <1>3 DEF Interrupt

\* A timer that ends.
LEMMA TickKeeps ==
  ASSUME IInv, NEW b \in Buttons, TimerTick(b)
  PROVE  IInv'
<1> USE DEF IInv
<1>1. CASE TimerExpires(b)
  <2>1. /\ queue' \in Seq(Entries) /\ Len(queue') = Len(queue) + 1
        /\ \A entry : Queued(entry)' <=> Queued(entry) \/ entry = Expiry(b)
    BY <1>1, EntryTypes, AppendQueues DEF TimerExpires, TypeOK
  <2>2. \A c \in Buttons : Rechecked(c)' <=> Rechecked(c)
    BY <1>1, <2>1, EntryTypes DEF TimerExpires, pins, isrVars, Rechecked
  <2>3. TypeOK'
    BY <1>1, <2>1, QueueLenAssumption
       DEF TimerExpires, pins, isrVars, callback, boot, TypeOK
  <2>4. ReadingSound' /\ MovedRechecked'
    BY <1>1, <2>2 DEF TimerExpires, pins, callback, ReadingSound,
       MovedRechecked
  <2>5. \A c \in Buttons : Quiet(c)' => Quiet(c)
    <3>1. ASSUME NEW c \in Buttons, Quiet(c)'
          PROVE  Quiet(c)
      <4>1. c # b
        BY <2>1, <3>1 DEF Quiet
      <4>2. timer'[c] = timer[c]
        BY <1>1, <4>1 DEF TimerExpires, TypeOK
      <4>. QED BY <1>1, <2>1, <2>2, <3>1, <4>2
              DEF TimerExpires, callback, Quiet
    <3>. QED BY <3>1
  <2>6. AgreesWhenQuiet'
    BY <1>1, <2>5 DEF TimerExpires, pins, boot, AgreesWhenQuiet, TypeOK
  <2>. QED BY <2>3, <2>4, <2>6
<1>2. CASE TimerOverflows(b)
  BY <1>2 DEF TimerOverflows, pins, isrVars, callback, boot, TypeOK,
     ReadingSound, MovedRechecked, AgreesWhenQuiet, Rechecked, Queued
<1>. QED BY <1>1, <1>2 DEF TimerTick

\* The job, and the callback up to its reading: both take an entry.
LEMMA TakeKeeps ==
  ASSUME IInv, NEW b \in Buttons, TimerJob(b) \/ CallbackReads(b)
  PROVE  IInv'
<1> USE DEF IInv
<1>1. CASE TimerJob(b)
  <2>1. /\ queue' \in Seq(Entries) /\ Len(queue') <= Len(queue)
        /\ Len(queue) \in Nat /\ Len(queue') \in Nat
        /\ \A entry : Queued(entry) => Queued(entry)' \/ entry = Job(b)
    BY <1>1, TakeQueues DEF TimerJob, TypeOK
  <2>2. \A c \in Buttons : c # b /\ Rechecked(c) => Rechecked(c)'
    BY <1>1, <2>1, EntryTypes DEF TimerJob, pins, isrVars, Rechecked
  <2>3. /\ timer' = [timer EXCEPT ![b] = TRUE]
        /\ moved' = [moved EXCEPT ![b] = FALSE]
    BY <1>1 DEF TimerJob, StartTimer
  <2>4. TypeOK'
    BY <1>1, <2>1, <2>3, QueueLenAssumption
       DEF TimerJob, pins, isrVars, callback, boot, TypeOK
  <2>5. ReadingSound'
    BY <1>1 DEF TimerJob, Take, callback, ReadingSound
  <2>6. MovedRechecked'
    BY <2>2, <2>3 DEF MovedRechecked, TypeOK
  <2>7. \A c \in Buttons : Quiet(c)' => Quiet(c)
    <3>1. ASSUME NEW c \in Buttons, Quiet(c)'
          PROVE  Quiet(c)
      <4>1. c # b
        BY <2>3, <3>1 DEF Quiet, TypeOK
      <4>2. timer'[c] = timer[c]
        BY <2>3, <4>1 DEF TypeOK
      <4>3. Expiry(c) # Job(b)
        BY EntryTypes
      <4>. QED BY <1>1, <2>1, <2>2, <3>1, <4>1, <4>2, <4>3
              DEF TimerJob, callback, Quiet
    <3>. QED BY <3>1
  <2>8. AgreesWhenQuiet'
    BY <1>1, <2>7 DEF TimerJob, pins, boot, AgreesWhenQuiet, TypeOK
  <2>. QED BY <2>4, <2>5, <2>6, <2>8
<1>2. CASE CallbackReads(b)
  <2>1. /\ queue' \in Seq(Entries) /\ Len(queue') <= Len(queue)
        /\ Len(queue) \in Nat /\ Len(queue') \in Nat
        /\ \A entry : Queued(entry) => Queued(entry)' \/ entry = Expiry(b)
    BY <1>2, TakeQueues DEF CallbackReads, TypeOK
  <2>2. \A c \in Buttons : Rechecked(c) => Rechecked(c)'
    BY <1>2, <2>1, EntryTypes DEF CallbackReads, pins, isrVars, Rechecked
  <2>3. TypeOK'
    BY <1>2, <2>1, QueueLenAssumption
       DEF CallbackReads, pins, isrVars, boot, TypeOK
  <2>4. ReadingSound' /\ MovedRechecked'
    BY <1>2, <2>2 DEF CallbackReads, pins, ReadingSound, MovedRechecked
  <2>5. \A c \in Buttons : Quiet(c)' => Quiet(c)
    <3>1. ASSUME NEW c \in Buttons, Quiet(c)'
          PROVE  Quiet(c)
      <4>1. c # b
        BY <1>2, <3>1 DEF CallbackReads, Quiet
      <4>2. Expiry(c) # Expiry(b)
        BY <4>1, EntryTypes
      <4>3. cbOf # c
        BY <1>2, ButtonsAssumption DEF CallbackReads, Take, TypeOK
      <4>. QED BY <1>2, <2>1, <2>2, <3>1, <4>2, <4>3
              DEF CallbackReads, Quiet
    <3>. QED BY <3>1
  <2>6. AgreesWhenQuiet'
    BY <1>2, <2>5 DEF CallbackReads, pins, boot, AgreesWhenQuiet, TypeOK
  <2>. QED BY <2>3, <2>4, <2>6
<1>. QED BY <1>1, <1>2

\* The callback after its reading.
LEMMA CallbackKeeps ==
  ASSUME IInv, CallbackAgrees \/ CallbackDiffers \/ CallbackRearms
  PROVE  IInv'
<1> USE DEF IInv
<1>1. CASE CallbackAgrees
  <2> USE <1>1 DEF CallbackAgrees, CallbackEnds, InThread, pins, isrVars, boot
  <2>1. cbOf \in Buttons
    BY DEF TypeOK
  <2>2. \A b \in Buttons : Rechecked(b)' <=> Rechecked(b)
    BY DEF Rechecked, Queued
  <2>3. TypeOK'
    BY <2>1 DEF TypeOK
  <2>4. ReadingSound' /\ MovedRechecked'
    BY <2>2 DEF ReadingSound, MovedRechecked
  <2>5. AgreesWhenQuiet'
    <3>1. ASSUME NEW b \in ready, Quiet(b)'
          PROVE  state'[b] = pin[b]
      <4>1. b \in Buttons /\ ~Rechecked(b)
        BY <2>2, <3>1 DEF Quiet, TypeOK
      <4>2. CASE b = cbOf
        BY <4>1, <4>2 DEF ReadingSound, TypeOK
      <4>3. CASE b # cbOf
        <5>1. Quiet(b)
          BY <2>2, <3>1, <4>1, <4>3 DEF Quiet, Queued
        <5>2. state'[b] = state[b]
          BY <4>1, <4>3 DEF TypeOK
        <5>. QED BY <5>1, <5>2 DEF AgreesWhenQuiet
      <4>. QED BY <4>2, <4>3
    <3>. QED BY <3>1 DEF AgreesWhenQuiet
  <2>. QED BY <2>3, <2>4, <2>5
<1>2. CASE CallbackDiffers
  BY <1>2 DEF CallbackDiffers, InThread, pins, isrVars, boot, TypeOK,
     ReadingSound, MovedRechecked, AgreesWhenQuiet, Quiet, Rechecked, Queued
<1>3. CASE CallbackRearms
  <2> USE <1>3 DEF CallbackRearms, CallbackEnds, StartTimer, InThread, pins,
                  isrVars, boot
  <2>1. cbOf \in Buttons
    BY DEF TypeOK
  <2>2. \A b \in Buttons : Rechecked(b)' <=> Rechecked(b)
    BY DEF Rechecked, Queued
  <2>3. TypeOK'
    BY <2>1 DEF TypeOK
  <2>4. ReadingSound' /\ MovedRechecked'
    BY <2>1, <2>2 DEF ReadingSound, MovedRechecked, TypeOK
  <2>5. AgreesWhenQuiet'
    <3>1. ASSUME NEW b \in ready, Quiet(b)'
          PROVE  state'[b] = pin[b]
      <4>1. b \in Buttons /\ b # cbOf
        BY <2>1, <3>1 DEF Quiet, TypeOK
      <4>2. Quiet(b)
        BY <2>2, <3>1, <4>1 DEF Quiet, Queued, TypeOK
      <4>. QED BY <4>2 DEF AgreesWhenQuiet
    <3>. QED BY <3>1 DEF AgreesWhenQuiet
  <2>. QED BY <2>3, <2>4, <2>5
<1>. QED BY <1>1, <1>2, <1>3

\* Every step keeps the invariant.
LEMMA StepKeeps == IInv /\ [Next]_vars => IInv'
<1> SUFFICES ASSUME IInv, [Next]_vars PROVE IInv'
  OBVIOUS
<1>1. CASE UNCHANGED vars
  BY <1>1 DEF vars, pins, isrVars, callback, boot, IInv, TypeOK, ReadingSound,
     MovedRechecked, AgreesWhenQuiet, Quiet, Rechecked, Queued
<1>. QED
  BY <1>1, BootKeeps, InterruptKeeps, TickKeeps, TakeKeeps, CallbackKeeps
     DEF Next, TimerThread

-----------------------------------------------------------------------------
(* The theorems.                                                           *)

\* Every behaviour of the buttons satisfies the inductive invariant.
THEOREM Invariance == Spec => []IInv
BY InitIInv, StepKeeps, PTL DEF Spec

\* The type invariant; the queue never holds more than its length.
THEOREM TypeCorrect == Spec => []TypeOK
<1>1. IInv => TypeOK
  BY DEF IInv
<1>. QED BY <1>1, Invariance, PTL

\* Whenever nothing is under way for a button, its state is that of its pin.
THEOREM AgreesWhenQuietHolds == Spec => []AgreesWhenQuiet
<1>1. IInv => AgreesWhenQuiet
  BY DEF IInv
<1>. QED BY <1>1, Invariance, PTL

\* A change that is reported has been stable for a debounce period, or a new
\* period is on its way.
THEOREM DebouncedHolds == Spec => Debounced
<1>1. IInv /\ [Next]_vars => [SoundReport]_vars
  <2> SUFFICES ASSUME IInv, Next, NEW b \in Buttons, cbOf = b,
                      state'[b] # state[b], ~Rechecked(b)
               PROVE  ~moved[b] /\ state'[b] = pin[b]
    BY DEF SoundReport
  <2> USE DEF IInv
  <2>1. ~moved[b]
    BY DEF MovedRechecked
  <2>2. CASE CallbackAgrees
    BY <2>1, <2>2 DEF CallbackAgrees, ReadingSound, TypeOK
  <2>3. ASSUME NEW c \in Buttons, InitButton(c), c = b
        PROVE  state'[b] = pin[b]
    BY <2>3 DEF InitButton, TypeOK
  <2>4. ASSUME NEW c \in Buttons, InitButton(c), c # b
        PROVE  FALSE
    BY <2>4 DEF InitButton, TypeOK
  <2>5. CASE CallbackDiffers \/ CallbackRearms \/ Interrupt \/ StartKernel
    BY <2>5 DEF CallbackDiffers, CallbackRearms, Interrupt, IsrEnter,
       IsrReturn, IsrPanics, StartKernel
  <2>6. ASSUME NEW c \in Buttons,
               \/ PinMoves(c) \/ TimerTick(c) \/ TimerJob(c) \/ CallbackReads(c)
        PROVE  FALSE
    BY <2>6 DEF PinMoves, TimerTick, TimerExpires, TimerOverflows, TimerJob,
       CallbackReads
  <2>. QED BY <2>1, <2>2, <2>3, <2>4, <2>5, <2>6 DEF Next, TimerThread
<1>2. Spec => [][Next]_vars
  BY PTL DEF Spec
<1>3. []IInv /\ [][Next]_vars => [][SoundReport]_vars
  BY <1>1, PTL
<1>. QED BY <1>2, <1>3, Invariance, PTL DEF Debounced
=============================================================================
