------------------------------- MODULE Button -------------------------------
(***************************************************************************)
(* The buttons (board/frdmmcxe247/src/button.zig): a pin interrupt on both *)
(* edges, a job for the timer thread that starts a debounce timer, and the *)
(* callback of that timer, which compares the pin with what the interrupt  *)
(* or the callback before it has read.                                     *)
(*                                                                         *)
(* The interrupt routines do not nest and run before any thread; the pins  *)
(* move at any time, also within a routine.  RTX's timer thread takes jobs *)
(* and expired timers from one queue of a few entries.  A panic, and the   *)
(* kernel's error notification, end everything.                            *)
(***************************************************************************)
EXTENDS Naturals, Sequences

CONSTANTS
  Buttons,    \* ButtonId
  NoButton,
  QueueLen    \* OS_TIMER_CB_QUEUE

ASSUME ButtonsAssumption == NoButton \notin Buttons
ASSUME QueueLenAssumption == QueueLen \in Nat \ {0}

VARIABLES
  pin,        \* what readPin returns
  edge,       \* the port's interrupt flag of the pin
  isr,        \* the button whose interrupt routine runs
  isrRead,    \* what the routine has read
  isr_state,
  state,
  timer,      \* debounce_timer runs
  queue,      \* the queue of RTX's timer thread
  cbAt,       \* where timerCallback is
  cbOf,       \* its button
  cbNew,      \* its new_value
  ready,      \* the buttons whose init has run
  running,    \* the kernel is started
  panic,
  moved       \* history: the pin has moved since its timer was started

pins == <<pin, edge>>
isrVars == <<isr, isrRead>>
callback == <<cbAt, cbOf, cbNew>>
boot == <<ready, running>>
vars == <<pins, isrVars, isr_state, state, timer, queue, callback, boot,
          panic, moved>>

Job(b) == [kind |-> "job", of |-> b]
Expiry(b) == [kind |-> "expiry", of |-> b]
Entries == [kind : {"job", "expiry"}, of : Buttons]

\* Interrupts are enabled by initPreKernel, before anything else.
Init ==
  /\ pin \in [Buttons -> BOOLEAN]
  /\ edge = [b \in Buttons |-> FALSE]
  /\ isr = NoButton
  /\ isrRead = FALSE
  /\ isr_state = [b \in Buttons |-> FALSE]
  /\ state = [b \in Buttons |-> FALSE]
  /\ timer = [b \in Buttons |-> FALSE]
  /\ queue = <<>>
  /\ cbAt = "idle"
  /\ cbOf = NoButton
  /\ cbNew = FALSE
  /\ ready = {}
  /\ running = FALSE
  /\ panic = FALSE
  /\ moved = [b \in Buttons |-> FALSE]

-----------------------------------------------------------------------------
(* Boot.                                                                   *)

\* Threads, and what runs before them, run when no interrupt routine does.
InThread == isr = NoButton /\ ~panic

\* Button.init, from board.initialize.
InitButton(b) ==
  /\ InThread /\ b \notin ready
  /\ state' = [state EXCEPT ![b] = pin[b]]
  /\ ready' = ready \cup {b}
  /\ UNCHANGED <<pins, isrVars, isr_state, timer, queue, callback, running,
                 panic, moved>>

\* kernel.start
StartKernel ==
  /\ InThread /\ ~running /\ ready = Buttons
  /\ running' = TRUE
  /\ UNCHANGED <<pins, isrVars, isr_state, state, timer, queue, callback,
                 ready, panic, moved>>

-----------------------------------------------------------------------------
(* The pin and its interrupt.                                              *)

PinMoves(b) ==
  /\ ~panic
  /\ pin' = [pin EXCEPT ![b] = ~pin[b]]
  /\ edge' = [edge EXCEPT ![b] = TRUE]
  /\ moved' = [moved EXCEPT ![b] = TRUE]
  /\ UNCHANGED <<isrVars, isr_state, state, timer, queue, callback, boot,
                 panic>>

\* PORTx_IRQHandler and handleIsr, up to readPin.
IsrEnter(b) ==
  /\ InThread /\ edge[b]
  /\ isr' = b
  /\ isrRead' = pin[b]
  /\ UNCHANGED <<pins, isr_state, state, timer, queue, callback, boot, panic,
                 moved>>

\* Fault: the room in the queue is not looked at.
CanSend_AnyRoom == running

\* osKernelTimer.send puts into a queue that exists and has room, or fails.
CanSend == running /\ Len(queue) < QueueLen

\* Fault: the job is sent for a change of the value only.
IsrReturn_OnChange ==
  /\ isr # NoButton /\ CanSend /\ ~panic
  /\ isr_state' = [isr_state EXCEPT ![isr] = isrRead]
  /\ queue' = IF isrRead = isr_state[isr] THEN queue
              ELSE Append(queue, Job(isr))
  /\ edge' = [edge EXCEPT ![isr] = FALSE]
  /\ isr' = NoButton
  /\ isrRead' = FALSE
  /\ UNCHANGED <<pin, state, timer, callback, boot, panic, moved>>

\* The rest of handleIsr, and the clearing of the flag: an edge that came in
\* between is cleared with it.
IsrReturn ==
  /\ isr # NoButton /\ CanSend /\ ~panic
  /\ isr_state' = [isr_state EXCEPT ![isr] = isrRead]
  /\ queue' = Append(queue, Job(isr))
  /\ edge' = [edge EXCEPT ![isr] = FALSE]
  /\ isr' = NoButton
  /\ isrRead' = FALSE
  /\ UNCHANGED <<pin, state, timer, callback, boot, panic, moved>>

\* send(...) catch unreachable
IsrPanics ==
  /\ isr # NoButton /\ ~CanSend /\ ~panic
  /\ isr_state' = [isr_state EXCEPT ![isr] = isrRead]
  /\ panic' = TRUE
  /\ UNCHANGED <<pins, isrVars, state, timer, queue, callback, boot, moved>>

-----------------------------------------------------------------------------
(* The timer thread.                                                       *)

\* The tick of a one-shot timer that ends.
TimerExpires(b) ==
  /\ InThread /\ timer[b]
  /\ Len(queue) < QueueLen
  /\ timer' = [timer EXCEPT ![b] = FALSE]
  /\ queue' = Append(queue, Expiry(b))
  /\ UNCHANGED <<pins, isrVars, isr_state, state, callback, boot, panic, moved>>

\* The same with a full queue: osRtxErrorNotify, which does not return.
TimerOverflows(b) ==
  /\ InThread /\ timer[b]
  /\ Len(queue) = QueueLen
  /\ timer' = [timer EXCEPT ![b] = FALSE]
  /\ panic' = TRUE
  /\ UNCHANGED <<pins, isrVars, isr_state, state, queue, callback, boot, moved>>

\* Fault: a timer that runs already goes on as it is.
StartTimer_KeepsRunning(b) ==
  /\ timer' = [timer EXCEPT ![b] = TRUE]
  /\ moved' = [moved EXCEPT ![b] = timer[b] /\ moved[b]]

\* debounce_timer.start, which restarts a running timer.
StartTimer(b) ==
  /\ timer' = [timer EXCEPT ![b] = TRUE]
  /\ moved' = [moved EXCEPT ![b] = FALSE]

\* The timer thread takes the entry at the head of its queue.
Take(entry) ==
  /\ InThread /\ running /\ cbAt = "idle"
  /\ queue # <<>> /\ Head(queue) = entry
  /\ queue' = Tail(queue)

TimerJob(b) ==
  /\ Take(Job(b))
  /\ StartTimer(b)
  /\ UNCHANGED <<pins, isrVars, isr_state, state, callback, boot, panic>>

\* timerCallback, up to readPin.
CallbackReads(b) ==
  /\ Take(Expiry(b))
  /\ cbAt' = "compare"
  /\ cbOf' = b
  /\ cbNew' = pin[b]
  /\ UNCHANGED <<pins, isrVars, isr_state, state, timer, boot, panic, moved>>

CallbackEnds ==
  /\ cbAt' = "idle"
  /\ cbOf' = NoButton
  /\ cbNew' = FALSE

\* The value is the last one seen: it becomes the state.
CallbackAgrees ==
  /\ InThread /\ cbAt = "compare"
  /\ cbNew = isr_state[cbOf]
  /\ state' = [state EXCEPT ![cbOf] = cbNew]
  /\ CallbackEnds
  /\ UNCHANGED <<pins, isrVars, isr_state, timer, queue, boot, panic, moved>>

CallbackDiffers ==
  /\ InThread /\ cbAt = "compare"
  /\ cbNew # isr_state[cbOf]
  /\ cbAt' = "rearm"
  /\ UNCHANGED <<pins, isrVars, isr_state, state, timer, queue, cbOf, cbNew,
                 boot, panic, moved>>

\* Fault: no second look.
CallbackRearms_Once ==
  /\ InThread /\ cbAt = "rearm"
  /\ isr_state' = [isr_state EXCEPT ![cbOf] = cbNew]
  /\ CallbackEnds
  /\ UNCHANGED <<pins, isrVars, state, timer, queue, boot, panic, moved>>

\* It is not: it is kept, and the timer started again.
CallbackRearms ==
  /\ InThread /\ cbAt = "rearm"
  /\ isr_state' = [isr_state EXCEPT ![cbOf] = cbNew]
  /\ StartTimer(cbOf)
  /\ CallbackEnds
  /\ UNCHANGED <<pins, isrVars, state, queue, boot, panic>>

TimerThread ==
  \/ \E b \in Buttons : TimerJob(b) \/ CallbackReads(b)
  \/ CallbackAgrees \/ CallbackDiffers \/ CallbackRearms

-----------------------------------------------------------------------------
Interrupt == (\E b \in Buttons : IsrEnter(b)) \/ IsrReturn \/ IsrPanics

TimerTick(b) == TimerExpires(b) \/ TimerOverflows(b)

Next ==
  \/ \E b \in Buttons : InitButton(b) \/ PinMoves(b) \/ TimerTick(b)
  \/ StartKernel
  \/ Interrupt
  \/ TimerThread

Spec == Init /\ [][Next]_vars

\* The processor serves interrupts, boots, and runs the timer thread; a timer
\* that is not started again expires.
Fairness ==
  /\ WF_vars(Interrupt)
  /\ WF_vars(StartKernel \/ \E b \in Buttons : InitButton(b))
  /\ WF_vars(TimerThread)
  /\ \A b \in Buttons : WF_vars(TimerTick(b))

FairSpec == Spec /\ Fairness

-----------------------------------------------------------------------------
(* Properties.                                                             *)

\* The type invariant.
TypeOK ==
  /\ pin \in [Buttons -> BOOLEAN] /\ edge \in [Buttons -> BOOLEAN]
  /\ isr \in Buttons \cup {NoButton} /\ isrRead \in BOOLEAN
  /\ isr_state \in [Buttons -> BOOLEAN] /\ state \in [Buttons -> BOOLEAN]
  /\ timer \in [Buttons -> BOOLEAN] /\ moved \in [Buttons -> BOOLEAN]
  /\ queue \in Seq(Entries) /\ Len(queue) <= QueueLen
  /\ cbAt \in {"idle", "compare", "rearm"}
  /\ cbOf \in (IF cbAt = "idle" THEN {NoButton} ELSE Buttons)
  /\ cbNew \in BOOLEAN
  /\ ready \subseteq Buttons
  /\ running \in BOOLEAN /\ panic \in BOOLEAN

Queued(entry) == \E i \in 1..Len(queue) : queue[i] = entry

\* The pin is going to be looked at a full debounce period from now.
Rechecked(b) == edge[b] \/ isr = b \/ Queued(Job(b))

\* Nothing is under way for this button.
Quiet(b) ==
  /\ ~Rechecked(b) /\ ~Queued(Expiry(b)) /\ ~timer[b]
  /\ cbOf # b

\* When nothing is under way for a button, its state is the pin's: no sequence
\* of edges, lost ones included, leaves it wrong (button.zig:42-103).
AgreesWhenQuiet ==
  ~panic => \A b \in ready : Quiet(b) => state[b] = pin[b]

\* A change of a state that was reported of a pin that has not moved for as
\* long as the timer ran, or of one that is looked at again.
SoundReport ==
  \A b \in Buttons : cbOf = b /\ state'[b] # state[b] =>
    \/ ~moved[b] /\ state'[b] = pin[b]
    \/ Rechecked(b)

\* The debouncing: a change is reported of a pin that has been stable for a
\* whole period, unless a new period for this pin is already on its way (an edge
\* between the expiry and the comparison, button.zig:43-50).
Debounced == [][SoundReport]_vars

\* When the pins settle, so do the states, short of a panic.
Settles ==
  (\E v \in [Buttons -> BOOLEAN] : <>[](pin = v))
    => <>[](panic \/ state = pin)
=============================================================================
