----------------------------- MODULE TxChannel -----------------------------
(***************************************************************************)
(* What the transmit path promises to lwIP: a bounded first-in first-out   *)
(* channel.  Each frame that a thread sends is handed over once and whole, *)
(* and leaves in order - as long as no two threads were in the path in a   *)
(* way it does not allow (`damaged'); after that it promises nothing.      *)
(***************************************************************************)
EXTENDS Naturals, Sequences

CONSTANTS Senders, Frames, Capacity, NoFrame

VARIABLES
  sending,   \* the frame each sender is sending, or NoFrame
  channel,   \* the frames handed over that have not left yet
  damaged    \* the rule about the callers was broken

vars == <<sending, channel, damaged>>

Init ==
  /\ sending = [s \in Senders |-> NoFrame]
  /\ channel = <<>>
  /\ damaged = FALSE

Send(s) ==
  /\ sending[s] = NoFrame
  /\ \E f \in Frames : sending' = [sending EXCEPT ![s] = f]
  /\ UNCHANGED channel

HandOver(s) ==
  /\ sending[s] # NoFrame /\ Len(channel) < Capacity
  /\ channel' = Append(channel, sending[s])
  /\ sending' = [sending EXCEPT ![s] = NoFrame]

Leave ==
  /\ channel # <<>>
  /\ channel' = Tail(channel)
  /\ UNCHANGED sending

Intact == ~damaged /\ damaged' = FALSE

Next ==
  \/ damaged'
  \/ Intact /\ (Leave \/ \E s \in Senders : Send(s) \/ HandOver(s))

\* The channel empties, and while it has room somebody's frame is handed over.
Spec ==
  /\ Init /\ [][Next]_vars
  /\ WF_vars(Intact /\ Leave)
  /\ WF_vars(Intact /\ \E s \in Senders : HandOver(s))
=============================================================================
