----------------------------- MODULE SyncWrite -----------------------------
(***************************************************************************)
(* What a write to the serial line promises: one writer at a time, and it  *)
(* returns only when the last of its bytes has left.                       *)
(***************************************************************************)
EXTENDS Naturals

CONSTANTS Writers, MaxBytes

VARIABLES writer, left

vars == <<writer, left>>

Init == writer = "none" /\ left = 0

Begin ==
  /\ writer = "none" /\ left = 0
  /\ writer' \in Writers /\ left' \in 1..MaxBytes

Byte == left > 0 /\ left' = left - 1 /\ UNCHANGED writer

End == writer # "none" /\ left = 0 /\ writer' = "none" /\ UNCHANGED left

Next == Begin \/ Byte \/ End

Spec == Init /\ [][Next]_vars /\ WF_vars(Byte \/ End)
=============================================================================
