---------------------------- MODULE LinkPromise ----------------------------
(***************************************************************************)
(* What ethernetif_wait_linkup promises (ethernetif.h:164-186): a call     *)
(* returns ERR_OK only if the link has been up at some moment since it     *)
(* began, it may give up, and it returns unless an assertion stops it.     *)
(***************************************************************************)
VARIABLES
  up,     \* the link of the interface is up
  call    \* "none", "waiting", "seen" (waiting, the link was up), "ok",
          \* "stopped"

vars == <<up, call>>

Init == up \in BOOLEAN /\ call = "none"

LinkChanges ==
  /\ up' = ~up
  /\ call' = IF call = "waiting" /\ up' THEN "seen" ELSE call

Call ==
  /\ call = "none"
  /\ call' = IF up THEN "ok" ELSE "waiting"
  /\ UNCHANGED up

ReturnOk == call = "seen" /\ call' = "ok" /\ UNCHANGED up

GiveUp == call \in {"waiting", "seen"} /\ call' = "none" /\ UNCHANGED up

Stop == call \in {"waiting", "seen"} /\ call' = "stopped" /\ UNCHANGED up

Next == LinkChanges \/ Call \/ ReturnOk \/ GiveUp \/ Stop

Spec == Init /\ [][Next]_vars /\ WF_vars(ReturnOk \/ GiveUp)
=============================================================================
