----------------------------- MODULE MCMainTask ----------------------------
(***************************************************************************)
(* Small instances of MainTask for TLC.  The model is finite by itself: no *)
(* counter is unbounded, so no bound cuts a behaviour short.               *)
(***************************************************************************)
EXTENDS MainTaskProps

CONSTANTS a1, a2

\* The corrections next to the two thresholds of process_ntp_trigger.
MCDiffs == 2..5

\* Below and above the clamp of an hour.
MCPolls == {16, 4096}
=============================================================================
