---------------------------- MODULE ThreadFlags ----------------------------
(***************************************************************************)
(* The CMSIS-RTX5 thread flags of the main thread, as the wrappers of      *)
(* external/cmsis-rtx/src/thread.zig use them.                             *)
(*                                                                         *)
(* RTX hands a set flag straight to a thread that is blocked waiting for   *)
(* it: the flags the wait matches are cleared inside osThreadFlagsSet and  *)
(* become the waiter's return value.  Flags set after that stay pending    *)
(* until the next wait.  So flags are coalesced into one wake-up only      *)
(* while the thread is busy, never while it is blocked.                    *)
(***************************************************************************)
EXTENDS FiniteSets

VARIABLES
  flags,     \* flags set and not yet consumed (osRtxThread_t.thread_flags)
  waitMask,  \* the flags a blocked osThreadFlagsWait waits for, {} when running
  got        \* what the last wait returned and the caller has not handled yet

flagVars == <<flags, waitMask, got>>

FlagsInit ==
  /\ flags = {}
  /\ waitMask = {}
  /\ got = {}

Blocked == waitMask # {}

\* osThreadFlagsSet: wake a waiter with exactly the flags it matches.
FlagsSet(fs) ==
  LET hit == (flags \cup fs) \cap waitMask IN
    /\ flags' = (flags \cup fs) \ hit
    /\ IF hit # {}
         THEN got' = hit /\ waitMask' = {}
         ELSE UNCHANGED <<got, waitMask>>

\* Fault: the wait does not consume what it returns (osFlagsNoClear).
FlagsWait_NoClear(mask) ==
  LET hit == flags \cap mask IN
    /\ flags' = flags
    /\ got' = hit
    /\ waitMask' = IF hit # {} THEN {} ELSE mask

\* osThreadFlagsWait with osFlagsWaitAny: return what is pending or block.
FlagsWait(mask) ==
  LET hit == flags \cap mask IN
    /\ flags' = flags \ hit
    /\ got' = hit
    /\ waitMask' = IF hit # {} THEN {} ELSE mask

\* The wait times out: flagsWait returns null.
FlagsTimeout ==
  /\ Blocked
  /\ waitMask' = {}
  /\ UNCHANGED <<flags, got>>
=============================================================================
