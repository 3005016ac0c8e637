---------------------------- MODULE MCNtpClient ----------------------------
(***************************************************************************)
(* Instances of NtpClient for TLC.                                         *)
(***************************************************************************)
EXTENDS NtpClient
=============================================================================
