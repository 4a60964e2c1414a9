------------------------------- MODULE MCPadp -------------------------------
(***************************************************************************)
(* Padp and PadpWatchdog for TLC; the configurations give the constants.   *)
(***************************************************************************)
EXTENDS PadpWatchdog
=============================================================================
