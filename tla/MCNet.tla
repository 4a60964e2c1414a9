-------------------------------- MODULE MCNet --------------------------------
(***************************************************************************)
(* Net for TLC; the configurations give the constants.                     *)
(***************************************************************************)
EXTENDS Net
=============================================================================
