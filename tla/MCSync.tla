------------------------------- MODULE MCSync -------------------------------
(***************************************************************************)
(* Sync for TLC; the configurations give the constants.                    *)
(***************************************************************************)
EXTENDS Sync
=============================================================================
