-------------------------------- MODULE MCXfer --------------------------------
(***************************************************************************)
(* Xfer for TLC; the configurations give the constants.                    *)
(***************************************************************************)
EXTENDS Xfer
=============================================================================
