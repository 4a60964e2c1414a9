-------------------------------- MODULE MCUsb --------------------------------
(***************************************************************************)
(* Usb for TLC; the configurations give the constants.                     *)
(***************************************************************************)
EXTENDS Usb
=============================================================================
