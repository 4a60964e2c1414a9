------------------------------- MODULE MCSerial -------------------------------
(***************************************************************************)
(* Serial for TLC: data that are plain, and data that hold a signature, *)
(* which are too long if Room is 2.                                        *)
(***************************************************************************)
EXTENDS Serial

MCPayloads == {<<"data">>, <<"be", "ef", "ed">>}
=============================================================================
