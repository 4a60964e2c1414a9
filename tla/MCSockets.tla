------------------------------ MODULE MCSockets ------------------------------
(***************************************************************************)
(* Sockets for TLC: two threads with a socket each, or one with two.       *)
(***************************************************************************)
EXTENDS Sockets, TLC

CONSTANTS t1, t2, s1, s2

EachItsOwn == s1 :> t1 @@ s2 :> t2
BothOfOne  == s1 :> t1 @@ s2 :> t1
=============================================================================
