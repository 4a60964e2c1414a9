--------------------------------- MODULE Rpc ---------------------------------
(***************************************************************************)
(* What the packet layers promise to a DLP call: a request is carried out  *)
(* by the device at most once, a call that succeeds was carried out, and a *)
(* call may fail at any time, carried out or not.                          *)
(***************************************************************************)
EXTENDS Naturals

CONSTANTS
  MaxCalls,  \* number of calls the application makes
  GoesOn     \* does the application call again after a call that failed?

VARIABLES
  phase,     \* "idle" or "busy": is a call in progress?
  call,      \* number of the last call begun
  result,    \* result of the last call: "none", "ok" or "error"
  execs      \* execs[k]: how many times the device carried out call k

vars == <<phase, call, result, execs>>

Init ==
  /\ phase = "idle"
  /\ call = 0
  /\ result = "none"
  /\ execs = [k \in 1..MaxCalls |-> 0]

Begin ==
  /\ phase = "idle"
  /\ call < MaxCalls
  /\ result # "error" \/ GoesOn
  /\ phase' = "busy"
  /\ call' = call + 1
  /\ result' = "none"
  /\ UNCHANGED execs

(* The device may still carry out a call that has failed meanwhile. *)
Execute(k) ==
  /\ k <= call
  /\ execs[k] = 0
  /\ execs' = [execs EXCEPT ![k] = 1]
  /\ UNCHANGED <<phase, call, result>>

Succeed ==
  /\ phase = "busy"
  /\ execs[call] = 1
  /\ phase' = "idle"
  /\ result' = "ok"
  /\ UNCHANGED <<call, execs>>

Fail ==
  /\ phase = "busy"
  /\ phase' = "idle"
  /\ result' = "error"
  /\ UNCHANGED <<call, execs>>

Next == Begin \/ (\E k \in 1..MaxCalls : Execute(k)) \/ Succeed \/ Fail

Spec == Init /\ [][Next]_vars
=============================================================================
