---------------------------- MODULE PadpWatchdog ----------------------------
(***************************************************************************)
(* Padp with the tickles of pi_tickle, which the application calls between *)
(* two DLP calls or pi_watchdog's SIGALRM handler calls at any moment.     *)
(***************************************************************************)
EXTENDS Padp

CONSTANTS
  MaxAlarms,  \* bound: number of tickles sent
  InHandler   \* are tickles sent by the signal handler?

ASSUME WatchdogAssumption == MaxAlarms \in Nat /\ InHandler \in BOOLEAN

VARIABLE alarms  \* tickles sent

TickleSentAsData == Data(TxTxid, 0, 1, call)
TickleFrame == Frame("tickle", FALSE, [Header(TxTxid, 0, 1) EXCEPT !.size = 0], call)

(* padp_tx with the type set to padTickle: the id advances as for any      *)
(* packet, input is flushed, and no ack is waited for.                     *)
Tickle ==
  /\ conn = "ACCEPT" /\ alarms < MaxAlarms
  /\ pc = "idle" \/ InHandler
  /\ alarms' = alarms + 1
  /\ txid' = TxTxid /\ nextTxid' = TxTxid
  /\ \E k \in 0..(IF FlushDiscards THEN Len(toHost) ELSE 0) :
       toHost' = SubSeq(toHost, k + 1, Len(toHost))
  /\ toDev' = Put(toDev, TickleFrame)
  /\ UNCHANGED <<pc, conn, lastAck, retries, sent, reqLen, stuck, rxbuf,
                 outcome, call, ids, devVars, used>>

WInit == Init /\ alarms = 0
WNext == (Next /\ UNCHANGED alarms) \/ Tickle
WSpec == WInit /\ [][WNext]_<<vars, alarms>>
WFairSpec == WSpec /\ Fairness

-----------------------------------------------------------------------------
(* Tickles keep the connection alive: where the line loses nothing no call *)
(* is disturbed by one.                                                    *)
TicklesHarmless == used.losses = 0 => CallsSucceed
=============================================================================
