-------------------------------- MODULE Sockets --------------------------------
(***************************************************************************)
(* The sockets of libpisock/socket.c: the list psl of all of them, the     *)
(* watch_list of those to be kept alive, the mutex of each list, and the   *)
(* watchdog, a handler of SIGALRM that tickles the sockets on watch_list.  *)
(* Threads create, use and close sockets of their own; the signal may      *)
(* interrupt any of them.  A call takes one step for each mutex it waits   *)
(* for, for what it does with it, and for its exchange with the device,    *)
(* in which it may wait and the connection may break.                      *)
(***************************************************************************)
EXTENDS Naturals, Sequences, FiniteSets, SequencesExt

CONSTANTS
  Threads,
  Sockets,
  Owner,          \* Owner[s]: the thread that calls functions on socket s
  Interval,       \* the interval of pi_watchdog, in ticks
  MaxWatch,       \* bound: times a socket is put on watch_list
  AlarmAnywhere   \* may SIGALRM interrupt a thread that holds a mutex?

ASSUME SocketsAssumption ==
  /\ Owner \in [Sockets -> Threads]
  /\ Interval \in Nat \ {0} /\ MaxWatch \in Nat
  /\ AlarmAnywhere \in BOOLEAN

VARIABLES
  state,       \* ps->state: "none" before pi_socket, "close", "listen",
               \* "connected" (CONN_INIT, CONN_ACCEPT), "break", "end", or
               \* "freed"
  psl,         \* the sockets on the list psl
  watch_list,
  mutex,       \* who holds psl_mutex and watch_list_mutex
  call,        \* what each thread is calling, if it is
  arg,         \* on which socket
  pc,          \* what it does there
  handler,     \* what onalarm does on each thread: "off", "lock", "scan",
               \* "find" or "tickle"
  rest,        \* the part of watch_list onalarm has before it
  interval,    \* 0 until pi_watchdog is called
  timer        \* ticks until SIGALRM, 0 when no alarm is set

calls == <<call, arg, pc>>
alarms == <<handler, rest>>
vars == <<state, psl, watch_list, mutex, calls, alarms, interval, timer>>

Nobody == <<>>
Mutexes == {"psl", "watch"}

Init ==
  /\ state = [s \in Sockets |-> "none"]
  /\ psl = {} /\ watch_list = <<>>
  /\ mutex = [m \in Mutexes |-> Nobody]
  /\ call = [t \in Threads |-> "none"]
  /\ arg \in {f \in [Threads -> Sockets] : \A t \in Threads :
                \A s \in Sockets : Owner[s] = t => Owner[f[t]] = t}
  /\ pc = [t \in Threads |-> "app"]
  /\ handler = [t \in Threads |-> "off"]
  /\ rest = [t \in Threads |-> <<>>]
  /\ interval = 0 /\ timer = 0

-----------------------------------------------------------------------------
Connected(s) == state[s] = "connected"

Lock(m, who) == mutex[m] = Nobody /\ mutex' = [mutex EXCEPT ![m] = who]
UnlockForgotten(m) == UNCHANGED mutex
Unlock(m)    == mutex' = [mutex EXCEPT ![m] = Nobody]

(* A thread runs while no handler runs on it. *)
Runs(t, label) == pc[t] = label /\ handler[t] = "off"

Call(t, c, label) ==
  call' = [call EXCEPT ![t] = c] /\ pc' = [pc EXCEPT ![t] = label]
GoTo(t, label) == Call(t, IF label = "app" THEN "none" ELSE call[t], label)

(* The mutex needed at a label. *)
Needs == [register |-> "psl", find |-> "psl", unlist |-> "psl",
          watch |-> "watch", unwatch |-> "watch"]
Holds(t, label) == Runs(t, label) /\ mutex[Needs[label]] = <<t, "call">>

Acquire(t) ==
  /\ pc[t] \in DOMAIN Needs /\ handler[t] = "off"
  /\ Lock(Needs[pc[t]], <<t, "call">>)
  /\ UNCHANGED <<state, psl, watch_list, calls, alarms, interval, timer>>

-----------------------------------------------------------------------------
(* The calls.  The application connects a socket once, and has pi_watchdog *)
(* watch one that is connected.                                            *)

Callable(s) ==
  {"send", "tickle", "accept", "close"}
  \cup (IF state[s] = "close" THEN {"listen", "connect"} ELSE {})
  \cup (IF Connected(s) /\ Cardinality({i \in DOMAIN watch_list : watch_list[i] = s}) < MaxWatch
        THEN {"watchdog"} ELSE {})

Begin(t) ==
  /\ Runs(t, "app")
  /\ \E s \in {r \in Sockets : Owner[r] = t} :
       /\ arg' = [arg EXCEPT ![t] = s]
       /\ \/ /\ state[s] = "none"
             /\ state' = [state EXCEPT ![s] = "close"]
             /\ Call(t, "socket", "register")
          \/ /\ state[s] # "none"
             /\ \E c \in Callable(s) : Call(t, c, "find")
             /\ UNCHANGED state
  /\ UNCHANGED <<psl, watch_list, mutex, alarms, interval, timer>>

(* pi_socket_recognize *)
Register(t) ==
  /\ Holds(t, "register") /\ Unlock("psl") /\ GoTo(t, "app")
  /\ psl' = psl \cup {arg[t]}
  /\ UNCHANGED <<state, watch_list, arg, alarms, interval, timer>>

(* Where a call goes on with a socket that find_pi_socket found. *)
After(c, s) ==
  CASE c = "listen"   -> "listen"
    [] c = "connect"  -> "device"
    [] c = "accept"   -> IF state[s] = "listen" THEN "device" ELSE "app"
    [] c = "send"     -> IF Connected(s) THEN "send" ELSE "app"
    [] c = "tickle"   -> IF Connected(s) THEN "device" ELSE "app"
    [] c = "watchdog" -> "watch"
    [] c = "close"    -> IF Connected(s) THEN "send" ELSE "unlist"

Find(t) ==
  /\ Holds(t, "find") /\ Unlock("psl")
  /\ GoTo(t, IF arg[t] \in psl THEN After(call[t], arg[t]) ELSE "app")
  /\ UNCHANGED <<state, psl, watch_list, arg, alarms, interval, timer>>

Listen(t) ==
  /\ Runs(t, "listen") /\ GoTo(t, "app")
  /\ state' = [state EXCEPT ![arg[t]] = "listen"]
  /\ UNCHANGED <<psl, watch_list, mutex, arg, alarms, interval, timer>>

(* pi_send starts the alarm anew, also for the EndOfSync of pi_close. *)
Send(t) ==
  /\ Runs(t, "send") /\ GoTo(t, "device")
  /\ timer' = IF interval # 0 THEN interval ELSE timer
  /\ UNCHANGED <<state, psl, watch_list, mutex, arg, alarms, interval>>

(* The exchange with the device is over.  pi_connect and pi_accept_to      *)
(* close a socket they could not connect; pi_close leaves alone one whose  *)
(* EndOfSync failed.                                                       *)
Answer(t) ==
  /\ Runs(t, "device")
  /\ LET s == arg[t]
         Becomes(x) == state' = [state EXCEPT ![s] = x]
     IN \/ /\ call[t] \in {"connect", "accept"} /\ Becomes("connected")
           /\ GoTo(t, "app")
        \/ /\ call[t] \in {"connect", "accept"} /\ UNCHANGED state
           /\ Call(t, "close", "find")
        \/ /\ call[t] \in {"send", "tickle", "close"}
           /\ UNCHANGED state \/ Becomes("break")
           /\ GoTo(t, "app")
        \/ /\ call[t] = "close" /\ Becomes("end")
           /\ GoTo(t, "unlist")
  /\ UNCHANGED <<psl, watch_list, mutex, arg, alarms, interval, timer>>

(* pi_close takes the socket from the lists, then frees it. *)
UnlistedForgetsWatch == "free"
Unlisted == "unwatch"

Unlist(t) ==
  /\ Holds(t, "unlist") /\ Unlock("psl") /\ GoTo(t, Unlisted)
  /\ psl' = psl \ {arg[t]}
  /\ UNCHANGED <<state, watch_list, arg, alarms, interval, timer>>

Unwatch(t) ==
  /\ Holds(t, "unwatch") /\ Unlock("watch") /\ GoTo(t, "free")
  /\ watch_list' = RemoveFirst(watch_list, arg[t])
  /\ UNCHANGED <<state, psl, arg, alarms, interval, timer>>

Free(t) ==
  /\ Runs(t, "free") /\ GoTo(t, "app")
  /\ state' = [state EXCEPT ![arg[t]] = "freed"]
  /\ UNCHANGED <<psl, watch_list, mutex, arg, alarms, interval, timer>>

(* pi_watchdog *)
Watch(t) ==
  /\ Holds(t, "watch") /\ Unlock("watch") /\ GoTo(t, "arm")
  /\ watch_list' = Append(watch_list, arg[t])
  /\ UNCHANGED <<state, psl, arg, alarms, interval, timer>>

Arm(t) ==
  /\ Runs(t, "arm") /\ GoTo(t, "app")
  /\ interval' = Interval /\ timer' = Interval
  /\ UNCHANGED <<state, psl, watch_list, mutex, arg, alarms>>

-----------------------------------------------------------------------------
(* The clock, and onalarm.                                                 *)

Tick ==
  /\ timer > 1 /\ timer' = timer - 1
  /\ UNCHANGED <<state, psl, watch_list, mutex, calls, alarms, interval>>

(* SIGALRM is blocked on a thread on which its handler runs. *)
Fire(t) ==
  /\ timer = 1 /\ handler[t] = "off"
  /\ AlarmAnywhere \/ \A m \in Mutexes : mutex[m] # <<t, "call">>
  /\ timer' = 0
  /\ handler' = [handler EXCEPT ![t] = "lock"]
  /\ UNCHANGED <<state, psl, watch_list, mutex, calls, rest, interval>>

Does(t, what) == handler' = [handler EXCEPT ![t] = what]

HandlerLock(t) ==
  /\ handler[t] = "lock" /\ Lock("watch", <<t, "handler">>)
  /\ Does(t, "scan") /\ rest' = [rest EXCEPT ![t] = watch_list]
  /\ UNCHANGED <<state, psl, watch_list, calls, interval, timer>>

(* What follows a socket that is not connected. *)
PassStops(list) == <<>>
Pass(list) == Tail(list)

Scan(t) ==
  /\ handler[t] = "scan" /\ rest[t] # <<>>
  /\ \/ Connected(Head(rest[t])) /\ Does(t, "find") /\ UNCHANGED rest
     \/ /\ ~Connected(Head(rest[t]))
        /\ rest' = [rest EXCEPT ![t] = Pass(@)] /\ UNCHANGED handler
  /\ UNCHANGED <<state, psl, watch_list, mutex, calls, interval, timer>>

ScanEnds(t) ==
  /\ handler[t] = "scan" /\ rest[t] = <<>>
  /\ Unlock("watch") /\ Does(t, "off")
  /\ UNCHANGED <<state, psl, watch_list, calls, rest, interval, timer>>

(* alarm, after a tickle that could or could not be sent. *)
RearmIfSent(sent) == IF sent THEN interval ELSE timer
Rearm(sent) == IF sent THEN interval ELSE 1

Tickled(t, sent) ==
  /\ timer' = Rearm(sent)
  /\ rest' = [rest EXCEPT ![t] = Tail(@)] /\ Does(t, "scan")

HandlerAcquire(t) ==
  /\ handler[t] = "find" /\ Lock("psl", <<t, "handler">>)
  /\ UNCHANGED <<state, psl, watch_list, calls, alarms, interval, timer>>

(* pi_tickle looks the socket up and at its state again. *)
HandlerFind(t) ==
  /\ handler[t] = "find" /\ mutex["psl"] = <<t, "handler">> /\ Unlock("psl")
  /\ LET s == Head(rest[t])
     IN IF s \in psl /\ Connected(s)
        THEN Does(t, "tickle") /\ UNCHANGED <<rest, timer>>
        ELSE Tickled(t, FALSE)
  /\ UNCHANGED <<state, psl, watch_list, calls, interval>>

HandlerTickle(t) ==
  /\ handler[t] = "tickle"
  /\ \E sent \in BOOLEAN : Tickled(t, sent)
  /\ \/ UNCHANGED state
     \/ state' = [state EXCEPT ![Head(rest[t])] = "break"]
  /\ UNCHANGED <<psl, watch_list, mutex, calls, interval>>

-----------------------------------------------------------------------------
Working(t) == Register(t) \/ Find(t) \/ Listen(t) \/ Send(t) \/ Unlist(t)
              \/ Unwatch(t) \/ Free(t) \/ Watch(t) \/ Arm(t)
Waiting(t) == HandlerLock(t) \/ HandlerAcquire(t)
Handling(t) == Scan(t) \/ ScanEnds(t) \/ HandlerFind(t) \/ HandlerTickle(t)

Next ==
  \/ Tick
  \/ \E t \in Threads : \/ Begin(t) \/ Acquire(t) \/ Working(t) \/ Answer(t)
                        \/ Fire(t) \/ Waiting(t) \/ Handling(t)

Spec == Init /\ [][Next]_vars

(* Threads go on, save that the application need not call and the device   *)
(* need not answer.  A handler gets a mutex that is free again and again,  *)
(* and a signal that may be delivered again and again is.                  *)
Fairness ==
  /\ WF_vars(Tick) /\ SF_vars(\E t \in Threads : Fire(t))
  /\ \A t \in Threads :
       WF_vars(Working(t)) /\ WF_vars(Handling(t)) /\ SF_vars(Waiting(t))

FairSpec == Spec /\ Fairness

-----------------------------------------------------------------------------
States == {"none", "close", "listen", "connected", "break", "end", "freed"}

HoldsRightly(m, who) ==
  who # Nobody =>
    IF who[2] = "call"
    THEN pc[who[1]] \in DOMAIN Needs /\ Needs[pc[who[1]]] = m
    ELSE handler[who[1]] \in (IF m = "psl" THEN {"find"}
                              ELSE {"scan", "find", "tickle"})

(* The variables stay in their types, and a mutex is held only by one who  *)
(* is where it is needed: no return leaves one locked.                     *)
TypeOK ==
  /\ state \in [Sockets -> States]
  /\ psl \subseteq Sockets /\ watch_list \in Seq(Sockets)
  /\ arg \in [Threads -> Sockets]
  /\ \A t \in Threads : rest[t] \in Seq(Sockets)
  /\ interval \in {0, Interval} /\ timer \in 0..Interval
  /\ \A m \in Mutexes : HoldsRightly(m, mutex[m])

(* pi_close frees a socket when no list holds it and no handler, on        *)
(* whichever thread, has it before it.                                     *)
NoUseAfterFree ==
  \A s \in psl \cup Range(watch_list) \cup UNION {Range(rest[t]) : t \in Threads} :
    state[s] \notin {"none", "freed"}

(* While a connected socket is watched an alarm is set, or about to be.    *)
Arming(s) ==
  \E t \in Threads :
    \/ pc[t] = "arm" \/ handler[t] = "lock"
    \/ handler[t] # "off" /\ s \in Range(rest[t])

KeptAlive ==
  \A s \in Range(watch_list) : Connected(s) => timer > 0 \/ Arming(s)

(* A watched socket is tickled again and again while it is connected,      *)
(* except that pi_send postpones it ("the watchdog uses the unix SIGALRM   *)
(* to fire an alarm at regular intervals", pi-socket.h).                   *)
Tickling(s) == \E t \in Threads : handler[t] = "tickle" /\ Head(rest[t]) = s
Postponing == \E t \in Threads : pc[t] = "send"

WatchedAreTickled ==
  \A s \in Sockets :
    Connected(s) /\ s \in Range(watch_list)
      ~> Tickling(s) \/ Postponing \/ ~Connected(s)

(* Threads and handlers never wait for each other in a circle: a mutex     *)
(* that is held is released.                                               *)
MutexesReleased ==
  \A m \in Mutexes : mutex[m] # Nobody ~> mutex[m] = Nobody
=============================================================================
