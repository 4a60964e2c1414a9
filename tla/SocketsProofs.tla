---------------------------- MODULE SocketsProofs ----------------------------
(***************************************************************************)
(* Theorems about Sockets, for all sets of threads and sockets, all        *)
(* intervals, and signals that arrive anywhere, if pi_watchdog is not      *)
(* called for a socket that watch_list already holds (MaxWatch <= 1).      *)
(***************************************************************************)
EXTENDS Sockets, SequenceTheorems, FiniteSetTheorems, TLAPS

Places == {"off", "lock", "scan", "find", "tickle"}
Labels == {"app", "register", "find", "listen", "device", "send", "unlist",
           "unwatch", "free", "watch", "arm"}
Calls  == {"none", "socket", "send", "tickle", "accept", "close", "listen",
           "connect", "watchdog"}

Types ==
  /\ state \in [Sockets -> States]
  /\ psl \subseteq Sockets /\ watch_list \in Seq(Sockets)
  /\ mutex \in [Mutexes -> {Nobody} \cup (Threads \X {"call", "handler"})]
  /\ call \in [Threads -> Calls] /\ arg \in [Threads -> Sockets]
  /\ pc \in [Threads -> Labels]
  /\ handler \in [Threads -> Places] /\ rest \in [Threads -> Seq(Sockets)]
  /\ interval \in {0, Interval} /\ timer \in 0..Interval

Walking(t) == handler[t] \in {"scan", "find", "tickle"}

(* Who holds a mutex is where it is needed, and a handler holds that of    *)
(* watch_list from its first look at the list to its last.                 *)
Holding ==
  \A t \in Threads :
    /\ mutex["psl"] = <<t, "call">> => pc[t] \in {"register", "find", "unlist"}
    /\ mutex["watch"] = <<t, "call">> => pc[t] \in {"watch", "unwatch"}
    /\ mutex["psl"] = <<t, "handler">> => handler[t] = "find"
    /\ Walking(t) <=> mutex["watch"] = <<t, "handler">>
    /\ rest[t] # <<>> => Walking(t)
    /\ handler[t] \in {"find", "tickle"} => rest[t] # <<>>

(* A thread calls functions on its own sockets. *)
Calling ==
  \A t \in Threads :
    /\ pc[t] # "app" => Owner[arg[t]] = t
    /\ pc[t] = "find" => call[t] \notin {"none", "socket"}
    /\ pc[t] = "device" => call[t] \in {"connect", "accept", "send", "tickle", "close"}
    /\ pc[t] = "send" => call[t] \in {"send", "close"}

Inv == Types /\ Holding /\ Calling

-----------------------------------------------------------------------------
LEMMA NeedsAre ==
  /\ DOMAIN Needs = {"register", "find", "unlist", "watch", "unwatch"}
  /\ Needs["register"] = "psl" /\ Needs["find"] = "psl" /\ Needs["unlist"] = "psl"
  /\ Needs["watch"] = "watch" /\ Needs["unwatch"] = "watch"
  BY DEF Needs

LEMMA Holders ==
  ASSUME NEW t, NEW u
  PROVE  /\ <<t, "call">> # Nobody /\ <<t, "handler">> # Nobody
         /\ <<t, "call">> # <<u, "handler">>
         /\ <<t, "call">> = <<u, "call">> => t = u
         /\ <<t, "handler">> = <<u, "handler">> => t = u
  BY DEF Nobody

LEMMA OnlyOne ==
  ASSUME NEW w, NEW e, NEW i \in 1..Len(w), w[i] = e,
         \A j \in 1..Len(w) : w[j] = e => j = i
  PROVE  RemoveFirst(w, e) = SubSeq(w, 1, i-1) \o SubSeq(w, i+1, Len(w))
<1>1. {j \in 1..Len(w) : w[j] = e} = {i}
  OBVIOUS
<1>2. Min({i}) = i
  BY DEF Min
<1>3. SelectInSeq(w, LAMBDA v : v = e) = i
  BY <1>1, <1>2 DEF SelectInSeq
<1>4. RemoveFirst(w, e) = RemoveAt(w, SelectInSeq(w, LAMBDA v : v = e))
  BY DEF RemoveFirst
<1> QED BY <1>3, <1>4 DEF RemoveAt

(* watch_list holds a socket once, and none that pi_watchdog is about to   *)
(* add.                                                                    *)
ToWatch(t) == pc[t] = "watch" \/ (pc[t] = "find" /\ call[t] = "watchdog")
Once(w)    == \A i, j \in 1..Len(w) : w[i] = w[j] => i = j
OnceWatched ==
  Once(watch_list) /\ \A t \in Threads : ToWatch(t) => arg[t] \notin Range(watch_list)

LEMMA InSeq ==
  ASSUME NEW S, NEW w \in Seq(S), NEW x
  PROVE  x \in Range(w) <=> \E i \in 1..Len(w) : w[i] = x
  BY LenProperties DEF Range

LEMMA RemoveFirstOnce ==
  ASSUME NEW w \in Seq(Sockets), Once(w), NEW e
  PROVE  /\ RemoveFirst(w, e) \in Seq(Sockets) /\ Once(RemoveFirst(w, e))
         /\ \A x \in Range(RemoveFirst(w, e)) : x \in Range(w) /\ x # e
<1>0. Len(w) \in Nat /\ \A i \in 1..Len(w) : w[i] \in Sockets
  BY LenProperties
<1>1. CASE \A i \in 1..Len(w) : w[i] # e
  <2>1. RemoveFirst(w, e) = w
    BY <1>1 DEF RemoveFirst
  <2> QED BY <1>1, <2>1, InSeq
<1>2. CASE \E i \in 1..Len(w) : w[i] = e
  <2>1. PICK i \in 1..Len(w) : w[i] = e
    BY <1>2
  <2> DEFINE a == SubSeq(w, 1, i-1)
             b == SubSeq(w, i+1, Len(w))
             r == a \o b
  <2>2. RemoveFirst(w, e) = r
    BY <2>1, OnlyOne DEF Once
  <2>3. /\ a \in Seq(Sockets) /\ Len(a) = i - 1 /\ \A j \in 1..i-1 : a[j] = w[j]
    BY <1>0, SubSeqProperties
  <2>4. /\ b \in Seq(Sockets) /\ Len(b) = Len(w) - i
        /\ \A j \in 1..Len(w)-i : b[j] = w[i+j]
    BY <1>0, SubSeqProperties
  <2> HIDE DEF a, b
  <2>5. r \in Seq(Sockets) /\ Len(r) = Len(w) - 1
    <3>1. r \in Seq(Sockets) /\ Len(r) = Len(a) + Len(b)
      BY <2>3, <2>4, ConcatProperties
    <3> HIDE DEF r
    <3> QED BY <1>0, <2>3, <2>4, <3>1
  <2>6. ASSUME NEW j \in 1..Len(w)-1
        PROVE  r[j] = IF j < i THEN w[j] ELSE w[j+1]
    <3>1. r[j] = IF j <= Len(a) THEN a[j] ELSE b[j - Len(a)]
      BY <1>0, <2>3, <2>4, ConcatProperties
    <3>2. CASE j < i
      BY <1>0, <2>3, <3>1, <3>2
    <3>3. CASE ~(j < i)
      BY <1>0, <2>3, <2>4, <3>1, <3>3
    <3> QED BY <3>2, <3>3
  <2> HIDE DEF r
  <2>7. Once(r)
    BY <1>0, <2>5, <2>6 DEF Once
  <2>8. ASSUME NEW x \in Range(r) PROVE x \in Range(w) /\ x # e
    <3>1. PICK j \in 1..Len(w)-1 : r[j] = x
      BY <2>5, InSeq
    <3>2. PICK k \in 1..Len(w) : w[k] = x /\ k # i
      BY <1>0, <2>6, <3>1
    <3> QED BY <2>1, <3>2, InSeq DEF Once
  <2> QED BY <2>2, <2>5, <2>7, <2>8
<1> QED BY <1>1, <1>2

-----------------------------------------------------------------------------
(* Types.                                                                  *)
LEMMA RestTail ==
  ASSUME Types, NEW t \in Threads, rest[t] # <<>>
  PROVE  /\ Head(rest[t]) \in Sockets /\ Head(rest[t]) \in Range(rest[t])
         /\ Tail(rest[t]) \in Seq(Sockets)
         /\ \A x : x \in Range(rest[t]) <=> x = Head(rest[t]) \/ x \in Range(Tail(rest[t]))
<1> DEFINE w == rest[t]
<1>1. w \in Seq(Sockets) /\ w # <<>>
  BY DEF Types
<1> HIDE DEF w
<1>2. /\ Head(w) \in Sockets /\ Tail(w) \in Seq(Sockets)
      /\ Len(Tail(w)) = Len(w) - 1 /\ \A i \in 1..Len(Tail(w)) : Tail(w)[i] = w[i+1]
  BY <1>1, HeadTailProperties
<1>3. Len(w) \in Nat /\ Len(w) # 0 /\ Head(w) = w[1]
  BY <1>1
<1>4. Head(w) \in Range(w)
  BY <1>1, <1>3, InSeq
<1>5. ASSUME NEW x \in Range(Tail(w)) PROVE x \in Range(w)
  <2>1. PICK i \in 1..Len(Tail(w)) : Tail(w)[i] = x
    BY <1>2, InSeq
  <2>2. w[i+1] = x /\ i+1 \in 1..Len(w)
    BY <1>2, <1>3, <2>1
  <2> QED BY <1>1, <2>2, InSeq
<1>6. ASSUME NEW x \in Range(w), x # Head(w) PROVE x \in Range(Tail(w))
  <2>1. PICK j \in 1..Len(w) : w[j] = x /\ j # 1
    BY <1>1, <1>3, <1>6, InSeq
  <2>2. j-1 \in 1..Len(Tail(w)) /\ Tail(w)[j-1] = x
    BY <1>2, <1>3, <2>1
  <2> QED BY <1>2, <2>2, InSeq
<1> QED BY <1>2, <1>4, <1>5, <1>6 DEF w

LEMMA CallableAre ==
  ASSUME NEW s, NEW c \in Callable(s)
  PROVE  /\ c \in Calls \ {"none", "socket"}
         /\ c \in {"listen", "connect"} => state[s] = "close"
         /\ c = "watchdog" => Connected(s)
              /\ Cardinality({i \in DOMAIN watch_list : watch_list[i] = s}) < MaxWatch
<1>1. CASE c \in {"send", "tickle", "accept", "close"}
  BY <1>1 DEF Calls
<1>2. CASE c \in {"listen", "connect"} /\ state[s] = "close"
  BY <1>2 DEF Calls
<1>3. CASE c = "watchdog" /\ Connected(s)
           /\ Cardinality({i \in DOMAIN watch_list : watch_list[i] = s}) < MaxWatch
  BY <1>3 DEF Calls
<1>4. \/ c \in {"send", "tickle", "accept", "close"}
      \/ c \in (IF state[s] = "close" THEN {"listen", "connect"} ELSE {})
      \/ c \in (IF Connected(s) /\ Cardinality({i \in DOMAIN watch_list : watch_list[i] = s}) < MaxWatch
               THEN {"watchdog"} ELSE {})
  BY DEF Callable
<1> QED BY <1>1, <1>2, <1>3, <1>4

LEMMA TypesInit == ASSUME Init PROVE Types
  BY SocketsAssumption DEF Init, Types, States, Mutexes, Calls, Labels, Places

LEMMA TypesCalls ==
  ASSUME Inv, OnceWatched, NEW t \in Threads, Begin(t) \/ Acquire(t) \/ Working(t) \/ Answer(t)
  PROVE  Types'
<1> USE SocketsAssumption, NeedsAre
    DEF Inv, Types, calls, alarms, Call, GoTo, Lock, Unlock, Runs, Holds, States, Mutexes,
        Calls, Labels, Places
<1>1. CASE Begin(t)
  <2>1. PICK s \in Sockets :
          /\ arg' = [arg EXCEPT ![t] = s]
          /\ \/ state' = [state EXCEPT ![s] = "close"] /\ Call(t, "socket", "register")
             \/ (\E c \in Callable(s) : Call(t, c, "find")) /\ UNCHANGED state
    BY <1>1 DEF Begin
  <2>2. UNCHANGED <<psl, watch_list, mutex, handler, rest, interval, timer>>
    BY <1>1 DEF Begin
  <2>3. CASE state' = [state EXCEPT ![s] = "close"] /\ Call(t, "socket", "register")
    BY <2>1, <2>2, <2>3
  <2>4. CASE (\E c \in Callable(s) : Call(t, c, "find")) /\ UNCHANGED state
    <3>1. PICK c \in Callable(s) : Call(t, c, "find")
      BY <2>4
    <3>2. c \in Calls
      BY CallableAre
    <3> QED BY <2>1, <2>2, <2>4, <3>1, <3>2
  <2> QED BY <2>1, <2>3, <2>4
<1>2. CASE Acquire(t)
  BY <1>2 DEF Acquire
<1>3. CASE Register(t)
  BY <1>3 DEF Register
<1>4. CASE Find(t)
  BY <1>4 DEF Find, After, Calling
<1>5. CASE Listen(t)
  BY <1>5 DEF Listen
<1>6. CASE Send(t)
  BY <1>6 DEF Send
<1>7. CASE Unlist(t)
  BY <1>7 DEF Unlist, Unlisted
<1>8. CASE Unwatch(t)
  BY <1>8, RemoveFirstOnce DEF Unwatch, OnceWatched
<1>9. CASE Free(t)
  BY <1>9 DEF Free
<1>10. CASE Watch(t)
  BY <1>10, AppendProperties DEF Watch
<1>11. CASE Arm(t)
  BY <1>11 DEF Arm
<1>12. CASE Answer(t)
  <2>1. UNCHANGED <<psl, watch_list, mutex, arg, handler, rest, interval, timer>>
    BY <1>12 DEF Answer
  <2>2. \/ state' = state
        \/ \E x \in {"connected", "break", "end"} : state' = [state EXCEPT ![arg[t]] = x]
    BY <1>12 DEF Answer
  <2>3. state' \in [Sockets -> States]
    <3>1. \A x \in {"connected", "break", "end"} : x \in States
      OBVIOUS
    <3>2. state \in [Sockets -> States]
      OBVIOUS
    <3> HIDE DEF States, Inv, Types
    <3> QED BY <2>2, <3>1, <3>2
  <2>4. GoTo(t, "app") \/ GoTo(t, "unlist") \/ Call(t, "close", "find")
    BY <1>12 DEF Answer
  <2>5. Call(t, "none", "app") \/ Call(t, call[t], "unlist") \/ Call(t, "close", "find")
    BY <2>4
  <2>6. call' \in [Threads -> Calls] /\ pc' \in [Threads -> Labels]
    <3>1. \E c \in Calls : call' = [call EXCEPT ![t] = c]
      <4>1. call[t] \in Calls /\ "none" \in Calls /\ "close" \in Calls
        OBVIOUS
      <4> QED BY <2>5, <4>1
    <3>2. \E l \in Labels : pc' = [pc EXCEPT ![t] = l]
      BY <2>5
    <3> QED BY <3>1, <3>2
  <2> QED BY <2>1, <2>3, <2>6
<1> QED BY <1>1, <1>2, <1>3, <1>4, <1>5, <1>6, <1>7, <1>8, <1>9, <1>10, <1>11, <1>12
       DEF Working

LEMMA TypesHandler ==
  ASSUME Inv, NEW t \in Threads, Tick \/ Fire(t) \/ Waiting(t) \/ Handling(t)
  PROVE  Types'
<1> USE SocketsAssumption
    DEF Inv, Types, calls, alarms, Lock, Unlock, States, Mutexes, Places, Does
<1>1. CASE Tick
  BY <1>1 DEF Tick
<1>2. CASE Fire(t)
  BY <1>2 DEF Fire
<1>3. CASE HandlerLock(t)
  BY <1>3 DEF HandlerLock
<1>4. CASE HandlerAcquire(t)
  BY <1>4 DEF HandlerAcquire
<1>5. CASE Scan(t)
  <2>1. UNCHANGED <<state, psl, watch_list, mutex, call, arg, pc, interval, timer>>
    BY <1>5 DEF Scan
  <2>2. handler' = handler \/ handler' = [handler EXCEPT ![t] = "find"]
    BY <1>5 DEF Scan
  <2>3. handler' \in [Threads -> Places]
    BY <2>2
  <2>4. rest' = rest \/ (rest[t] # <<>> /\ rest' = [rest EXCEPT ![t] = Tail(rest[t])])
    BY <1>5 DEF Scan, Pass
  <2>5. rest' \in [Threads -> Seq(Sockets)]
    <3>1. Tail(rest[t]) \in Seq(Sockets) \/ rest[t] = <<>>
      BY RestTail
    <3>2. rest \in [Threads -> Seq(Sockets)]
      OBVIOUS
    <3> HIDE DEF Inv, Types
    <3> QED BY <2>4, <3>1, <3>2
  <2> QED BY <2>1, <2>3, <2>5
<1>6. CASE ScanEnds(t)
  BY <1>6 DEF ScanEnds
<1>7. CASE HandlerFind(t)
  <2>1. rest[t] # <<>>
    BY <1>7 DEF HandlerFind, Holding
  <2>2. UNCHANGED <<state, psl, watch_list, call, arg, pc, interval>>
    BY <1>7 DEF HandlerFind
  <2>3. \/ Does(t, "tickle") /\ UNCHANGED <<rest, timer>>
        \/ Tickled(t, FALSE)
    BY <1>7 DEF HandlerFind
  <2>4. mutex' \in [Mutexes -> {Nobody} \cup (Threads \X {"call", "handler"})]
    BY <1>7 DEF HandlerFind
  <2>5. timer' \in 0..Interval
    BY <2>3 DEF Tickled, Rearm
  <2>6. handler' \in [Threads -> Places] /\ rest' \in [Threads -> Seq(Sockets)]
    <3>1. Tail(rest[t]) \in Seq(Sockets)
      BY <2>1, RestTail
    <3>2. CASE Does(t, "tickle") /\ UNCHANGED <<rest, timer>>
      BY <3>2
    <3>3. CASE Tickled(t, FALSE)
      BY <3>1, <3>3 DEF Tickled
    <3> QED BY <2>3, <3>2, <3>3
  <2> QED BY <2>2, <2>4, <2>5, <2>6
<1>8. CASE HandlerTickle(t)
  <2>1. rest[t] # <<>>
    BY <1>8 DEF HandlerTickle, Holding
  <2>2. UNCHANGED <<psl, watch_list, mutex, call, arg, pc, interval>>
    BY <1>8 DEF HandlerTickle
  <2>3. timer' \in {interval, 1}
    BY <1>8 DEF HandlerTickle, Tickled, Rearm
  <2>4. timer' \in 0..Interval
    BY <2>3
  <2>5. handler' \in [Threads -> Places] /\ rest' \in [Threads -> Seq(Sockets)]
    BY <1>8, <2>1, RestTail DEF HandlerTickle, Tickled
  <2>6. state' \in [Sockets -> States]
    BY <1>8 DEF HandlerTickle
  <2> QED BY <2>2, <2>4, <2>5, <2>6
<1> QED BY <1>1, <1>2, <1>3, <1>4, <1>5, <1>6, <1>7, <1>8 DEF Waiting, Handling

LEMMA TypesNext == ASSUME Inv, OnceWatched, [Next]_vars PROVE Types'
<1>1. CASE UNCHANGED vars
  BY <1>1 DEF Inv, Types, vars, calls, alarms
<1>2. CASE Tick
  <2>1. CASE \E t \in Threads : TRUE
    BY <1>2, <2>1, TypesHandler
  <2>2. CASE ~\E t \in Threads : TRUE
    BY <1>2, <2>2, SocketsAssumption DEF Inv, Types, Tick, calls, alarms
  <2> QED BY <2>1, <2>2
<1>3. ASSUME NEW t \in Threads, \/ Begin(t) \/ Acquire(t) \/ Working(t) \/ Answer(t)
                                \/ Fire(t) \/ Waiting(t) \/ Handling(t)
      PROVE  Types'
  BY <1>3, TypesCalls, TypesHandler
<1> QED BY <1>1, <1>2, <1>3 DEF Next

-----------------------------------------------------------------------------
(* Mutexes.                                                                *)
LEMMA HoldingInit == ASSUME Init PROVE Holding
  BY Holders DEF Init, Holding, Walking, Mutexes

LEMMA HoldingCalls ==
  ASSUME Inv, NEW t \in Threads, Begin(t) \/ Acquire(t) \/ Working(t) \/ Answer(t)
  PROVE  Holding'
<1> USE NeedsAre, Holders
    DEF Inv, Types, Holding, Walking, calls, alarms, Call, GoTo, Lock, Unlock, Runs, Holds, Mutexes
<1>1. CASE Begin(t)
  BY <1>1 DEF Begin
<1>2. CASE Acquire(t)
  <2>1. PICK m \in Mutexes : /\ m = Needs[pc[t]] /\ pc[t] \in DOMAIN Needs
                             /\ mutex[m] = Nobody /\ mutex' = [mutex EXCEPT ![m] = <<t, "call">>]
    <3>1. /\ pc[t] \in DOMAIN Needs /\ mutex[Needs[pc[t]]] = Nobody
          /\ mutex' = [mutex EXCEPT ![Needs[pc[t]]] = <<t, "call">>]
      BY <1>2 DEF Acquire
    <3>2. Needs[pc[t]] \in Mutexes
      BY <3>1
    <3> QED BY <3>1, <3>2
  <2>2. UNCHANGED <<pc, handler, rest>>
    BY <1>2 DEF Acquire
  <2>3. CASE m = "psl"
    <3>1. pc[t] \in {"register", "find", "unlist"}
      <4> HIDE DEF Inv, Types, Holding
      <4> QED BY <2>1, <2>3
    <3>2. mutex'["psl"] = <<t, "call">> /\ mutex'["watch"] = mutex["watch"]
      BY <2>1, <2>3
    <3> QED BY <2>2, <3>1, <3>2
  <2>4. CASE m = "watch"
    <3>1. pc[t] \in {"watch", "unwatch"}
      <4> HIDE DEF Inv, Types, Holding
      <4> QED BY <2>1, <2>4
    <3>2. mutex'["watch"] = <<t, "call">> /\ mutex'["psl"] = mutex["psl"] /\ mutex["watch"] = Nobody
      BY <2>1, <2>4
    <3> QED BY <2>2, <3>1, <3>2
  <2> QED BY <2>3, <2>4
<1>3. CASE Register(t)
  BY <1>3 DEF Register
<1>4. CASE Find(t)
  BY <1>4 DEF Find
<1>5. CASE Listen(t) \/ Send(t) \/ Free(t) \/ Arm(t) \/ Answer(t)
  <2>1. /\ UNCHANGED <<mutex, handler, rest>> /\ pc[t] \in {"listen", "send", "free", "arm", "device"}
        /\ \E l : pc' = [pc EXCEPT ![t] = l]
    BY <1>5 DEF Listen, Send, Free, Arm, Answer
  <2> QED BY <2>1
<1>6. CASE Unlist(t)
  BY <1>6 DEF Unlist
<1>7. CASE Unwatch(t)
  BY <1>7 DEF Unwatch
<1>8. CASE Watch(t)
  <2>1. /\ UNCHANGED <<handler, rest>> /\ mutex["watch"] = <<t, "call">>
        /\ mutex' = [mutex EXCEPT !["watch"] = Nobody]
        /\ pc[t] = "watch" /\ pc' = [pc EXCEPT ![t] = "arm"]
    BY <1>8 DEF Watch
  <2>2. mutex'["watch"] = Nobody /\ mutex'["psl"] = mutex["psl"] /\ pc'[t] = "arm"
        /\ \A u \in Threads \ {t} : pc'[u] = pc[u]
    BY <2>1
  <2>3. Holding
    BY DEF Inv
  <2>4. \A u \in Threads : handler'[u] = handler[u] /\ rest'[u] = rest[u] /\ ~Walking(u)
    BY <2>1
  <2>5. ASSUME NEW u \in Threads
        PROVE  mutex'["watch"] # <<u, "call">> /\ mutex'["watch"] # <<u, "handler">>
    <3> HIDE DEF Inv, Types, Holding
    <3> QED BY <2>2, Holders
  <2> HIDE NeedsAre, Holders
  <2> HIDE DEF Inv, Types, Holding
  <2>6. ASSUME NEW u \in Threads
        PROVE  mutex'["psl"] = <<u, "call">> => pc'[u] \in {"register", "find", "unlist"}
    BY <2>1, <2>2, <2>3 DEF Holding
  <2>7. ASSUME NEW u \in Threads
        PROVE  mutex'["psl"] = <<u, "handler">> => handler'[u] = "find"
    BY <2>1, <2>2, <2>3 DEF Holding
  <2>8. ASSUME NEW u \in Threads PROVE rest[u] = <<>> /\ handler[u] \notin {"find", "tickle"}
    BY <2>3, <2>4 DEF Holding
  <2> QED BY <2>4, <2>5, <2>6, <2>7, <2>8 DEF Holding
<1> QED BY <1>1, <1>2, <1>3, <1>4, <1>5, <1>6, <1>7, <1>8 DEF Working

LEMMA HoldingHandler ==
  ASSUME Inv, NEW t \in Threads, Tick \/ Fire(t) \/ Waiting(t) \/ Handling(t)
  PROVE  Holding'
<1> USE NeedsAre, Holders
    DEF Inv, Types, Holding, Walking, calls, alarms, Lock, Unlock, Does, Mutexes
<1>1. CASE Tick
  BY <1>1 DEF Tick
<1>8. CASE Fire(t)
  <2>1. UNCHANGED <<pc, mutex, rest>> /\ handler' = [handler EXCEPT ![t] = "lock"] /\ handler[t] = "off"
    BY <1>8 DEF Fire
  <2> QED BY <2>1
<1>2. CASE HandlerLock(t)
  BY <1>2 DEF HandlerLock
<1>3. CASE HandlerAcquire(t)
  BY <1>3 DEF HandlerAcquire
<1>4. CASE Scan(t)
  BY <1>4 DEF Scan, Pass
<1>5. CASE ScanEnds(t)
  <2>1. /\ handler[t] = "scan" /\ rest[t] = <<>> /\ mutex["watch"] = <<t, "handler">>
        /\ handler' = [handler EXCEPT ![t] = "off"] /\ UNCHANGED <<pc, rest>>
        /\ mutex' = [mutex EXCEPT !["watch"] = Nobody]
    BY <1>5 DEF ScanEnds
  <2>2. mutex'["watch"] = Nobody /\ mutex'["psl"] = mutex["psl"]
    BY <2>1
  <2>3. ASSUME NEW u \in Threads PROVE ~Walking(u)' /\ rest'[u] = <<>>
    BY <2>1
  <2> QED BY <2>1, <2>2, <2>3
<1>6. CASE HandlerFind(t)
  <2>1. /\ handler[t] = "find" /\ UNCHANGED pc
        /\ mutex["psl"] = <<t, "handler">> /\ mutex["watch"] = <<t, "handler">>
        /\ mutex' = [mutex EXCEPT !["psl"] = Nobody]
    BY <1>6 DEF HandlerFind
  <2>2. mutex'["psl"] = Nobody /\ mutex'["watch"] = <<t, "handler">>
    BY <2>1
  <2>3. \/ handler' = [handler EXCEPT ![t] = "tickle"] /\ rest' = rest
        \/ handler' = [handler EXCEPT ![t] = "scan"] /\ rest' = [rest EXCEPT ![t] = Tail(@)]
    BY <1>6 DEF HandlerFind, Tickled
  <2>4. Walking(t)' /\ (handler'[t] \in {"find", "tickle"} => rest'[t] # <<>>)
    BY <2>1, <2>3
  <2>5. ASSUME NEW u \in Threads \ {t}
        PROVE  ~Walking(u) /\ handler'[u] = handler[u] /\ rest'[u] = rest[u] /\ rest[u] = <<>>
    BY <2>1, <2>3
  <2>6. ASSUME NEW u \in Threads
        PROVE  /\ mutex'["psl"] # <<u, "call">> /\ mutex'["psl"] # <<u, "handler">>
               /\ mutex'["watch"] # <<u, "call">>
               /\ mutex'["watch"] = <<u, "handler">> <=> u = t
    BY <2>2
  <2>7. ASSUME NEW u \in Threads
        PROVE  /\ Walking(u)' <=> mutex'["watch"] = <<u, "handler">>
               /\ rest'[u] # <<>> => Walking(u)'
               /\ handler'[u] \in {"find", "tickle"} => rest'[u] # <<>>
    <3>1. CASE u = t
      BY <2>4, <2>6, <3>1
    <3>2. CASE u # t
      BY <2>5, <2>6, <3>2
    <3> QED BY <3>1, <3>2
  <2> HIDE NeedsAre, Holders
  <2> HIDE DEF Inv, Types, Holding, Walking
  <2> QED BY <2>6, <2>7, Zenon DEF Holding
<1>7. CASE HandlerTickle(t)
  BY <1>7 DEF HandlerTickle, Tickled
<1> QED BY <1>1, <1>2, <1>3, <1>4, <1>5, <1>6, <1>7, <1>8 DEF Waiting, Handling

LEMMA HoldingNext == ASSUME Inv, [Next]_vars PROVE Holding'
<1>1. CASE UNCHANGED vars
  BY <1>1 DEF Inv, Holding, Walking, vars, calls, alarms
<1>2. CASE Tick
  BY <1>2 DEF Inv, Holding, Walking, Tick, calls, alarms
<1>3. ASSUME NEW t \in Threads, \/ Begin(t) \/ Acquire(t) \/ Working(t) \/ Answer(t)
                                \/ Fire(t) \/ Waiting(t) \/ Handling(t)
      PROVE  Holding'
  BY <1>3, HoldingCalls, HoldingHandler
<1> QED BY <1>1, <1>2, <1>3 DEF Next

-----------------------------------------------------------------------------
(* Calls.                                                                  *)
LEMMA AfterIs ==
  ASSUME NEW s, NEW c \in Calls \ {"none", "socket"}
  PROVE  /\ After(c, s) \in {"listen", "device", "send", "watch", "unlist", "app"}
         /\ After(c, s) = "listen" => c = "listen"
         /\ After(c, s) = "device" => \/ c \in {"connect", "tickle"}
                                      \/ c = "accept" /\ state[s] = "listen"
         /\ After(c, s) = "send"   => c \in {"send", "close"}
         /\ After(c, s) = "watch"  => c = "watchdog"
  BY DEF After, Calls

LEMMA Alone ==
  ASSUME Calling, NEW t \in Threads, NEW u \in Threads, pc[t] # "app", pc[u] # "app",
         arg[t] = arg[u]
  PROVE  t = u
  BY DEF Calling

LEMMA CallingInit == ASSUME Init PROVE Calling
  BY DEF Init, Calling

LEMMA CallingStep ==
  ASSUME Inv, NEW t \in Threads, Begin(t) \/ Acquire(t) \/ Working(t) \/ Answer(t)
  PROVE  Calling'
<1> USE DEF Inv, Types, Calling, calls, Call, GoTo, Runs, Holds
<1>1. CASE Begin(t)
  <2>1. PICK s \in Sockets :
          /\ Owner[s] = t /\ arg' = [arg EXCEPT ![t] = s]
          /\ \/ Call(t, "socket", "register")
             \/ \E c \in Callable(s) : Call(t, c, "find")
    BY <1>1 DEF Begin
  <2>2. CASE Call(t, "socket", "register")
    BY <2>1, <2>2
  <2>3. CASE \E c \in Callable(s) : Call(t, c, "find")
    <3>1. PICK c \in Callable(s) : Call(t, c, "find")
      BY <2>3
    <3>2. c \notin {"none", "socket"}
      BY CallableAre
    <3> QED BY <2>1, <3>1, <3>2
  <2> QED BY <2>1, <2>2, <2>3
<1>2. CASE Acquire(t)
  BY <1>2 DEF Acquire
<1>3. CASE Register(t)
  BY <1>3 DEF Register
<1>4. CASE Find(t)
  <2> DEFINE l == IF arg[t] \in psl THEN After(call[t], arg[t]) ELSE "app"
  <2>1. pc[t] = "find" /\ GoTo(t, l) /\ UNCHANGED arg
    BY <1>4 DEF Find
  <2>2. call[t] \in Calls \ {"none", "socket"}
    BY <2>1
  <2>3. /\ l \in {"listen", "device", "send", "watch", "unlist", "app"}
        /\ l = "device" => call[t] \in {"connect", "accept", "tickle"}
        /\ l = "send" => call[t] \in {"send", "close"}
    BY <2>2, AfterIs
  <2> HIDE DEF l
  <2> QED BY <2>1, <2>3
<1>5. CASE Listen(t)
  BY <1>5 DEF Listen
<1>10. CASE Free(t)
  BY <1>10 DEF Free
<1>11. CASE Arm(t)
  BY <1>11 DEF Arm
<1>9. CASE Send(t)
  BY <1>9 DEF Send
<1>6. CASE Unlist(t)
  BY <1>6 DEF Unlist, Unlisted
<1>7. CASE Unwatch(t)
  BY <1>7 DEF Unwatch
<1>12. CASE Watch(t)
  BY <1>12 DEF Watch
<1>8. CASE Answer(t)
  BY <1>8 DEF Answer
<1> QED BY <1>1, <1>2, <1>3, <1>4, <1>5, <1>6, <1>7, <1>8, <1>9, <1>10, <1>11, <1>12
       DEF Working

LEMMA HandlerLeavesCalls ==
  ASSUME NEW t \in Threads, Fire(t) \/ Waiting(t) \/ Handling(t)
  PROVE  UNCHANGED <<call, arg, pc, psl, watch_list, interval>>
  BY DEF Fire, Waiting, Handling, HandlerLock, HandlerAcquire, Scan, ScanEnds, HandlerFind,
         HandlerTickle, calls, alarms

LEMMA CallingNext == ASSUME Inv, [Next]_vars PROVE Calling'
<1>1. CASE UNCHANGED <<call, arg, pc>>
  BY <1>1 DEF Inv, Calling
<1>2. UNCHANGED vars \/ Tick => UNCHANGED <<call, arg, pc>>
  BY DEF vars, calls, Tick
<1>3. ASSUME NEW t \in Threads, \/ Begin(t) \/ Acquire(t) \/ Working(t) \/ Answer(t)
                                \/ Fire(t) \/ Waiting(t) \/ Handling(t)
      PROVE  Calling'
  BY <1>1, <1>3, CallingStep, HandlerLeavesCalls
<1> QED BY <1>1, <1>2, <1>3 DEF Next

-----------------------------------------------------------------------------
(* watch_list.                                                             *)
LEMMA NotWatched ==
  ASSUME MaxWatch <= 1, Types, NEW s,
         Cardinality({i \in DOMAIN watch_list : watch_list[i] = s}) < MaxWatch
  PROVE  s \notin Range(watch_list)
<1> DEFINE at == {i \in DOMAIN watch_list : watch_list[i] = s}
<1>1. watch_list \in Seq(Sockets) /\ MaxWatch \in Nat
  BY SocketsAssumption DEF Types
<1>2. DOMAIN watch_list = 1..Len(watch_list) /\ Len(watch_list) \in Nat
  BY <1>1, LenProperties
<1>3. IsFiniteSet(1..Len(watch_list))
  BY <1>2, FS_Interval
<1>4. IsFiniteSet(at)
  BY <1>2, <1>3, FS_Subset
<1>5. Cardinality(at) \in Nat
  BY <1>4, FS_CardinalityType
<1>6. Cardinality(at) = 0
  BY <1>1, <1>5
<1>7. at = {}
  BY <1>4, <1>6, FS_EmptySet
<1> QED BY <1>1, <1>2, <1>7, InSeq

LEMMA WatchdogOnce ==
  ASSUME MaxWatch <= 1, Types, NEW s, "watchdog" \in Callable(s)
  PROVE  s \notin Range(watch_list)
<1>1. Cardinality({i \in DOMAIN watch_list : watch_list[i] = s}) < MaxWatch
  BY CallableAre
<1> QED BY <1>1, NotWatched

LEMMA AppendIs ==
  ASSUME NEW w \in Seq(Sockets), NEW e \in Sockets
  PROVE  /\ Append(w, e) \in Seq(Sockets)
         /\ \A x : x \in Range(Append(w, e)) <=> x \in Range(w) \/ x = e
         /\ Once(w) /\ e \notin Range(w) => Once(Append(w, e))
<1> DEFINE v == Append(w, e)
<1>1. /\ v \in Seq(Sockets) /\ Len(v) = Len(w) + 1 /\ v[Len(w)+1] = e
      /\ \A i \in 1..Len(w) : v[i] = w[i]
  BY AppendProperties
<1>2. Len(w) \in Nat
  BY LenProperties
<1> HIDE DEF v
<1>3. ASSUME NEW x PROVE x \in Range(v) <=> x \in Range(w) \/ x = e
  <2>1. x \in Range(v) <=> \E i \in 1..Len(v) : v[i] = x
    BY <1>1, InSeq
  <2>2. x \in Range(w) <=> \E i \in 1..Len(w) : w[i] = x
    BY InSeq
  <2> QED BY <1>1, <1>2, <2>1, <2>2
<1>4. ASSUME Once(w), e \notin Range(w) PROVE Once(v)
  <2>1. \A i \in 1..Len(w) : w[i] # e
    BY <1>4, InSeq
  <2> QED BY <1>1, <1>2, <1>4, <2>1 DEF Once
<1> QED BY <1>1, <1>3, <1>4 DEF v

LEMMA OnceInit == ASSUME Init PROVE OnceWatched
  BY DEF Init, OnceWatched, Once, ToWatch, Range

LEMMA OnceStep ==
  ASSUME MaxWatch <= 1, Inv, OnceWatched, NEW t \in Threads,
         Begin(t) \/ Acquire(t) \/ Working(t) \/ Answer(t)
  PROVE  OnceWatched'
<1> USE DEF Inv, Types, OnceWatched, ToWatch, calls, Call, GoTo, Runs, Holds
<1>1. CASE Begin(t)
  <2>1. PICK s \in Sockets :
          /\ arg' = [arg EXCEPT ![t] = s]
          /\ \/ Call(t, "socket", "register")
             \/ \E c \in Callable(s) : Call(t, c, "find")
    BY <1>1 DEF Begin
  <2>0. watch_list' = watch_list
    BY <1>1 DEF Begin
  <2>2. CASE Call(t, "socket", "register")
    BY <2>0, <2>1, <2>2
  <2>3. CASE \E c \in Callable(s) : Call(t, c, "find")
    <3>1. PICK c \in Callable(s) : Call(t, c, "find")
      BY <2>3
    <3>2. c = "watchdog" => s \notin Range(watch_list)
      BY WatchdogOnce DEF Inv
    <3> QED BY <2>0, <2>1, <3>1, <3>2
  <2> QED BY <2>1, <2>2, <2>3
<1>2. CASE Acquire(t)
  BY <1>2 DEF Acquire
<1>3. CASE Register(t)
  BY <1>3 DEF Register
<1>4. CASE Find(t)
  <2> DEFINE l == IF arg[t] \in psl THEN After(call[t], arg[t]) ELSE "app"
  <2>1. pc[t] = "find" /\ GoTo(t, l) /\ UNCHANGED <<arg, watch_list>>
    BY <1>4 DEF Find
  <2>2. call[t] \in Calls \ {"none", "socket"}
    BY <2>1 DEF Calling
  <2>3. l # "find" /\ (l = "watch" => call[t] = "watchdog")
    BY <2>2, AfterIs
  <2> HIDE DEF l
  <2> QED BY <2>1, <2>3
<1>5. CASE Listen(t) \/ Free(t) \/ Arm(t)
  BY <1>5 DEF Listen, Free, Arm
<1>9. CASE Send(t)
  BY <1>9 DEF Send
<1>6. CASE Unlist(t)
  BY <1>6 DEF Unlist, Unlisted
<1>7. CASE Unwatch(t)
  <2>1. /\ watch_list' = RemoveFirst(watch_list, arg[t]) /\ arg' = arg
        /\ pc' = [pc EXCEPT ![t] = "free"] /\ call' = [call EXCEPT ![t] = call[t]]
    BY <1>7 DEF Unwatch
  <2>2. Once(watch_list') /\ \A x \in Range(watch_list') : x \in Range(watch_list)
    BY <2>1, RemoveFirstOnce
  <2> QED BY <2>1, <2>2
<1>10. CASE Watch(t)
  <2>1. /\ watch_list' = Append(watch_list, arg[t]) /\ arg' = arg /\ pc[t] = "watch"
        /\ pc' = [pc EXCEPT ![t] = "arm"] /\ call' = [call EXCEPT ![t] = call[t]]
    BY <1>10 DEF Watch
  <2>2. arg[t] \in Sockets /\ arg[t] \notin Range(watch_list)
    BY <2>1
  <2>3. Once(watch_list') /\ \A x : x \in Range(watch_list') <=> x \in Range(watch_list) \/ x = arg[t]
    BY <2>1, <2>2, AppendIs
  <2>4. ASSUME NEW u \in Threads, ToWatch(u)' PROVE arg'[u] \notin Range(watch_list')
    <3>1. u # t /\ ToWatch(u)
      BY <2>1, <2>4
    <3>2. arg[u] # arg[t]
      BY <2>1, <3>1, Alone
    <3> QED BY <2>1, <2>3, <3>1, <3>2
  <2> QED BY <2>3, <2>4
<1>8. CASE Answer(t)
  BY <1>8 DEF Answer
<1> QED BY <1>1, <1>2, <1>3, <1>4, <1>5, <1>6, <1>7, <1>8, <1>9, <1>10 DEF Working

LEMMA OnceNext == ASSUME MaxWatch <= 1, Inv, OnceWatched, [Next]_vars PROVE OnceWatched'
<1>1. CASE UNCHANGED <<call, arg, pc, watch_list>>
  BY <1>1 DEF OnceWatched, ToWatch
<1>2. UNCHANGED vars \/ Tick => UNCHANGED <<call, arg, pc, watch_list>>
  BY DEF vars, calls, Tick
<1>3. ASSUME NEW t \in Threads, \/ Begin(t) \/ Acquire(t) \/ Working(t) \/ Answer(t)
                                \/ Fire(t) \/ Waiting(t) \/ Handling(t)
      PROVE  OnceWatched'
  BY <1>1, <1>3, OnceStep, HandlerLeavesCalls
<1> QED BY <1>1, <1>2, <1>3 DEF Next

-----------------------------------------------------------------------------
(* The sockets of the lists are not freed.                                 *)
Live(s)    == state[s] \notin {"none", "freed"}
Watched(s) == s \in Range(watch_list) \/ \E t \in Threads : s \in Range(rest[t])

Registered == \A t \in Threads : pc[t] \in {"register", "watch"} => Live(arg[t])
Removed ==
  \A t \in Threads :
    /\ pc[t] \in {"unwatch", "free"} => arg[t] \notin psl
    /\ pc[t] = "free" => ~Watched(arg[t])
Usable == \A s \in Sockets : s \in psl \/ Watched(s) => Live(s)
FreeInv == Registered /\ Removed /\ Usable

CallStep(t)    == Begin(t) \/ Acquire(t) \/ Working(t) \/ Answer(t)
HandlerStep(t) == Fire(t) \/ Waiting(t) \/ Handling(t)

LEMMA NextIs ==
  ASSUME Next PROVE Tick \/ \E t \in Threads : CallStep(t) \/ HandlerStep(t)
  BY DEF Next, CallStep, HandlerStep

(* The calls of other threads, and those that a handler interrupts, stand. *)
LEMMA OthersStand ==
  ASSUME Inv, NEW t \in Threads, NEW u \in Threads,
         (CallStep(t) /\ u # t) \/ HandlerStep(t)
  PROVE  pc'[u] = pc[u] /\ call'[u] = call[u] /\ arg'[u] = arg[u]
<1>1. CASE HandlerStep(t)
  BY <1>1, HandlerLeavesCalls DEF HandlerStep
<1>2. CASE CallStep(t) /\ u # t
  <2> USE DEF Inv, Types, calls, Call, GoTo
  <2>1. CASE Begin(t)
    BY <1>2, <2>1 DEF Begin
  <2>2. CASE Acquire(t)
    BY <2>2 DEF Acquire
  <2>3. CASE Working(t)
    <3>1. CASE Register(t) \/ Find(t)
      BY <1>2, <3>1 DEF Register, Find
    <3>2. CASE Listen(t) \/ Send(t) \/ Free(t)
      BY <1>2, <3>2 DEF Listen, Send, Free
    <3>3. CASE Unlist(t) \/ Unwatch(t)
      BY <1>2, <3>3 DEF Unlist, Unwatch
    <3>4. CASE Watch(t) \/ Arm(t)
      BY <1>2, <3>4 DEF Watch, Arm
    <3> QED BY <2>3, <3>1, <3>2, <3>3, <3>4 DEF Working
  <2>4. CASE Answer(t)
    BY <1>2, <2>4 DEF Answer
  <2> QED BY <1>2, <2>1, <2>2, <2>3, <2>4 DEF CallStep
<1> QED BY <1>1, <1>2

(* What a step adds to the lists.                                          *)
LEMMA ListsStep ==
  ASSUME Inv, OnceWatched, NEW t \in Threads, CallStep(t) \/ HandlerStep(t), NEW s
  PROVE  /\ s \in psl' => s \in psl \/ (pc[t] = "register" /\ pc'[t] = "app" /\ s = arg[t])
         /\ Watched(s)' => Watched(s) \/ (pc[t] = "watch" /\ pc'[t] = "arm" /\ s = arg[t])
<1> USE DEF Watched, calls, alarms, Call, GoTo, Runs, Holds
<1>1. CASE Begin(t)
  BY <1>1 DEF Begin
<1>2. CASE Acquire(t)
  BY <1>2 DEF Acquire
<1>3. CASE Register(t)
  BY <1>3 DEF Register, Inv, Types
<1>4. CASE Find(t) \/ Listen(t) \/ Send(t)
  BY <1>4 DEF Find, Listen, Send
<1>5. CASE Free(t) \/ Arm(t) \/ Answer(t)
  BY <1>5 DEF Free, Arm, Answer
<1>6. CASE Unlist(t)
  BY <1>6 DEF Unlist
<1>7. CASE Unwatch(t)
  <2>1. /\ watch_list' = RemoveFirst(watch_list, arg[t])
        /\ UNCHANGED <<psl, rest>>
    BY <1>7 DEF Unwatch
  <2>2. s \in Range(watch_list') => s \in Range(watch_list)
    BY <2>1, RemoveFirstOnce DEF Inv, Types, OnceWatched
  <2> QED BY <2>1, <2>2
<1>8. CASE Watch(t)
  <2>1. /\ watch_list' = Append(watch_list, arg[t])
        /\ UNCHANGED <<psl, rest>> /\ pc[t] = "watch" /\ pc'[t] = "arm"
    BY <1>8 DEF Watch, Inv, Types
  <2>2. s \in Range(watch_list') => s \in Range(watch_list) \/ s = arg[t]
    BY <2>1, AppendIs DEF Inv, Types
  <2> QED BY <2>1, <2>2
<1>9. CASE HandlerStep(t)
  <2>1. UNCHANGED <<psl, watch_list>>
    BY <1>9, HandlerLeavesCalls DEF HandlerStep
  <2>2. \/ rest' = rest
        \/ rest' = [rest EXCEPT ![t] = watch_list]
        \/ rest[t] # <<>> /\ rest' = [rest EXCEPT ![t] = Tail(rest[t])]
    BY <1>9 DEF HandlerStep, Fire, Waiting, Handling, HandlerLock, HandlerAcquire, Scan, ScanEnds,
                HandlerFind, HandlerTickle, Tickled, Pass, Inv, Holding
  <2>3. \A u \in Threads : u # t => rest'[u] = rest[u]
    BY <2>2 DEF Inv, Types
  <2>4. \/ rest'[t] = rest[t] \/ rest'[t] = watch_list
        \/ rest[t] # <<>> /\ rest'[t] = Tail(rest[t])
    BY <2>2 DEF Inv, Types
  <2>5. s \in Range(rest'[t]) => s \in Range(rest[t]) \/ s \in Range(watch_list)
    BY <2>4, RestTail DEF Inv
  <2> QED BY <2>1, <2>3, <2>5
<1> QED BY <1>1, <1>2, <1>3, <1>4, <1>5, <1>6, <1>7, <1>8, <1>9 DEF CallStep, Working


(* What a step makes of a socket.                                          *)
LEMMA StateStep ==
  ASSUME Inv, NEW t \in Threads, CallStep(t) \/ HandlerStep(t), NEW s \in Sockets
  PROVE  \/ state'[s] = state[s]
         \/ state[s] = "none" /\ state'[s] = "close"
         \/ /\ s = arg[t] /\ pc'[t] \in {"app", "unlist"}
            /\ \/ pc[t] = "listen" /\ state'[s] = "listen"
               \/ pc[t] = "device" /\ state'[s] \in {"connected", "break", "end"}
               \/ pc[t] = "free" /\ state'[s] = "freed"
            /\ state'[s] = "connected" => call[t] \in {"connect", "accept"}
         \/ s = Head(rest[t]) /\ rest[t] # <<>> /\ state'[s] = "break"
<1> USE DEF Inv, Types, calls, alarms, Call, GoTo, Runs, Holds
<1>1. CASE Begin(t)
  BY <1>1 DEF Begin
<1>2. CASE Acquire(t)
  BY <1>2 DEF Acquire
<1>3. CASE Listen(t)
  BY <1>3 DEF Listen
<1>4. CASE Free(t)
  BY <1>4 DEF Free
<1>5. CASE Answer(t)
  BY <1>5 DEF Answer
<1>6. CASE Working(t) /\ ~Listen(t) /\ ~Free(t)
  BY <1>6 DEF Working, Register, Find, Send, Unlist, Unwatch, Watch, Arm
<1>7. CASE HandlerTickle(t)
  BY <1>7 DEF HandlerTickle, Holding
<1>8. CASE HandlerStep(t) /\ ~HandlerTickle(t)
  BY <1>8 DEF HandlerStep, Fire, Waiting, Handling, HandlerLock, HandlerAcquire, Scan, ScanEnds,
              HandlerFind
<1> QED BY <1>1, <1>2, <1>3, <1>4, <1>5, <1>6, <1>7, <1>8 DEF CallStep

LEMMA FreeInit == ASSUME Init PROVE FreeInv
  BY DEF Init, FreeInv, Registered, Removed, Usable, Live, Watched, Range

LEMMA LiveStep ==
  ASSUME Inv, NEW t \in Threads, CallStep(t) \/ HandlerStep(t), NEW s \in Sockets, Live(s)
  PROVE  Live(s)' \/ (pc[t] = "free" /\ pc'[t] # "free" /\ s = arg[t])
  BY StateStep DEF Live

LEMMA RegisteredSelf ==
  ASSUME Inv, FreeInv, NEW t \in Threads, CallStep(t), pc'[t] \in {"register", "watch"}
  PROVE  Live(arg[t])'
<1> USE DEF Inv, Types, calls, alarms, Call, GoTo, Runs, Holds, Live, FreeInv, Registered
<1>1. CASE Begin(t)
  <2>1. PICK s \in Sockets :
          /\ arg' = [arg EXCEPT ![t] = s]
          /\ \/ state' = [state EXCEPT ![s] = "close"]
             \/ pc' = [pc EXCEPT ![t] = "find"]
    BY <1>1 DEF Begin
  <2> QED BY <2>1
<1>2. CASE Acquire(t)
  BY <1>2 DEF Acquire
<1>3. CASE Find(t)
  <2>1. arg[t] \in psl /\ UNCHANGED <<state, arg>>
    BY <1>3 DEF Find
  <2> QED BY <2>1 DEF Usable
<1>4. CASE Register(t) \/ Listen(t) \/ Send(t)
  BY <1>4 DEF Register, Listen, Send
<1>5. CASE Unlist(t) \/ Unwatch(t) \/ Free(t)
  BY <1>5 DEF Unlist, Unlisted, Unwatch, Free
<1>6. CASE Watch(t) \/ Arm(t)
  BY <1>6 DEF Watch, Arm
<1>7. CASE Answer(t)
  BY <1>7 DEF Answer
<1> QED BY <1>1, <1>2, <1>3, <1>4, <1>5, <1>6, <1>7 DEF CallStep, Working

LEMMA RemovedSelf ==
  ASSUME Inv, OnceWatched, FreeInv, NEW t \in Threads, CallStep(t), pc'[t] \in {"unwatch", "free"}
  PROVE  arg'[t] \notin psl' /\ (pc'[t] = "free" => ~Watched(arg[t])')
<1> USE DEF Inv, Types, calls, alarms, Call, GoTo, Runs, Holds, FreeInv, Removed
<1>1. CASE Begin(t)
  BY <1>1 DEF Begin
<1>2. CASE Acquire(t)
  BY <1>2 DEF Acquire, Watched
<1>3. CASE Find(t)
  <2> DEFINE l == IF arg[t] \in psl THEN After(call[t], arg[t]) ELSE "app"
  <2>1. pc[t] = "find" /\ GoTo(t, l)
    BY <1>3 DEF Find
  <2>2. call[t] \in Calls \ {"none", "socket"}
    BY <2>1 DEF Calling
  <2>3. l \notin {"unwatch", "free"}
    BY <2>2, AfterIs
  <2> HIDE DEF l
  <2> QED BY <2>1, <2>3
<1>4. CASE Register(t) \/ Listen(t) \/ Send(t)
  BY <1>4 DEF Register, Listen, Send
<1>5. CASE Unlist(t)
  BY <1>5 DEF Unlist, Unlisted
<1>6. CASE Unwatch(t)
  <2>1. /\ watch_list' = RemoveFirst(watch_list, arg[t]) /\ arg[t] \notin psl
        /\ UNCHANGED <<psl, arg, rest>> /\ mutex["watch"] = <<t, "call">>
    BY <1>6, NeedsAre DEF Unwatch
  <2>2. arg[t] \notin Range(watch_list')
    BY <2>1, RemoveFirstOnce DEF OnceWatched
  <2>3. \A u \in Threads : rest[u] = <<>>
    BY <2>1, Holders DEF Holding
  <2>4. \A u \in Threads : arg[t] \notin Range(rest[u])
    BY <2>3 DEF Range
  <2> QED BY <2>1, <2>2, <2>4 DEF Watched
<1>7. CASE Watch(t) \/ Arm(t) \/ Free(t)
  BY <1>7 DEF Watch, Arm, Free
<1>8. CASE Answer(t)
  BY <1>8 DEF Answer
<1> QED BY <1>1, <1>2, <1>3, <1>4, <1>5, <1>6, <1>7, <1>8 DEF CallStep, Working

LEMMA FreeStep ==
  ASSUME Inv, OnceWatched, FreeInv, NEW t \in Threads, CallStep(t) \/ HandlerStep(t)
  PROVE  FreeInv'
<1>1. \A u \in Threads : arg[u] \in Sockets
  BY DEF Inv, Types
<1>2. ASSUME NEW u \in Threads, u # t \/ HandlerStep(t), pc'[u] \in {"register", "watch"}
      PROVE  Live(arg[u])'
  <2>1. pc[u] \in {"register", "watch"} /\ arg'[u] = arg[u]
    BY <1>2, OthersStand
  <2>2. Live(arg[u])
    BY <2>1 DEF FreeInv, Registered
  <2>3. ~(pc[t] = "free" /\ pc'[t] # "free" /\ arg[u] = arg[t])
    BY <2>1, Alone, <1>2 DEF Inv
  <2> QED BY <1>1, <2>1, <2>2, <2>3, LiveStep DEF Live
<1>3. ASSUME NEW u \in Threads, u # t \/ HandlerStep(t), pc'[u] \in {"unwatch", "free"}
      PROVE  arg'[u] \notin psl' /\ (pc'[u] = "free" => ~Watched(arg[u])')
  <2>1. pc[u] = pc'[u] /\ arg'[u] = arg[u]
    BY <1>3, OthersStand
  <2>2. arg[u] \notin psl /\ (pc[u] = "free" => ~Watched(arg[u]))
    BY <1>3, <2>1 DEF FreeInv, Removed
  <2>3. ~(pc[t] \in {"register", "watch"} /\ arg[u] = arg[t])
    BY <1>3, <2>1, Alone DEF Inv
  <2> QED BY <2>1, <2>2, <2>3, ListsStep DEF Watched
<1>4. Registered'
  BY <1>2, RegisteredSelf DEF Registered
<1>5. Removed'
  BY <1>3, RemovedSelf DEF Removed
<1>6. ASSUME NEW s \in Sockets, s \in psl' \/ Watched(s)' PROVE Live(s)'
  <2>1. CASE s \in psl \/ Watched(s)
    <3>1. Live(s) /\ ~(pc[t] = "free" /\ s = arg[t])
      BY <2>1 DEF FreeInv, Usable, Removed
    <3> QED BY <3>1, LiveStep
  <2>2. CASE ~(s \in psl \/ Watched(s))
    <3>1. pc[t] \in {"register", "watch"} /\ pc'[t] \in {"app", "arm"} /\ s = arg[t]
      BY <1>6, <2>2, ListsStep
    <3>2. Live(s) /\ ~(pc[t] = "free")
      BY <3>1 DEF FreeInv, Registered
    <3> QED BY <3>2, LiveStep
  <2> QED BY <2>1, <2>2
<1> QED BY <1>4, <1>5, <1>6 DEF FreeInv, Usable


-----------------------------------------------------------------------------
(* A watched socket was connected, and is never connected again.           *)
WasConnected(s) == state[s] \notin {"none", "close", "listen"}
Begun(t) ==
  \/ pc[t] = "listen"
  \/ pc[t] \in {"find", "device"} /\ call[t] \in {"listen", "connect"}
  \/ pc[t] = "device" /\ call[t] = "accept"
ConnectedOnce ==
  /\ \A s \in Sockets : Watched(s) => WasConnected(s)
  /\ \A t \in Threads : ToWatch(t) => WasConnected(arg[t])
  /\ \A t \in Threads : Begun(t) => ~WasConnected(arg[t])

LEMMA ConnectedInit == ASSUME Init PROVE ConnectedOnce
  BY DEF Init, ConnectedOnce, Watched, ToWatch, Begun, Range

LEMMA WasStep ==
  ASSUME Inv, ConnectedOnce, NEW t \in Threads, CallStep(t) \/ HandlerStep(t), NEW s \in Sockets
  PROVE  /\ WasConnected(s) => WasConnected(s)'
         /\ WasConnected(s)' =>
              \/ WasConnected(s)
              \/ s = arg[t] /\ pc[t] # "app" /\ pc'[t] \in {"app", "unlist"}
<1>1. rest[t] # <<>> => WasConnected(Head(rest[t]))
  BY RestTail DEF Inv, ConnectedOnce, Watched
<1>2. pc[t] = "listen" => ~WasConnected(arg[t])
  BY DEF ConnectedOnce, Begun
<1> QED BY <1>1, <1>2, StateStep DEF WasConnected

(* What the thread that calls comes to is right.                           *)
LEMMA ConnectedSelf ==
  ASSUME Inv, ConnectedOnce, NEW t \in Threads, CallStep(t)
  PROVE  /\ ToWatch(t)' => WasConnected(arg[t])'
         /\ Begun(t)' => ~WasConnected(arg[t])'
<1> USE DEF Inv, Types, calls, alarms, Call, GoTo, Runs, Holds, WasConnected, ToWatch, Begun
<1>1. CASE Begin(t)
  <2>1. PICK s \in Sockets :
          /\ arg' = [arg EXCEPT ![t] = s]
          /\ \/ Call(t, "socket", "register")
             \/ (\E c \in Callable(s) : Call(t, c, "find")) /\ UNCHANGED state
    BY <1>1 DEF Begin
  <2>2. CASE Call(t, "socket", "register")
    BY <2>1, <2>2
  <2>3. CASE (\E c \in Callable(s) : Call(t, c, "find")) /\ UNCHANGED state
    <3>1. PICK c \in Callable(s) : Call(t, c, "find")
      BY <2>3
    <3>2. /\ c \in {"listen", "connect"} => state[s] = "close"
          /\ c = "watchdog" => state[s] = "connected"
      BY CallableAre DEF Connected
    <3> QED BY <2>1, <2>3, <3>1, <3>2
  <2> QED BY <2>1, <2>2, <2>3
<1>2. CASE Acquire(t)
  BY <1>2 DEF Acquire, ConnectedOnce
<1>3. CASE Find(t)
  <2> DEFINE l == IF arg[t] \in psl THEN After(call[t], arg[t]) ELSE "app"
  <2>1. pc[t] = "find" /\ GoTo(t, l) /\ UNCHANGED <<arg, state>>
    BY <1>3 DEF Find
  <2>2. call[t] \in Calls \ {"none", "socket"}
    BY <2>1 DEF Calling
  <2>3. /\ l # "find"
        /\ l = "watch" => call[t] = "watchdog"
        /\ l = "listen" => call[t] = "listen"
        /\ l = "device" => call[t] \in {"connect", "tickle"} \/ state[arg[t]] = "listen"
    BY <2>2, AfterIs
  <2> HIDE DEF l
  <2> QED BY <2>1, <2>3 DEF ConnectedOnce
<1>4. CASE Send(t)
  BY <1>4 DEF Send, Calling
<1>5. CASE Register(t) \/ Listen(t)
  BY <1>5 DEF Register, Listen
<1>6. CASE Unlist(t) \/ Unwatch(t) \/ Free(t)
  BY <1>6 DEF Unlist, Unlisted, Unwatch, Free
<1>7. CASE Watch(t) \/ Arm(t)
  BY <1>7 DEF Watch, Arm
<1>8. CASE Answer(t)
  BY <1>8 DEF Answer
<1> QED BY <1>1, <1>2, <1>3, <1>4, <1>5, <1>6, <1>7, <1>8 DEF CallStep, Working

LEMMA ConnectedStep ==
  ASSUME Inv, OnceWatched, ConnectedOnce, NEW t \in Threads, CallStep(t) \/ HandlerStep(t)
  PROVE  ConnectedOnce'
<1>1. \A u \in Threads : arg[u] \in Sockets
  BY DEF Inv, Types
<1>2. ASSUME NEW u \in Threads, u # t \/ HandlerStep(t)
      PROVE  /\ ToWatch(u)' => WasConnected(arg[u])'
             /\ Begun(u)' => ~WasConnected(arg[u])'
  <2>1. pc[u] = pc'[u] /\ call[u] = call'[u] /\ arg'[u] = arg[u]
    BY <1>2, OthersStand
  <2>2. CASE ToWatch(u)
    <3>1. WasConnected(arg[u])
      BY <2>2 DEF ConnectedOnce
    <3>2. state'[arg[u]] \notin {"none", "close", "listen"}
      BY <3>1, <1>1, WasStep DEF WasConnected
    <3> QED BY <2>1, <2>2, <3>2 DEF WasConnected, ToWatch, Begun
  <2>3. CASE Begun(u)
    <3>1. ~WasConnected(arg[u]) /\ pc[u] # "app"
      BY <2>3 DEF ConnectedOnce, Begun
    <3>2. ~(arg[u] = arg[t] /\ pc[t] # "app" /\ pc'[t] \in {"app", "unlist"})
      BY <1>2, <2>1, <2>3, <3>1, Alone DEF Inv, Begun
    <3>3. ~(state'[arg[u]] \notin {"none", "close", "listen"})
      BY <3>1, <3>2, <1>1, WasStep DEF WasConnected
    <3> QED BY <2>1, <2>3, <3>3 DEF WasConnected, ToWatch, Begun
  <2>4. CASE ~ToWatch(u) /\ ~Begun(u)
    BY <2>1, <2>4 DEF ToWatch, Begun
  <2> QED BY <2>2, <2>3, <2>4
<1>3. ASSUME NEW s \in Sockets, Watched(s)' PROVE WasConnected(s)'
  <2>1. CASE Watched(s)
    BY <2>1, WasStep DEF ConnectedOnce
  <2>2. CASE ~Watched(s)
    <3>1. pc[t] = "watch" /\ s = arg[t]
      BY <1>3, <2>2, ListsStep
    <3>2. WasConnected(s)
      BY <3>1 DEF ConnectedOnce, ToWatch
    <3> QED BY <3>2, WasStep
  <2> QED BY <2>1, <2>2
<1> QED BY <1>2, <1>3, ConnectedSelf DEF ConnectedOnce

-----------------------------------------------------------------------------
(* The alarm.  It was set before the list was scanned.                     *)

Armed ==
  (\E s \in Sockets : Watched(s)) => interval = Interval \/ \E t \in Threads : pc[t] = "arm"

LEMMA ArmedInit == ASSUME Init PROVE Armed
  BY DEF Init, Armed, Watched, Range

LEMMA ArmStep ==
  ASSUME Inv, NEW t \in Threads, CallStep(t), pc[t] = "arm"
  PROVE  interval' = Interval /\ timer' = Interval
<1>1. Arm(t)
  BY NeedsAre DEF CallStep, Begin, Acquire, Working, Answer, Register, Find, Listen, Send, Unlist,
                  Unwatch, Free, Watch, Runs, Holds
<1> QED BY <1>1 DEF Arm

LEMMA IntervalStep ==
  ASSUME Inv, NEW t \in Threads, CallStep(t) \/ HandlerStep(t)
  PROVE  interval' = interval \/ interval' = Interval
<1>1. CASE HandlerStep(t)
  BY <1>1, HandlerLeavesCalls DEF HandlerStep
<1>2. CASE CallStep(t)
  BY <1>2 DEF CallStep, Begin, Acquire, Working, Answer, Register, Find, Listen, Send, Unlist,
              Unwatch, Free, Watch, Arm
<1> QED BY <1>1, <1>2

LEMMA ArmedStep ==
  ASSUME Inv, OnceWatched, Armed, NEW t \in Threads, CallStep(t) \/ HandlerStep(t)
  PROVE  Armed'
<1>1. SUFFICES ASSUME NEW s \in Sockets, Watched(s)'
               PROVE  interval' = Interval \/ \E u \in Threads : pc'[u] = "arm"
  BY DEF Armed
<1>2. CASE ~Watched(s)
  BY <1>1, <1>2, ListsStep
<1>3. CASE interval = Interval
  BY <1>3, IntervalStep
<1>4. ASSUME NEW u \in Threads, pc[u] = "arm"
      PROVE  interval' = Interval \/ pc'[u] = "arm"
  BY <1>4, ArmStep, OthersStand
<1> QED BY <1>2, <1>3, <1>4 DEF Armed

LEMMA KeptInit == ASSUME Init PROVE KeptAlive
  BY DEF Init, KeptAlive, Range

LEMMA WatchListStep ==
  ASSUME Inv, OnceWatched, NEW t \in Threads, CallStep(t) \/ HandlerStep(t), ~Watch(t),
         NEW s, s \in Range(watch_list')
  PROVE  s \in Range(watch_list)
<1>1. CASE HandlerStep(t)
  BY <1>1, HandlerLeavesCalls DEF HandlerStep
<1>2. CASE Unwatch(t)
  <2>1. watch_list' = RemoveFirst(watch_list, arg[t])
    BY <1>2 DEF Unwatch
  <2> QED BY <2>1, RemoveFirstOnce DEF Inv, Types, OnceWatched
<1>3. CASE CallStep(t) /\ ~Unwatch(t)
  BY <1>3 DEF CallStep, Begin, Acquire, Working, Answer, Register, Find, Listen, Send, Unlist,
              Free, Arm
<1> QED BY <1>1, <1>2, <1>3

(* The timer runs on, but for the signal and a tickle that cannot be sent. *)
LEMMA TimerCalls ==
  ASSUME Inv, NEW t \in Threads, CallStep(t)
  PROVE  /\ UNCHANGED <<handler, rest>>
         /\ timer > 0 => timer' > 0
<1>1. UNCHANGED <<handler, rest>>
  BY DEF CallStep, Begin, Acquire, Working, Answer, Register, Find, Listen, Send, Unlist,
         Unwatch, Free, Watch, Arm, alarms
<1>2. timer' = timer \/ (interval # 0 /\ timer' = interval) \/ timer' = Interval
  BY DEF CallStep, Begin, Acquire, Working, Answer, Register, Find, Listen, Send, Unlist,
         Unwatch, Free, Watch, Arm
<1>3. Interval \in Nat \ {0} /\ interval \in {0, Interval} /\ timer \in 0..Interval
  BY SocketsAssumption DEF Inv, Types
<1> QED BY <1>1, <1>2, <1>3

LEMMA TimerHandler ==
  ASSUME Inv, NEW t \in Threads, HandlerStep(t)
  PROVE  /\ \A u \in Threads : u # t => handler'[u] = handler[u] /\ rest'[u] = rest[u]
         /\ \/ timer' = timer /\ handler'[t] = handler[t] /\ rest'[t] = rest[t]
            \/ handler[t] = "off" /\ handler'[t] = "lock"
            \/ handler[t] = "lock" /\ handler'[t] = "scan" /\ rest'[t] = watch_list
            \/ timer' = timer /\ rest'[t] = rest[t] /\ handler[t] # "lock" /\ handler'[t] # "off"
            \/ /\ timer' = timer /\ handler[t] = "scan" /\ handler'[t] = "scan"
               /\ rest[t] # <<>> /\ ~Connected(Head(rest[t])) /\ rest'[t] = Tail(rest[t])
            \/ timer' = timer /\ handler[t] = "scan" /\ rest[t] = <<>>
            \/ timer' \in {1, interval} /\ rest[t] # <<>>
<1> USE DEF Inv, Types, alarms, Does
<1>1. CASE Fire(t)
  BY <1>1 DEF Fire
<1>2. CASE HandlerLock(t)
  BY <1>2 DEF HandlerLock
<1>3. CASE HandlerAcquire(t)
  BY <1>3 DEF HandlerAcquire
<1>4. CASE Scan(t)
  BY <1>4 DEF Scan, Pass
<1>5. CASE ScanEnds(t)
  BY <1>5 DEF ScanEnds
<1>6. CASE HandlerFind(t)
  BY <1>6 DEF HandlerFind, Tickled, Rearm, Holding
<1>7. CASE HandlerTickle(t)
  BY <1>7 DEF HandlerTickle, Tickled, Rearm, Holding
<1> QED BY <1>1, <1>2, <1>3, <1>4, <1>5, <1>6, <1>7 DEF HandlerStep, Waiting, Handling


LEMMA ArmingStep ==
  ASSUME Inv, Armed, NEW t \in Threads, CallStep(t) \/ HandlerStep(t),
         NEW s \in Sockets, s \in Range(watch_list), Connected(s), timer > 0 \/ Arming(s)
  PROVE  timer' > 0 \/ Arming(s)'
<1>0. Interval \in Nat \ {0} /\ interval \in {0, Interval} /\ timer \in 0..Interval
  BY SocketsAssumption DEF Inv, Types
<1>1. ASSUME NEW u \in Threads, pc[u] = "arm" PROVE timer' > 0 \/ Arming(s)'
  BY <1>0, <1>1, ArmStep, OthersStand DEF Arming
<1>2. CASE CallStep(t)
  <2>1. CASE timer > 0
    BY <1>2, <2>1, TimerCalls
  <2>2. CASE Arming(s)
    BY <1>1, <1>2, <2>2, TimerCalls DEF Arming
  <2> QED BY <2>1, <2>2
<1>3. CASE HandlerStep(t)
  <2>1. CASE handler[t] = "off" /\ handler'[t] = "lock"
    BY <2>1 DEF Arming
  <2>2. CASE handler[t] = "lock" /\ handler'[t] = "scan" /\ rest'[t] = watch_list
    BY <2>2 DEF Arming
  <2>3. CASE timer' \in {1, interval} /\ rest[t] # <<>>
    <3>1. Watched(s)
      BY DEF Watched
    <3>2. interval = Interval \/ \E u \in Threads : pc[u] = "arm"
      BY <3>1 DEF Armed
    <3>3. CASE interval = Interval
      BY <1>0, <2>3, <3>3
    <3> QED BY <1>1, <3>2, <3>3
  <2>4. CASE timer' = timer
    <3>1. CASE timer > 0
      BY <2>4, <3>1
    <3>2. ASSUME NEW u \in Threads, u # t,
                 handler[u] = "lock" \/ (handler[u] # "off" /\ s \in Range(rest[u]))
          PROVE  Arming(s)'
      BY <1>3, <3>2, TimerHandler DEF Arming
    <3>3. ASSUME handler[t] = "lock" \/ (handler[t] # "off" /\ s \in Range(rest[t])),
                 ~(handler[t] = "lock" /\ handler'[t] = "scan" /\ rest'[t] = watch_list),
                 ~(timer' \in {1, interval} /\ rest[t] # <<>>)
          PROVE  Arming(s)'
      <4>1. CASE handler'[t] = handler[t] /\ rest'[t] = rest[t]
        BY <3>3, <4>1 DEF Arming
      <4>2. CASE rest'[t] = rest[t] /\ handler[t] # "lock" /\ handler'[t] # "off"
        BY <3>3, <4>2 DEF Arming
      <4>3. CASE /\ handler[t] = "scan" /\ handler'[t] = "scan"
                 /\ rest[t] # <<>> /\ ~Connected(Head(rest[t])) /\ rest'[t] = Tail(rest[t])
        <5>1. s \in Range(rest'[t])
          BY <3>3, <4>3, RestTail DEF Inv
        <5> QED BY <4>3, <5>1 DEF Arming
      <4>4. CASE handler[t] = "scan" /\ rest[t] = <<>>
        BY <3>3, <4>4 DEF Range
      <4> QED BY <1>3, <3>3, <4>1, <4>2, <4>3, <4>4, TimerHandler
    <3> QED BY <1>1, <2>2, <2>3, <3>1, <3>2, <3>3 DEF Arming
  <2> QED BY <1>3, <2>1, <2>2, <2>3, <2>4, TimerHandler
<1> QED BY <1>2, <1>3

LEMMA KeptStep ==
  ASSUME Inv, OnceWatched, ConnectedOnce, Armed, KeptAlive,
         NEW t \in Threads, CallStep(t) \/ HandlerStep(t)
  PROVE  KeptAlive'
<1>1. SUFFICES ASSUME NEW s \in Range(watch_list'), Connected(s)'
               PROVE  timer' > 0 \/ Arming(s)'
  BY DEF KeptAlive
<1>2. CASE Watch(t)
  <2>1. pc' = [pc EXCEPT ![t] = "arm"]
    BY <1>2 DEF Watch, GoTo, Call
  <2> QED BY <2>1 DEF Arming, Inv, Types
<1>3. CASE ~Watch(t)
  <2>1. s \in Range(watch_list)
    BY <1>3, WatchListStep
  <2>2. s \in Sockets
    <3>1. watch_list \in Seq(Sockets)
      BY DEF Inv, Types
    <3> QED BY <2>1, <3>1, InSeq, LenProperties
  <2>3. WasConnected(s)
    BY <2>1, <2>2 DEF ConnectedOnce, Watched
  <2>4. ~(pc[t] = "device" /\ call[t] \in {"connect", "accept"} /\ s = arg[t])
    BY <2>3 DEF ConnectedOnce, Begun
  <2>5. Connected(s)
    BY <1>1, <2>2, <2>4, StateStep DEF Connected
  <2> QED BY <2>1, <2>2, <2>5, ArmingStep DEF KeptAlive
<1> QED BY <1>2, <1>3

-----------------------------------------------------------------------------
AllInv == Inv /\ OnceWatched /\ FreeInv /\ ConnectedOnce /\ Armed /\ KeptAlive

LEMMA AllInit == ASSUME Init PROVE AllInv
  BY TypesInit, HoldingInit, CallingInit, OnceInit, FreeInit, ConnectedInit, ArmedInit, KeptInit
     DEF AllInv, Inv

LEMMA TickStep == ASSUME AllInv, Tick PROVE FreeInv' /\ ConnectedOnce' /\ Armed' /\ KeptAlive'
<1>1. timer' > 0 /\ UNCHANGED <<state, psl, watch_list, call, arg, pc, handler, rest, interval>>
  BY SocketsAssumption DEF Tick, calls, alarms, AllInv, Inv, Types
<1>2. FreeInv'
  BY <1>1 DEF AllInv, FreeInv, Registered, Removed, Usable, Live, Watched
<1>3. ConnectedOnce' /\ Armed'
  BY <1>1 DEF AllInv, ConnectedOnce, WasConnected, ToWatch, Begun, Armed, Watched
<1> QED BY <1>1, <1>2, <1>3 DEF KeptAlive

LEMMA AllStutter ==
  ASSUME AllInv, UNCHANGED vars PROVE FreeInv' /\ ConnectedOnce' /\ Armed' /\ KeptAlive'
<1>1. UNCHANGED <<state, psl, watch_list, call, arg, pc, handler, rest, interval, timer>>
  BY DEF vars, calls, alarms
<1>2. FreeInv'
  BY <1>1 DEF AllInv, FreeInv, Registered, Removed, Usable, Live, Watched
<1>3. ConnectedOnce' /\ Armed'
  BY <1>1 DEF AllInv, ConnectedOnce, WasConnected, ToWatch, Begun, Armed, Watched
<1> QED BY <1>1, <1>2, <1>3 DEF AllInv, KeptAlive, Connected, Arming

LEMMA AllNext == ASSUME MaxWatch <= 1, AllInv, [Next]_vars PROVE AllInv'
<1>1. Inv' /\ OnceWatched'
  BY TypesNext, HoldingNext, CallingNext, OnceNext DEF AllInv, Inv
<1>2. ASSUME NEW t \in Threads, CallStep(t) \/ HandlerStep(t)
      PROVE  FreeInv' /\ ConnectedOnce' /\ Armed' /\ KeptAlive'
  BY <1>2, FreeStep, ConnectedStep, ArmedStep, KeptStep DEF AllInv
<1> QED BY <1>1, <1>2, NextIs, TickStep, AllStutter DEF AllInv

LEMMA AllImplies == ASSUME AllInv PROVE TypeOK /\ NoUseAfterFree /\ KeptAlive
<1>1. TypeOK
  <2>1. ASSUME NEW m \in Mutexes PROVE HoldsRightly(m, mutex[m])
    <3>1. mutex[m] = Nobody \/ \E t \in Threads : mutex[m] \in {<<t, "call">>, <<t, "handler">>}
      BY DEF AllInv, Inv, Types
    <3>2. ASSUME NEW t \in Threads, mutex[m] = <<t, "call">>
          PROVE  pc[t] \in DOMAIN Needs /\ Needs[pc[t]] = m
      BY <3>2, NeedsAre DEF AllInv, Inv, Holding, Mutexes
    <3>3. ASSUME NEW t \in Threads, mutex[m] = <<t, "handler">>
          PROVE  handler[t] \in (IF m = "psl" THEN {"find"} ELSE {"scan", "find", "tickle"})
      BY <3>3 DEF AllInv, Inv, Holding, Walking, Mutexes
    <3> QED BY <3>1, <3>2, <3>3 DEF HoldsRightly
  <2> QED BY <2>1 DEF TypeOK, AllInv, Inv, Types
<1>2. NoUseAfterFree
  <2>1. psl \subseteq Sockets /\ watch_list \in Seq(Sockets) /\ \A t \in Threads : rest[t] \in Seq(Sockets)
    BY DEF AllInv, Inv, Types
  <2>2. \A x \in Range(watch_list) : x \in Sockets
    BY <2>1, InSeq, LenProperties
  <2>3. ASSUME NEW t \in Threads, NEW x \in Range(rest[t]) PROVE x \in Sockets
    BY <2>1, InSeq, LenProperties
  <2>4. ASSUME NEW x \in psl \cup Range(watch_list) \cup UNION {Range(rest[t]) : t \in Threads}
        PROVE  x \in Sockets /\ (x \in psl \/ Watched(x))
    BY <2>1, <2>2, <2>3 DEF Watched
  <2> QED BY <2>4 DEF AllInv, FreeInv, Usable, Live, NoUseAfterFree
<1> QED BY <1>1, <1>2 DEF AllInv

LEMMA Always == ASSUME MaxWatch <= 1 PROVE Spec => []AllInv
  BY AllInit, AllNext, PTL DEF Spec

(* No return of a call or of the handler leaves a mutex locked, and the    *)
(* variables keep their types.                                             *)
THEOREM TypeCorrect == ASSUME MaxWatch <= 1 PROVE Spec => []TypeOK
  BY Always, AllImplies, PTL

(* pi_close frees a socket that no list and no handler holds, wherever the *)
(* alarm interrupts whichever thread.                                      *)
THEOREM NoUseAfterFreeCorrect == ASSUME MaxWatch <= 1 PROVE Spec => []NoUseAfterFree
  BY Always, AllImplies, PTL

(* While pi_watchdog watches a connected socket, an alarm is set or about  *)
(* to be: no call and no tickle, sent or not, leaves the socket without.   *)
THEOREM KeptAliveCorrect == ASSUME MaxWatch <= 1 PROVE Spec => []KeptAlive
  BY Always, AllImplies, PTL
=============================================================================
