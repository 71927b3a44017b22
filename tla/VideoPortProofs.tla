--------------------------- MODULE VideoPortProofs ---------------------------
(* Theorems about VideoPort, for any number of threads, calls and events. *)
EXTENDS VideoPort, FiniteSetTheorems, TLAPS

(***************************************************************************)
(* Types.  Each thread is at a place of its own function, and what it goes *)
(* on to after CHECK_DRM_INITIALIZE or waits for in pthread_join is known. *)
(***************************************************************************)
AllLabels == CallerLabels \cup RefreshLabels \cup NotifyLabels
Waiting == {"check", "wait", "asleep"}

Places(t) == IF t \in Callers THEN CallerLabels
             ELSE IF t \in Refreshers THEN RefreshLabels ELSE NotifyLabels

Nexts(t) == IF t \in Refreshers THEN {"handle", "refresh"} ELSE {"handle"}

Place(t) ==
    /\ pc[t] \in Places(t)
    /\ pc[t] \in Waiting => next[t] \in Nexts(t)
    /\ t \in Callers /\ pc[t] = "joining" => joining[t] \in Refreshers

PlaceInv == \A t \in Threads : Place(t)
CountInv == \A r \in Refreshers : pending[r] <= raised

TypeInv == TypeOK /\ PlaceInv /\ CountInv

\* The kinds of threads are disjoint, and the bounds are numbers.
LEMMA Kinds ==
    /\ \A t \in Callers : t \in Threads /\ t \notin Refreshers /\ t \notin Notifiers
    /\ \A r \in Refreshers : r \in Threads /\ r \notin Callers /\ r \notin Notifiers
    /\ \A n \in Notifiers : n \in Threads /\ n \notin Callers /\ n \notin Refreshers
    /\ Nobody \notin Threads
BY VideoPortAssumption DEF Threads

LEMMA Bounds ==
    MaxCalls \in Nat /\ MaxInits \in Nat /\ MaxEvents \in Nat /\ PollLimit \in Nat \ {0}
BY VideoPortAssumption, Zenon

LEMMA ClientCalls ==
    \A c \in Calls : /\ c \in ApiCalls /\ c.arg \in BOOLEAN
                     /\ c.op \in {"init", "term", "get", "register", "enable"}
BY VideoPortAssumption DEF ApiCalls

\* The places of a thread are labels.
LEMMA PlaceLabels ==
    /\ \A t \in Threads : Places(t) \subseteq AllLabels /\ CheckLabels \subseteq Places(t)
    /\ \A t \in Threads : "idle" \in Places(t)
BY DEF Places, AllLabels, CallerLabels, RefreshLabels, NotifyLabels

\* The thread moves to a place of its function, and no other thread moves.
LEMMA Moves ==
    ASSUME TypeInv, NEW t \in Threads, NEW l \in Places(t), Goto(t, l),
           \A o \in Threads : o # t => next'[o] = next[o],
           \A o \in Callers : o # t => joining'[o] = joining[o],
           l \in Waiting => next'[t] \in Nexts(t),
           t \in Callers /\ l = "joining" => joining'[t] \in Refreshers
    PROVE  /\ pc' \in [Threads -> AllLabels] /\ PlaceInv'
           /\ pc'[t] = l /\ \A o \in Threads : o # t => pc'[o] = pc[o]
<1>1. pc \in [Threads -> AllLabels]
  BY DEF TypeInv, TypeOK, AllLabels
<1>2. pc' \in [Threads -> AllLabels]
  BY <1>1, PlaceLabels DEF Goto
<1>3. pc'[t] = l /\ \A o \in Threads : o # t => pc'[o] = pc[o]
  BY <1>1 DEF Goto
<1>4. Place(t)'
  BY <1>3 DEF Place, Places, Nexts
<1>5. \A o \in Threads : o # t => Place(o)'
  BY <1>3 DEF TypeInv, PlaceInv, Place, Places, Nexts
<1> QED
  BY <1>2, <1>3, <1>4, <1>5 DEF PlaceInv

\* What the places say of the labels of each kind.
LEMMA PlacesOfKinds ==
    ASSUME PlaceInv
    PROVE  /\ \A t \in Callers : pc[t] \in CallerLabels
           /\ \A r \in Refreshers : pc[r] \in RefreshLabels
           /\ \A n \in Notifiers : pc[n] \in NotifyLabels
BY Kinds DEF PlaceInv, Place, Places

\* At the start every thread is idle.
LEMMA InitTypes == Init => TypeInv
<1> SUFFICES ASSUME Init PROVE TypeInv
  OBVIOUS
<1>1. pc = [t \in Threads |-> "idle"] /\ pc \in [Threads -> AllLabels]
  BY DEF Init, AllLabels, CallerLabels
<1>2. PlaceInv /\ CountInv
  <2>1. PlaceInv
    BY <1>1, PlaceLabels DEF PlaceInv, Place, Waiting
  <2>2. CountInv
    BY DEF Init, CountInv
  <2> QED
    BY <2>1, <2>2
<1>3. TypeOK
  <2>1. /\ next \in [Threads -> {"idle", "handle", "refresh"}]
        /\ call \in [Callers -> ApiCalls \cup {NoCall}]
        /\ joining \in [Callers -> Refreshers \cup {Nobody}]
        /\ seen \in [Threads -> Statuses]
    BY DEF Init, Statuses
  <2>2. /\ notify \in [Notifiers -> [connected : BOOLEAN, notified : BOOLEAN,
                                     dv : BOOLEAN, polls : 0..PollLimit]]
        /\ pending \in [Refreshers -> 0..MaxEvents]
        /\ calls \in 0..MaxCalls /\ inits \in 0..MaxInits /\ raised \in 0..MaxEvents
    BY Bounds DEF Init, Fresh
  <2>3. /\ initLock = Nobody /\ lock = Nobody /\ drmInitialized = FALSE
        /\ drmRefreshAlive = FALSE /\ drm_refresh_threadId = Nobody
        /\ hdcpStatusCallback = FALSE /\ IsEnabled = FALSE /\ displayOn = TRUE
        /\ plugged \in BOOLEAN /\ hdcp \in Modes /\ unheard = FALSE /\ unanswered = FALSE
        /\ told = "nothing" /\ overtaken = FALSE /\ hasHandle = FALSE /\ badCall = FALSE
    BY DEF Init, Shown
  <2> QED
    BY <1>1, <1>2, <2>1, <2>2, <2>3, PlacesOfKinds DEF TypeOK, AllLabels
<1> QED
  BY <1>2, <1>3 DEF TypeInv

\* CHECK_DRM_INITIALIZE, dsGetVideoPort and the delivery, for any thread.
CommonGoals == CheckLabels \cup {"idle", "loop", "sample", "dv", "refresh"}

LEMMA CommonPlaces ==
    ASSUME TypeInv, NEW t \in Threads, Common(t)
    PROVE  /\ pc[t] \in CheckLabels
           /\ \E l \in Places(t) \cap CommonGoals :
                  /\ Goto(t, l)
                  /\ l \in Waiting => pc[t] \in Waiting
           /\ UNCHANGED <<flags, locks, hdcpStatusCallback, world, port, next, joining,
                         calls, inits>>
           /\ call' = IF t \in Callers /\ pc'[t] = "idle"
                      THEN [call EXCEPT ![t] = NoCall] ELSE call
<1>1. pc \in [Threads -> AllLabels] /\ CheckLabels \subseteq Places(t)
      /\ "idle" \in Places(t) /\ Place(t)
  BY PlaceLabels DEF TypeInv, TypeOK, AllLabels, PlaceInv
<1>2. AfterDelivery(t) \in Places(t) /\ AfterDelivery(t) \in {"idle", "loop", "dv"}
      /\ (AfterDelivery(t) = "idle" <=> t \in Callers)
  BY DEF AfterDelivery, Places, CallerLabels, RefreshLabels, NotifyLabels
<1>3. WithoutHandle(t) \in Places(t) /\ WithoutHandle(t) \in {"idle", "loop"}
  <2>1. CASE t \in Refreshers
    BY <2>1, Kinds DEF WithoutHandle, Places, RefreshLabels
  <2>2. CASE t \notin Refreshers
    BY <1>1, <2>2 DEF WithoutHandle
  <2> QED
    BY <2>1, <2>2
<1>4. Nexts(t) \subseteq Places(t) \cap {"handle", "refresh"}
  BY DEF Nexts, Places, CallerLabels, RefreshLabels, NotifyLabels, CheckLabels
<1>5. /\ "wait" \in Places(t) /\ "asleep" \in Places(t) /\ "status" \in Places(t)
      /\ "tell" \in Places(t) /\ "invoke" \in Places(t)
  BY <1>1 DEF CheckLabels
<1> USE DEF At, Goto, Leave
<1>7. CASE CheckFlag(t) \/ CheckLock(t) \/ CheckWake(t)
  <2>1. /\ pc[t] \in Waiting
        /\ UNCHANGED <<flags, locks, hdcpStatusCallback, client, world, port, local>>
        /\ \E l \in Nexts(t) \cup {"wait", "asleep"} : Goto(t, l)
    BY <1>1, <1>7 DEF CheckFlag, CheckLock, CheckWake, Place, Waiting
  <2>2. PICK l \in Nexts(t) \cup {"wait", "asleep"} : Goto(t, l)
    BY <2>1
  <2>3. pc'[t] = l /\ l \in Places(t) /\ l # "idle" /\ l \in CommonGoals
    BY <1>1, <1>4, <1>5, <2>2 DEF CommonGoals, CheckLabels
  <2> QED
    BY <2>1, <2>2, <2>3 DEF local, client, CheckLabels, CommonGoals, Waiting
<1>8. CASE GetHandle(t)
  <2>1. PICK l \in {"idle", "loop", "sample", "status"} \cap Places(t) :
              Goto(t, l) /\ call' = IF t \in Callers /\ l = "idle"
                                    THEN [call EXCEPT ![t] = NoCall] ELSE call
    <3>1. t \in Notifiers => "sample" \in Places(t)
      BY Kinds DEF Places, NotifyLabels
    <3>2. CASE ~drmInitialized /\ Leave(t, WithoutHandle(t))
      BY <1>3, <3>2, Kinds DEF WithoutHandle
    <3>3. CASE t \in Callers /\ Leave(t, "idle")
      BY <1>1, <3>3
    <3>4. CASE /\ Goto(t, IF t \in Notifiers THEN "sample" ELSE "status")
               /\ UNCHANGED call
      <4> DEFINE l == IF t \in Notifiers THEN "sample" ELSE "status"
      <4>1. l \in {"idle", "loop", "sample", "status"} \cap Places(t) /\ l # "idle"
        BY <1>5, <3>1
      <4> HIDE DEF l
      <4> QED
        BY <3>4, <4>1 DEF l
    <3> QED
      BY <1>8, <3>2, <3>3, <3>4 DEF GetHandle
  <2>2. pc[t] = "handle" /\ pc'[t] = l
        /\ UNCHANGED <<flags, locks, hdcpStatusCallback, world, port, next, joining,
                      calls, inits>>
    BY <1>1, <1>8, <2>1 DEF GetHandle
  <2> QED
    BY <2>1, <2>2 DEF CheckLabels, CommonGoals, Waiting
<1>9. CASE ReadStatus(t)
  <2>1. PICK l \in {"tell", "dv"} \cap Places(t) : Goto(t, l)
    <3>1. t \in Notifiers => "dv" \in Places(t)
      BY Kinds DEF Places, NotifyLabels
    <3> QED
      BY <1>5, <1>9, <3>1 DEF ReadStatus
  <2>2. pc[t] = "status" /\ pc'[t] = l /\ UNCHANGED call
        /\ UNCHANGED <<flags, locks, hdcpStatusCallback, world, port, next, joining,
                      calls, inits>>
    BY <1>1, <1>9, <2>1 DEF ReadStatus, client
  <2> QED
    BY <2>1, <2>2 DEF CheckLabels, CommonGoals, Waiting
<1>10. CASE TestCallback(t) \/ Invoke(t)
  <2>1. PICK l \in {"invoke", AfterDelivery(t)} :
              Goto(t, l) /\ call' = IF t \in Callers /\ l = "idle"
                                    THEN [call EXCEPT ![t] = NoCall] ELSE call
    BY <1>2, <1>10 DEF TestCallback, Invoke
  <2>2. pc[t] \in {"tell", "invoke"} /\ pc'[t] = l
        /\ UNCHANGED <<flags, locks, hdcpStatusCallback, world, port, next, joining,
                      calls, inits>>
    BY <1>1, <1>10, <2>1 DEF TestCallback, Invoke, client
  <2> QED
    BY <1>2, <1>5, <2>1, <2>2 DEF CheckLabels, CommonGoals, Waiting
<1> QED
  BY <1>7, <1>8, <1>9, <1>10 DEF Common

(* The type invariant, one group of variables at a time. *)
FlagTypes ==
    /\ initLock \in Callers \cup {Nobody} /\ lock \in Refreshers \cup {Nobody}
    /\ drmInitialized \in BOOLEAN /\ drmRefreshAlive \in BOOLEAN
    /\ drm_refresh_threadId \in Refreshers \cup {Nobody}
    /\ hdcpStatusCallback \in BOOLEAN /\ IsEnabled \in BOOLEAN
    /\ displayOn \in BOOLEAN /\ unanswered \in BOOLEAN

LocalTypes ==
    /\ next \in [Threads -> {"idle", "handle", "refresh"}]
    /\ call \in [Callers -> ApiCalls \cup {NoCall}]
    /\ joining \in [Callers -> Refreshers \cup {Nobody}]
    /\ seen \in [Threads -> Statuses]

NotifyTypes ==
    notify \in [Notifiers -> [connected : BOOLEAN, notified : BOOLEAN,
                              dv : BOOLEAN, polls : 0..PollLimit]]

WorldTypes ==
    /\ pending \in [Refreshers -> 0..MaxEvents] /\ CountInv
    /\ plugged \in BOOLEAN /\ hdcp \in Modes /\ unheard \in BOOLEAN
    /\ raised \in 0..MaxEvents

ClientTypes ==
    /\ told \in Statuses \cup {"nothing"} /\ overtaken \in BOOLEAN
    /\ hasHandle \in BOOLEAN /\ badCall \in BOOLEAN
    /\ calls \in 0..MaxCalls /\ inits \in 0..MaxInits

PlaceTypes == pc \in [Threads -> AllLabels] /\ PlaceInv

LEMMA Parts ==
    TypeInv <=> /\ PlaceTypes /\ FlagTypes /\ LocalTypes /\ NotifyTypes
                /\ WorldTypes /\ ClientTypes
<1>1. ASSUME TypeInv
      PROVE  PlaceTypes /\ FlagTypes /\ LocalTypes /\ NotifyTypes /\ WorldTypes /\ ClientTypes
  BY <1>1 DEF TypeInv, TypeOK, PlaceTypes, AllLabels, FlagTypes, LocalTypes,
              NotifyTypes, WorldTypes, ClientTypes
<1>2. ASSUME PlaceTypes, FlagTypes, LocalTypes, NotifyTypes, WorldTypes, ClientTypes
      PROVE  TypeInv
  BY <1>2, PlacesOfKinds DEF TypeInv, TypeOK, PlaceTypes, AllLabels, FlagTypes,
              LocalTypes, NotifyTypes, WorldTypes, ClientTypes
<1> QED
  BY <1>1, <1>2

\* A function updated at two places.
LEMMA TwoPlaces ==
    ASSUME NEW S, NEW R, NEW f \in [S -> R], NEW a \in S, NEW b \in S, a # b,
           NEW x \in R, NEW y \in R, NEW g, g = [f EXCEPT ![a] = x, ![b] = y]
    PROVE  /\ g \in [S -> R] /\ g[a] = x /\ g[b] = y
           /\ \A o \in S : o # a /\ o # b => g[o] = f[o]
<1> DEFINE h == [f EXCEPT ![a] = x]
<1>1. h \in [S -> R] /\ h[a] = x /\ \A o \in S : o # a => h[o] = f[o]
  OBVIOUS
<1>2. g = [h EXCEPT ![b] = y]
  OBVIOUS
<1> HIDE DEF h
<1> QED
  BY <1>1, <1>2

LEMMA PartsAfter ==
    ASSUME PlaceTypes', FlagTypes', LocalTypes', NotifyTypes', WorldTypes', ClientTypes'
    PROVE  TypeInv'
BY Parts, PTL

LEMMA CommonTypes ==
    ASSUME TypeInv, NEW t \in Threads, Common(t)
    PROVE  TypeInv'
<1>1. PlaceTypes /\ FlagTypes /\ LocalTypes /\ NotifyTypes /\ WorldTypes /\ ClientTypes
  BY Parts
<1>2. /\ UNCHANGED <<flags, locks, hdcpStatusCallback, world, port, next, joining,
                    calls, inits>>
      /\ call' = IF t \in Callers /\ pc'[t] = "idle"
                 THEN [call EXCEPT ![t] = NoCall] ELSE call
  BY CommonPlaces
<1>3. PlaceTypes'
  <2>1. PICK l \in Places(t) \cap CommonGoals :
                /\ Goto(t, l) /\ l # "joining"
                /\ l \in Waiting => pc[t] \in Waiting
    BY CommonPlaces DEF CommonGoals, CheckLabels
  <2>2. next' = next /\ joining' = joining /\ Place(t)
    BY <1>2 DEF TypeInv, PlaceInv
  <2>3. l \in Waiting => next'[t] \in Nexts(t)
    BY <2>1, <2>2 DEF Place
  <2>4. pc' \in [Threads -> AllLabels] /\ PlaceInv'
    BY <2>1, <2>2, <2>3, Moves
  <2> QED
    BY <2>4 DEF PlaceTypes
<1>4. FlagTypes' /\ WorldTypes'
  BY <1>1, <1>2 DEF FlagTypes, WorldTypes, CountInv, flags, locks, world, port
<1>5. seen' \in [Threads -> Statuses]
      /\ told' \in Statuses \cup {"nothing"} /\ overtaken' \in BOOLEAN
      /\ hasHandle' \in BOOLEAN /\ badCall' \in BOOLEAN
  BY <1>1 DEF Common, CheckFlag, CheckLock, CheckWake, GetHandle, ReadStatus, TestCallback,
     Invoke, local, client, FlagTypes, WorldTypes, LocalTypes, ClientTypes, Status, Statuses
<1>6. LocalTypes' /\ ClientTypes'
  BY <1>1, <1>2, <1>5 DEF LocalTypes, ClientTypes
<1>7. NotifyTypes'
  BY <1>1 DEF Common, CheckFlag, CheckLock, CheckWake, GetHandle, ReadStatus, TestCallback,
     Invoke, local, NotifyTypes
<1> QED
  BY <1>3, <1>4, <1>6, <1>7, PartsAfter

LEMMA CallTypes ==
    ASSUME TypeInv, NEW t \in Callers, NEW c \in Calls, Call(t, c)
    PROVE  TypeInv'
<1>1. PlaceTypes /\ FlagTypes /\ LocalTypes /\ NotifyTypes /\ WorldTypes /\ ClientTypes
  BY Parts
<1>2. t \in Threads /\ t \notin Refreshers /\ c \in ApiCalls
  BY Kinds, ClientCalls
<1>3. /\ UNCHANGED <<flags, locks, hdcpStatusCallback, overtaken, hasHandle, badCall,
                    world, port, joining, seen, notify>>
      /\ call' = [call EXCEPT ![t] = c] /\ calls < MaxCalls /\ calls' = calls + 1
      /\ told' = (IF c.op = "init" THEN "nothing" ELSE told)
      /\ (c.op = "init" => inits < MaxInits)
      /\ inits' = (IF c.op = "init" THEN inits + 1 ELSE inits)
      /\ IF c.op = "get" THEN CheckThen(t, "handle")
                         ELSE Goto(t, "entered") /\ UNCHANGED next
  BY DEF Call
<1>4. next' \in [Threads -> {"idle", "handle", "refresh"}]
      /\ \A o \in Threads : o # t => next'[o] = next[o]
  BY <1>1, <1>3 DEF CheckThen, LocalTypes
<1>5. PICK l \in {"check", "entered"} :
             Goto(t, l) /\ (l = "check" => next' = [next EXCEPT ![t] = "handle"])
  BY <1>3 DEF CheckThen
<1>6. PlaceTypes'
  <2>1. l \in Places(t) /\ "handle" \in Nexts(t)
    BY <1>2 DEF Places, CallerLabels, CheckLabels, Nexts
  <2>2. joining' = joining /\ (l \in Waiting => next'[t] \in Nexts(t))
    BY <1>1, <1>2, <1>3, <1>5, <2>1 DEF Waiting, LocalTypes
  <2>3. pc' \in [Threads -> AllLabels] /\ PlaceInv'
    BY <1>2, <1>4, <1>5, <2>1, <2>2, Moves
  <2> QED
    BY <2>3 DEF PlaceTypes
<1>7. FlagTypes' /\ WorldTypes' /\ NotifyTypes'
  BY <1>1, <1>3 DEF FlagTypes, WorldTypes, CountInv, NotifyTypes, flags, locks, world, port
<1>8. LocalTypes'
  BY <1>1, <1>2, <1>3, <1>4 DEF LocalTypes
<1>9. ClientTypes'
  <2>1. calls' \in 0..MaxCalls /\ inits' \in 0..MaxInits
    BY <1>1, <1>3, Bounds DEF ClientTypes
  <2> QED
    BY <1>1, <1>3, <2>1 DEF ClientTypes
<1> QED
  BY <1>6, <1>7, <1>8, <1>9, PartsAfter

\* The steps of a caller that move no other thread.
OwnStep(t) ==
    \/ Register(t) \/ EnableDisplay(t) \/ EnableFlag(t)
    \/ InitEnter(t) \/ InitLock(t) \/ InitPublish(t)
    \/ TermEnter(t) \/ TermClear(t) \/ TermJoin(t)

LEMMA OwnTypes ==
    ASSUME TypeInv, NEW t \in Callers, OwnStep(t)
    PROVE  TypeInv'
<1>1. PlaceTypes /\ FlagTypes /\ LocalTypes /\ NotifyTypes /\ WorldTypes /\ ClientTypes
  BY Parts
<1>2. t \in Threads /\ t \notin Refreshers /\ t \notin Notifiers
  BY Kinds
<1>3. /\ UNCHANGED <<client, world, seen, notify, lock>>
      /\ initLock' \in {initLock, t, Nobody}
      /\ drm_refresh_threadId' = drm_refresh_threadId
      /\ drmInitialized' \in {drmInitialized, TRUE, FALSE}
      /\ drmRefreshAlive' \in {drmRefreshAlive, FALSE}
      /\ hdcpStatusCallback' \in {hdcpStatusCallback, call[t].arg}
      /\ IsEnabled' \in {IsEnabled, TRUE, call[t].arg}
      /\ displayOn' \in {displayOn, call[t].arg}
      /\ unanswered' \in {unanswered, TRUE, FALSE}
  BY DEF OwnStep, Register, EnableDisplay, EnableFlag, InitEnter, InitLock, InitPublish,
     TermEnter, TermClear, TermJoin, flags, locks, client, world, port, local
<1>4. call' \in {call, [call EXCEPT ![t] = NoCall]}
  BY DEF OwnStep, Register, EnableDisplay, EnableFlag, InitEnter, InitLock, InitPublish,
     TermEnter, TermClear, TermJoin, Return, local
<1>5. call[t].arg \in BOOLEAN
  <2>1. call[t] \in ApiCalls \cup {NoCall}
    BY <1>1 DEF LocalTypes
  <2>2. \A c \in ApiCalls : c.arg \in BOOLEAN
    BY DEF ApiCalls
  <2>3. NoCall.arg \in BOOLEAN
    BY DEF NoCall
  <2> QED
    BY <2>1, <2>2, <2>3
<1>6. next' \in {next, [next EXCEPT ![t] = "handle"]}
      /\ joining' \in {joining, [joining EXCEPT ![t] = drm_refresh_threadId]}
  BY DEF OwnStep, Register, EnableDisplay, EnableFlag, InitEnter, InitLock, InitPublish,
     TermEnter, TermClear, TermJoin, CheckThen, local
<1>7. FlagTypes'
  <2>1. /\ initLock' \in Callers \cup {Nobody} /\ lock' \in Refreshers \cup {Nobody}
        /\ drm_refresh_threadId' \in Refreshers \cup {Nobody}
    BY <1>1, <1>3 DEF FlagTypes
  <2>2. /\ drmInitialized' \in BOOLEAN /\ drmRefreshAlive' \in BOOLEAN
        /\ hdcpStatusCallback' \in BOOLEAN /\ IsEnabled' \in BOOLEAN
        /\ displayOn' \in BOOLEAN /\ unanswered' \in BOOLEAN
    BY <1>1, <1>3, <1>5 DEF FlagTypes
  <2> QED
    BY <2>1, <2>2 DEF FlagTypes
<1>8. LocalTypes'
  BY <1>1, <1>3, <1>4, <1>6 DEF LocalTypes, FlagTypes
<1>9. NotifyTypes' /\ WorldTypes' /\ ClientTypes'
  BY <1>1, <1>3 DEF NotifyTypes, WorldTypes, CountInv, ClientTypes, world, client
<1>10. PICK l \in {"check", "enabled", "idle", "initLock", "create", "termClear", "join",
                   "joining"} :
              /\ Goto(t, l)
              /\ l = "check" => next' = [next EXCEPT ![t] = "handle"]
              /\ l = "joining" => /\ joining' = [joining EXCEPT ![t] = drm_refresh_threadId]
                                  /\ drm_refresh_threadId # Nobody
  BY DEF OwnStep, Register, EnableDisplay, EnableFlag, InitEnter, InitLock, InitPublish,
     TermEnter, TermClear, TermJoin, CheckThen, Return
<1>11. PlaceTypes'
  <2>1. l \in Places(t) /\ "handle" \in Nexts(t)
    BY <1>2 DEF Places, CallerLabels, CheckLabels, Nexts
  <2>2. /\ \A o \in Threads : o # t => next'[o] = next[o]
        /\ \A o \in Callers : o # t => joining'[o] = joining[o]
    BY <1>1, <1>6 DEF LocalTypes
  <2>3. l \in Waiting => next'[t] \in Nexts(t)
    BY <1>1, <1>2, <1>10, <2>1 DEF Waiting, LocalTypes
  <2>4. l = "joining" => joining'[t] \in Refreshers
    BY <1>1, <1>10 DEF LocalTypes, FlagTypes
  <2>5. pc' \in [Threads -> AllLabels] /\ PlaceInv'
    BY <1>2, <1>10, <2>1, <2>2, <2>3, <2>4, Moves
  <2> QED
    BY <2>5 DEF PlaceTypes
<1> QED
  BY <1>7, <1>8, <1>9, <1>11, PartsAfter

\* The caller moves, and one other thread with it.
LEMMA MovesTwo ==
    ASSUME PlaceTypes, NEW t \in Threads, NEW u \in Threads, t # u,
           NEW l \in Places(t), NEW m \in Places(u),
           pc' = [pc EXCEPT ![u] = m, ![t] = l],
           l \notin Waiting /\ l # "joining" /\ m # "joining",
           m \in Waiting => next'[u] \in Nexts(u),
           \A o \in Threads : o # u => next'[o] = next[o],
           \A o \in Callers : o # t => joining'[o] = joining[o]
    PROVE  PlaceTypes'
<1>1. l \in AllLabels /\ m \in AllLabels
  BY PlaceLabels
<1>2. /\ pc' \in [Threads -> AllLabels] /\ pc'[u] = m /\ pc'[t] = l
      /\ \A o \in Threads : o # u /\ o # t => pc'[o] = pc[o]
  BY <1>1, TwoPlaces DEF PlaceTypes
<1>3. Place(t)' /\ Place(u)'
  BY <1>2 DEF Place, Places, Nexts
<1>4. \A o \in Threads : o # u /\ o # t => Place(o)'
  BY <1>2 DEF PlaceTypes, PlaceInv, Place, Places, Nexts
<1> QED
  BY <1>2, <1>3, <1>4 DEF PlaceTypes, PlaceInv

LEMMA CreateTypes ==
    ASSUME TypeInv, NEW t \in Callers, InitCreate(t)
    PROVE  TypeInv'
<1>1. PlaceTypes /\ FlagTypes /\ LocalTypes /\ NotifyTypes /\ WorldTypes /\ ClientTypes
  BY Parts
<1>2. t \in Threads /\ t \notin Refreshers /\ t \notin Notifiers
      /\ "notify" \in Places(t)
  BY Kinds DEF Places, CallerLabels
<1>3. UNCHANGED <<drmInitialized, locks, hdcpStatusCallback, client, world, port, local>>
      /\ drmRefreshAlive' = TRUE
  BY DEF InitCreate
<1>4. LocalTypes' /\ NotifyTypes' /\ WorldTypes' /\ ClientTypes'
  BY <1>1, <1>3 DEF LocalTypes, NotifyTypes, WorldTypes, CountInv, ClientTypes, local,
     world, client
<1>5. next' = next /\ joining' = joining
  BY <1>3 DEF local
<1>6. PlaceTypes' /\ drm_refresh_threadId' \in Refreshers \cup {Nobody}
  <2>1. ASSUME NEW r \in Refreshers, drm_refresh_threadId' = r,
               pc' = [pc EXCEPT ![r] = "created", ![t] = "notify"]
        PROVE  PlaceTypes' /\ drm_refresh_threadId' \in Refreshers
    <3>1. r \in Threads /\ r # t /\ "created" \in Places(r)
      BY <1>2, Kinds DEF Places, RefreshLabels
    <3>2. PlaceTypes'
      BY ONLY <1>1, <1>2, <1>5, <2>1, <3>1, MovesTwo, t \in Callers,
              "notify" \notin Waiting DEF Waiting
    <3> QED
      BY <2>1, <3>2
  <2>2. ASSUME drm_refresh_threadId' = Nobody, Goto(t, "notify")
        PROVE  PlaceTypes' /\ drm_refresh_threadId' = Nobody
    <3>1. pc' \in [Threads -> AllLabels] /\ PlaceInv'
      BY <1>2, <1>5, <2>2, Moves DEF Waiting
    <3> QED
      BY <2>2, <3>1 DEF PlaceTypes
  <2> QED
    BY <2>1, <2>2 DEF InitCreate
<1>7. FlagTypes'
  BY <1>1, <1>3, <1>6 DEF FlagTypes, locks, port
<1> QED
  BY <1>4, <1>6, <1>7, PartsAfter

LEMMA InitNotifyTypes ==
    ASSUME TypeInv, NEW t \in Callers, InitNotify(t)
    PROVE  TypeInv'
<1>1. PlaceTypes /\ FlagTypes /\ LocalTypes /\ NotifyTypes /\ WorldTypes /\ ClientTypes
  BY Parts
<1>2. t \in Threads /\ t \notin Refreshers /\ t \notin Notifiers
      /\ "publish" \in Places(t)
  BY Kinds DEF Places, CallerLabels
<1>3. UNCHANGED <<flags, locks, hdcpStatusCallback, client, world, port,
                 call, joining, seen>>
  BY DEF InitNotify
<1>4. FlagTypes' /\ WorldTypes' /\ ClientTypes'
  BY <1>1, <1>3 DEF FlagTypes, WorldTypes, CountInv, ClientTypes, flags, locks, port,
     world, client
<1>5. PlaceTypes' /\ NotifyTypes' /\ next' \in [Threads -> {"idle", "handle", "refresh"}]
  <2>1. ASSUME NEW n \in Notifiers, next' = [next EXCEPT ![n] = "handle"],
               notify' = [notify EXCEPT ![n] = Fresh],
               pc' = [pc EXCEPT ![n] = "check", ![t] = "publish"]
        PROVE  /\ PlaceTypes' /\ NotifyTypes'
               /\ next' \in [Threads -> {"idle", "handle", "refresh"}]
    <3>1. n \in Threads /\ n # t /\ "check" \in Places(n) /\ "handle" \in Nexts(n)
      BY <1>2, Kinds DEF Places, NotifyLabels, CheckLabels, Nexts
    <3>2. next' \in [Threads -> {"idle", "handle", "refresh"}]
          /\ next'[n] \in Nexts(n) /\ \A o \in Threads : o # n => next'[o] = next[o]
      BY <1>1, <2>1, <3>1 DEF LocalTypes
    <3>3. "publish" \notin Waiting /\ \A o \in Callers : o # t => joining'[o] = joining[o]
      BY <1>3 DEF Waiting
    <3>4. PlaceTypes'
      BY ONLY <1>1, <1>2, <2>1, <3>1, <3>2, <3>3, MovesTwo
    <3>5. Fresh \in [connected : BOOLEAN, notified : BOOLEAN, dv : BOOLEAN,
                     polls : 0..PollLimit]
      BY Bounds DEF Fresh
    <3>6. NotifyTypes'
      BY <1>1, <2>1, <3>5 DEF NotifyTypes
    <3> QED
      BY <3>2, <3>4, <3>6
  <2>2. ASSUME Goto(t, "publish"), UNCHANGED <<next, notify>>
        PROVE  /\ PlaceTypes' /\ NotifyTypes'
               /\ next' \in [Threads -> {"idle", "handle", "refresh"}]
    <3>1. pc' \in [Threads -> AllLabels] /\ PlaceInv'
      BY <1>2, <1>3, <2>2, Moves DEF Waiting
    <3> QED
      BY <1>1, <2>2, <3>1 DEF PlaceTypes, NotifyTypes, LocalTypes
  <2> QED
    BY <2>1, <2>2 DEF InitNotify
<1>6. LocalTypes'
  BY <1>1, <1>3, <1>5 DEF LocalTypes
<1> QED
  BY <1>4, <1>5, <1>6, PartsAfter

LEMMA JoinedTypes ==
    ASSUME TypeInv, NEW t \in Callers, TermJoined(t)
    PROVE  TypeInv'
<1>1. PlaceTypes /\ FlagTypes /\ LocalTypes /\ NotifyTypes /\ WorldTypes /\ ClientTypes
  BY Parts
<1>2. t \in Threads /\ t \notin Refreshers /\ "idle" \in Places(t)
  BY Kinds, PlaceLabels
<1>3. joining[t] \in Refreshers
  BY <1>1, <1>2 DEF PlaceTypes, PlaceInv, Place, TermJoined, At
<1>4. joining[t] \in Threads /\ joining[t] # t /\ "idle" \in Places(joining[t])
  BY <1>3, Kinds, PlaceLabels
<1>5. /\ UNCHANGED <<flags, locks, hdcpStatusCallback, client, world, port, next, seen,
                    notify>>
      /\ pc' = [pc EXCEPT ![joining[t]] = "idle", ![t] = "idle"]
      /\ call' = [call EXCEPT ![t] = NoCall]
      /\ joining' = [joining EXCEPT ![t] = Nobody]
  BY DEF TermJoined
<1>6. /\ \A o \in Threads : o # joining[t] => next'[o] = next[o]
      /\ \A o \in Callers : o # t => joining'[o] = joining[o]
  BY <1>1, <1>5 DEF LocalTypes
<1>7. PlaceTypes'
  <2>1. "idle" \notin Waiting /\ "idle" # "joining"
    BY DEF Waiting
  <2> QED
    BY ONLY <1>1, <1>2, <1>4, <1>5, <1>6, <2>1, MovesTwo
<1>8. FlagTypes' /\ NotifyTypes' /\ WorldTypes' /\ ClientTypes'
  BY <1>1, <1>5 DEF FlagTypes, NotifyTypes, WorldTypes, CountInv, ClientTypes, flags,
     locks, port, world, client
<1>9. LocalTypes'
  BY <1>1, <1>5 DEF LocalTypes
<1> QED
  BY <1>7, <1>8, <1>9, PartsAfter

\* The refresh thread.
LEMMA RefreshTypes ==
    ASSUME TypeInv, NEW r \in Refreshers,
           \/ RefreshBegin(r) \/ RefreshLoop(r) \/ RefreshSelect(r)
           \/ RefreshConnector(r) \/ RefreshDone(r)
    PROVE  TypeInv'
<1>1. PlaceTypes /\ FlagTypes /\ LocalTypes /\ NotifyTypes /\ WorldTypes /\ ClientTypes
  BY Parts
<1>2. r \in Threads /\ r \notin Callers /\ r \notin Notifiers
  BY Kinds
<1>3. /\ UNCHANGED <<flags, initLock, hdcpStatusCallback, client, plugged, hdcp, unheard,
                    raised, port, call, joining, seen, notify>>
      /\ lock' \in {lock, r, Nobody}
  BY DEF RefreshBegin, RefreshLoop, RefreshSelect, RefreshConnector, RefreshDone, locks,
     world, local
<1>4. pending' = pending \/ pending' = [pending EXCEPT ![r] = 0]
      \/ (pending[r] > 0 /\ pending' = [pending EXCEPT ![r] = @ - 1])
  BY DEF RefreshBegin, RefreshLoop, RefreshSelect, RefreshConnector, RefreshDone, world
<1>5. WorldTypes'
  <2>1. /\ pending \in [Refreshers -> 0..MaxEvents] /\ raised \in 0..MaxEvents
        /\ \A x \in Refreshers : pending[x] <= raised
    BY <1>1 DEF WorldTypes, CountInv
  <2>2. pending' \in [Refreshers -> 0..MaxEvents]
        /\ \A x \in Refreshers : pending'[x] <= raised
    <3>1. CASE pending' = pending
      BY <2>1, <3>1
    <3>2. CASE pending' = [pending EXCEPT ![r] = 0]
      BY <2>1, <3>2, Bounds
    <3>3. CASE pending[r] > 0 /\ pending' = [pending EXCEPT ![r] = @ - 1]
      <4>1. pending[r] \in 0..MaxEvents /\ pending[r] <= raised
        BY <2>1
      <4>2. pending[r] - 1 \in 0..MaxEvents /\ pending[r] - 1 <= raised
        BY <2>1, <3>3, <4>1, Bounds
      <4> QED
        BY <2>1, <3>3, <4>2
    <3> QED
      BY <1>4, <3>1, <3>2, <3>3
  <2> QED
    BY <1>1, <1>3, <2>2 DEF WorldTypes, CountInv
<1>6. PICK l \in {"loop", "exited", "select", "check", "refreshed"} :
             /\ Goto(r, l)
             /\ IF l = "check" THEN \E m \in {"handle", "refresh"} :
                                      next' = [next EXCEPT ![r] = m]
                ELSE next' = next
  BY DEF RefreshBegin, RefreshLoop, RefreshSelect, RefreshConnector, RefreshDone, CheckThen,
     local
<1>7. /\ next' \in [Threads -> {"idle", "handle", "refresh"}]
      /\ \A o \in Threads : o # r => next'[o] = next[o]
      /\ l \in Waiting => next'[r] \in Nexts(r)
  BY <1>1, <1>2, <1>6 DEF LocalTypes, Waiting, Nexts
<1>8. PlaceTypes'
  <2>1. l \in Places(r) /\ l # "joining" /\ \A o \in Callers : o # r => joining'[o] = joining[o]
    BY <1>2, <1>3 DEF Places, RefreshLabels, CheckLabels
  <2>2. pc' \in [Threads -> AllLabels] /\ PlaceInv'
    BY <1>2, <1>6, <1>7, <2>1, Moves
  <2> QED
    BY <2>2 DEF PlaceTypes
<1>9. FlagTypes' /\ LocalTypes' /\ NotifyTypes' /\ ClientTypes'
  BY <1>1, <1>3, <1>7 DEF FlagTypes, LocalTypes, NotifyTypes, ClientTypes, flags, port, client
<1> QED
  BY <1>5, <1>8, <1>9, PartsAfter

\* The polling thread.
LEMMA NotifierTypes ==
    ASSUME TypeInv, NEW n \in Notifiers,
           NotifySample(n) \/ NotifyPoll(n) \/ NotifyRound(n)
    PROVE  TypeInv'
<1>1. PlaceTypes /\ FlagTypes /\ LocalTypes /\ NotifyTypes /\ WorldTypes /\ ClientTypes
  BY Parts
<1>2. n \in Threads /\ n \notin Callers /\ n \notin Refreshers
  BY Kinds
<1>3. UNCHANGED <<flags, locks, hdcpStatusCallback, client, world, port, next, call,
                 joining, seen>>
  BY DEF NotifySample, NotifyPoll, NotifyRound, local
<1>4. PICK l \in {"poll", "status", "dv", "idle"} : Goto(n, l)
  BY DEF NotifySample, NotifyPoll, NotifyRound
<1>5. PlaceTypes'
  <2>1. l \in Places(n) /\ l \notin Waiting
    BY <1>2 DEF Places, NotifyLabels, CheckLabels, Waiting
  <2>2. pc' \in [Threads -> AllLabels] /\ PlaceInv'
    BY <1>2, <1>3, <1>4, <2>1, Moves
  <2> QED
    BY <2>2 DEF PlaceTypes
<1>6. NotifyTypes'
  <2> DEFINE Record == [connected : BOOLEAN, notified : BOOLEAN, dv : BOOLEAN,
                        polls : 0..PollLimit]
  <2>1. notify \in [Notifiers -> Record] /\ notify[n] \in Record /\ plugged \in BOOLEAN
    BY <1>1 DEF NotifyTypes, WorldTypes
  <2>2. PICK w \in Record : notify' = [notify EXCEPT ![n] = w] \/ notify' = notify
    <3>1. CASE NotifySample(n)
      <4>1. [notify[n] EXCEPT !.connected = plugged] \in Record
        BY <2>1
      <4> QED
        BY <3>1, <4>1 DEF NotifySample
    <3>2. CASE NotifyPoll(n)
      BY <2>1, <3>2 DEF NotifyPoll, local
    <3>3. CASE NotifyRound(n)
      <4>1. PICK ok \in BOOLEAN :
              LET v == [notify[n] EXCEPT !.dv = @ \/ ok, !.polls = @ + 1]
                  over == (v.dv /\ v.notified) \/ v.polls >= PollLimit
              IN notify' = [notify EXCEPT ![n] = IF over THEN Fresh ELSE v]
        BY <3>3 DEF NotifyRound
      <4> DEFINE v == [notify[n] EXCEPT !.dv = @ \/ ok, !.polls = @ + 1]
      <4>2. Fresh \in Record
        BY Bounds DEF Fresh
      <4>3. v.polls < PollLimit => v \in Record
        <5>1. ASSUME NEW w \in Record, NEW b \in BOOLEAN, NEW k \in 0..PollLimit
              PROVE  [w EXCEPT !.dv = b, !.polls = k] \in Record
          OBVIOUS
        <5>2. (notify[n].dv \/ ok) \in BOOLEAN
          OBVIOUS
        <5>3. v.polls = notify[n].polls + 1
          BY <2>1
        <5>4. v.polls < PollLimit => notify[n].polls + 1 \in 0..PollLimit
          BY <2>1, <5>3, Bounds
        <5> QED
          BY <2>1, <5>1, <5>2, <5>4
      <4>4. v.polls = notify[n].polls + 1 /\ notify[n].polls \in Nat
        BY <2>1, Bounds
      <4>5. ~(v.polls >= PollLimit) => v.polls < PollLimit
        BY <4>4, Bounds
      <4>6. notify' = [notify EXCEPT ![n] = Fresh]
            \/ (~(v.polls >= PollLimit) /\ notify' = [notify EXCEPT ![n] = v])
        BY <4>1
      <4> QED
        BY <4>2, <4>3, <4>5, <4>6
    <3> QED
      BY <3>1, <3>2, <3>3
  <2> QED
    BY <2>1, <2>2 DEF NotifyTypes
<1>7. FlagTypes' /\ LocalTypes' /\ WorldTypes' /\ ClientTypes'
  BY <1>1, <1>3 DEF FlagTypes, LocalTypes, WorldTypes, CountInv, ClientTypes, flags, locks,
     port, world, client
<1> QED
  BY <1>5, <1>6, <1>7, PartsAfter

\* The cable moves, HDCP authenticates.
LEMMA CableTypes ==
    ASSUME TypeInv, WorldStep
    PROVE  TypeInv'
<1>1. PlaceTypes /\ FlagTypes /\ LocalTypes /\ NotifyTypes /\ WorldTypes /\ ClientTypes
  BY Parts
<1>2. /\ UNCHANGED <<flags, locks, hdcpStatusCallback, client, port, pc, local>>
      /\ plugged' \in BOOLEAN /\ hdcp' \in Modes /\ unheard' \in BOOLEAN
  BY <1>1 DEF WorldStep, MoveCable, Negotiate, WorldTypes, Shown
<1>3. Raise \/ UNCHANGED <<raised, pending>>
  BY DEF WorldStep, MoveCable, Negotiate
<1>4. pending' \in [Refreshers -> 0..MaxEvents] /\ raised' \in 0..MaxEvents
      /\ \A x \in Refreshers : pending'[x] <= raised'
  <2>1. /\ pending \in [Refreshers -> 0..MaxEvents] /\ raised \in 0..MaxEvents
        /\ \A x \in Refreshers : pending[x] <= raised
    BY <1>1 DEF WorldTypes, CountInv
  <2>2. CASE Raise
    <3>1. raised < MaxEvents /\ raised' = raised + 1
          /\ pending' = [x \in Refreshers |->
                           IF Listening(x) THEN pending[x] + 1 ELSE pending[x]]
      BY <2>2 DEF Raise
    <3>2. raised' \in 0..MaxEvents
      BY <2>1, <3>1, Bounds
    <3>3. ASSUME NEW x \in Refreshers
          PROVE  pending'[x] \in 0..MaxEvents /\ pending'[x] <= raised'
      <4>1. pending[x] \in 0..MaxEvents /\ pending[x] <= raised
        BY <2>1
      <4>2. pending'[x] = pending[x] + 1 \/ pending'[x] = pending[x]
        BY <3>1
      <4> QED
        BY <2>1, <3>1, <4>1, <4>2, Bounds
    <3> HIDE DEF Raise
    <3> QED
      BY <3>1, <3>2, <3>3
  <2>3. CASE UNCHANGED <<raised, pending>>
    BY <2>1, <2>3
  <2> QED
    BY <1>3, <2>2, <2>3
<1>5. PlaceTypes' /\ FlagTypes' /\ LocalTypes' /\ NotifyTypes' /\ ClientTypes'
  BY <1>1, <1>2 DEF PlaceTypes, PlaceInv, Place, Places, Nexts, FlagTypes, LocalTypes,
     NotifyTypes, ClientTypes, flags, locks, port, client, local
<1>6. WorldTypes'
  BY <1>2, <1>4 DEF WorldTypes, CountInv
<1> QED
  BY <1>5, <1>6, PartsAfter

LEMMA NextTypes == TypeInv /\ [Next]_vars => TypeInv'
<1> SUFFICES ASSUME TypeInv, [Next]_vars PROVE TypeInv'
  OBVIOUS
<1>1. CASE UNCHANGED vars
  <2>1. PlaceTypes /\ FlagTypes /\ LocalTypes /\ NotifyTypes /\ WorldTypes /\ ClientTypes
    BY Parts
  <2>2. /\ PlaceTypes' /\ FlagTypes' /\ LocalTypes' /\ NotifyTypes' /\ WorldTypes'
        /\ ClientTypes'
    BY <1>1, <2>1 DEF PlaceTypes, PlaceInv, Place, Places, Nexts, FlagTypes, LocalTypes,
       NotifyTypes, WorldTypes, CountInv, ClientTypes, vars, flags, locks, port, client,
       world, local
  <2> QED
    BY <2>2, PartsAfter
<1>2. ASSUME NEW t \in Threads, Common(t) PROVE TypeInv'
  BY <1>2, CommonTypes
<1>3. ASSUME NEW t \in Callers, CallerStep(t) PROVE TypeInv'
  BY <1>2, <1>3, Kinds, OwnTypes, CreateTypes, InitNotifyTypes, JoinedTypes
     DEF CallerStep, OwnStep
<1>4. ASSUME NEW t \in Callers, NEW c \in Calls, Call(t, c) PROVE TypeInv'
  BY <1>4, CallTypes
<1>5. ASSUME NEW r \in Refreshers, RefreshStep(r) PROVE TypeInv'
  BY <1>2, <1>5, Kinds, RefreshTypes DEF RefreshStep
<1>6. ASSUME NEW n \in Notifiers, NotifyStep(n) PROVE TypeInv'
  BY <1>2, <1>6, Kinds, NotifierTypes DEF NotifyStep
<1> QED
  BY <1>1, <1>3, <1>4, <1>5, <1>6, CableTypes DEF Next, Finished

\* Every variable of the video port holds a value of its type, and each thread is
\* at a place of its own function, for any number of threads and calls.
THEOREM PortTypes == Spec => []TypeOK
<1>1. TypeInv => TypeOK
  BY DEF TypeInv
<1> QED
  BY <1>1, InitTypes, NextTypes, PTL DEF Spec

(***************************************************************************)
(* PortReadiness.  Whoever is in dsVideoPortInit between the lock and the  *)
(* unlock holds initLock, and while it is held the port is not yet ready.  *)
(***************************************************************************)
Locked == {"create", "notify", "publish"}

ReadyInv ==
    /\ \A t \in Callers : pc[t] \in Locked => initLock = t
    /\ initLock # Nobody => ~drmInitialized

\* Every step but those of dsVideoPortInit and dsVideoPortTerm.
Quiet ==
    /\ UNCHANGED <<initLock, drmInitialized>>
    /\ \A o \in Callers : pc'[o] \in Locked => pc[o] \in Locked

LEMMA QuietKeeps ==
    ASSUME ReadyInv, Quiet
    PROVE  ReadyInv' /\ UNCHANGED Readiness!vars
BY DEF ReadyInv, Quiet, Readiness!vars

LEMMA CommonQuiet ==
    ASSUME TypeInv, NEW t \in Threads, Common(t)
    PROVE  Quiet
<1>1. PICK l \in Places(t) \cap CommonGoals : Goto(t, l)
  BY CommonPlaces
<1>2. UNCHANGED <<initLock, drmInitialized>>
  BY CommonPlaces DEF flags, locks
<1>3. l \notin Locked
  BY DEF CommonGoals, CheckLabels, Locked
<1> QED
  BY <1>1, <1>2, <1>3, Kinds DEF Goto, Quiet, TypeInv, TypeOK

LEMMA CallerQuiet ==
    ASSUME TypeInv, NEW t \in Callers,
           \/ Register(t) \/ EnableDisplay(t) \/ EnableFlag(t) \/ InitEnter(t)
           \/ TermEnter(t) \/ TermJoin(t) \/ \E c \in Calls : Call(t, c)
    PROVE  Quiet
<1>1. PICK l \in {"check", "enabled", "idle", "initLock", "termClear", "join", "joining",
                  "entered"} : Goto(t, l)
  BY DEF Register, EnableDisplay, EnableFlag, InitEnter, TermEnter, TermJoin, Call,
     CheckThen, Return
<1>2. UNCHANGED <<initLock, drmInitialized>>
  BY DEF Register, EnableDisplay, EnableFlag, InitEnter, TermEnter, TermJoin, Call,
     flags, locks
<1>3. l \notin Locked
  BY DEF Locked
<1> QED
  BY <1>1, <1>2, <1>3, Kinds DEF Goto, Quiet, TypeInv, TypeOK

LEMMA OthersQuiet ==
    ASSUME TypeInv, \/ \E r \in Refreshers : RefreshStep(r)
                    \/ \E n \in Notifiers : NotifyStep(n)
                    \/ WorldStep \/ UNCHANGED vars
    PROVE  Quiet
<1>1. CASE \E r \in Refreshers : RefreshStep(r) /\ ~Common(r)
  <2>1. PICK r \in Refreshers : \/ RefreshBegin(r) \/ RefreshLoop(r) \/ RefreshSelect(r)
                                \/ RefreshConnector(r) \/ RefreshDone(r)
    BY <1>1 DEF RefreshStep
  <2>2. \E l \in AllLabels : Goto(r, l)
    BY <2>1 DEF RefreshBegin, RefreshLoop, RefreshSelect, RefreshConnector, RefreshDone,
       CheckThen, AllLabels, RefreshLabels, CheckLabels
  <2>3. UNCHANGED <<initLock, drmInitialized>>
    BY <2>1 DEF RefreshBegin, RefreshLoop, RefreshSelect, RefreshConnector, RefreshDone,
       flags, locks
  <2>4. r \notin Callers
    BY Kinds
  <2> QED
    BY <2>2, <2>3, <2>4, Kinds DEF Goto, Quiet, TypeInv, TypeOK
<1>2. CASE \E n \in Notifiers : NotifyStep(n) /\ ~Common(n)
  <2>1. PICK n \in Notifiers : NotifySample(n) \/ NotifyPoll(n) \/ NotifyRound(n)
    BY <1>2 DEF NotifyStep
  <2>2. (\E l \in AllLabels : Goto(n, l)) /\ UNCHANGED <<initLock, drmInitialized>>
    BY <2>1 DEF NotifySample, NotifyPoll, NotifyRound, AllLabels, NotifyLabels,
       CheckLabels, flags, locks
  <2>3. n \notin Callers
    BY Kinds
  <2> QED
    BY <2>2, <2>3, Kinds DEF Goto, Quiet, TypeInv, TypeOK
<1>3. CASE WorldStep \/ UNCHANGED vars
  BY <1>3 DEF WorldStep, MoveCable, Negotiate, vars, flags, locks, Quiet
<1> QED
  BY <1>1, <1>2, <1>3, CommonQuiet, Kinds DEF RefreshStep, NotifyStep

\* dsVideoPortInit under initLock, and the end of dsVideoPortTerm.
LEMMA InitReady ==
    ASSUME TypeInv, ReadyInv, NEW t \in Callers,
           \/ InitLock(t) \/ InitCreate(t) \/ InitNotify(t) \/ InitPublish(t)
           \/ TermClear(t) \/ TermJoined(t)
    PROVE  ReadyInv' /\ [Readiness!Next]_(Readiness!vars)
<1>1. t \in Threads /\ t # Nobody /\ pc \in [Threads -> AllLabels]
      /\ initLock \in Callers \cup {Nobody} /\ drmInitialized \in BOOLEAN
  BY Kinds DEF TypeInv, TypeOK, AllLabels
<1>2. \A o \in Callers : o \in Threads /\ o \notin Refreshers /\ o \notin Notifiers
  BY Kinds
<1> USE DEF At, Goto, Return, flags, locks
<1>3. CASE InitLock(t)
  <2>1. CASE UNCHANGED <<initLock, drmInitialized>> /\ Goto(t, "idle")
    <3>1. Quiet
      BY <1>1, <1>2, <2>1 DEF Quiet, Locked
    <3> QED
      BY <3>1, QuietKeeps
  <2>2. CASE /\ initLock = Nobody /\ ~drmInitialized /\ initLock' = t
             /\ drmInitialized' = drmInitialized
             /\ \E l \in {"create", "idle"} : Goto(t, l)
    <3>1. \A o \in Callers : pc[o] \notin Locked
      BY <2>2, Kinds DEF ReadyInv
    <3>2. \A o \in Callers : o # t => pc'[o] = pc[o]
      BY <1>1, <1>2, <2>2
    <3>3. ReadyInv'
      BY <2>2, <3>1, <3>2 DEF ReadyInv
    <3>4. Readiness!Begin
      BY <1>1, <2>2 DEF Readiness!Begin
    <3> QED
      BY <3>3, <3>4 DEF Readiness!Next
  <2> QED
    BY <1>3, <2>1, <2>2 DEF InitLock
<1>4. CASE InitCreate(t) \/ InitNotify(t)
  <2>1. UNCHANGED <<initLock, drmInitialized>> /\ pc[t] \in Locked
    BY <1>4 DEF InitCreate, InitNotify, Locked
  <2>2. \A o \in Callers : o # t => pc'[o] = pc[o]
    <3>1. CASE \E l \in {"notify", "publish"} : Goto(t, l)
      BY <1>1, <1>2, <3>1
    <3>2. CASE \E u \in Refreshers \cup Notifiers : \E m \in {"created", "check"} :
                 \E l \in {"notify", "publish"} : pc' = [pc EXCEPT ![u] = m, ![t] = l]
      <4>1. PICK u \in Refreshers \cup Notifiers, m \in {"created", "check"},
                 l \in {"notify", "publish"} : pc' = [pc EXCEPT ![u] = m, ![t] = l]
        BY <3>2
      <4>2. u \in Threads /\ u # t /\ m \in AllLabels /\ l \in AllLabels
        BY <1>2 DEF Threads, AllLabels, RefreshLabels, CallerLabels, CheckLabels
      <4>3. \A o \in Threads : o # u /\ o # t => pc'[o] = pc[o]
        BY ONLY <1>1, <4>1, <4>2, TwoPlaces
      <4> QED
        BY <1>2, <4>3
    <3> QED
      BY <1>4, <3>1, <3>2 DEF InitCreate, InitNotify
  <2>3. ReadyInv'
    BY <2>1, <2>2 DEF ReadyInv
  <2> QED
    BY <2>1, <2>3 DEF Readiness!vars
<1>5. CASE InitPublish(t)
  <2>1. pc[t] \in Locked /\ drmInitialized' = TRUE /\ initLock' = Nobody /\ Goto(t, "idle")
    BY <1>5 DEF InitPublish, Locked
  <2>2. initLock = t
    BY <2>1 DEF ReadyInv
  <2>3. \A o \in Callers : pc'[o] \notin Locked
    <3>1. \A o \in Callers : o # t => pc'[o] = pc[o] /\ pc[o] \notin Locked
      BY <1>1, <1>2, <2>1, <2>2 DEF ReadyInv
    <3>2. pc'[t] = "idle"
      BY <1>1, <2>1
    <3> QED
      BY <3>1, <3>2 DEF Locked
  <2>4. ReadyInv'
    BY <2>1, <2>3 DEF ReadyInv
  <2>5. Readiness!Publish
    BY <1>1, <2>1, <2>2 DEF Readiness!Publish
  <2> QED
    BY <2>4, <2>5 DEF Readiness!Next
<1>6. CASE TermClear(t)
  <2>1. initLock' = initLock /\ drmInitialized' = FALSE /\ Goto(t, "join")
    BY <1>6 DEF TermClear
  <2>2. \A o \in Callers : pc'[o] \in Locked => pc[o] \in Locked
    BY <1>1, <1>2, <2>1 DEF Locked
  <2>3. ReadyInv'
    BY <2>1, <2>2 DEF ReadyInv
  <2>4. Readiness!Clear \/ UNCHANGED Readiness!vars
    BY <1>1, <2>1 DEF Readiness!Clear, Readiness!vars
  <2> QED
    BY <2>3, <2>4 DEF Readiness!Next
<1>7. CASE TermJoined(t)
  <2>1. joining[t] \in Refreshers
    BY <1>1, <1>7 DEF TypeInv, PlaceInv, Place, TermJoined
  <2>2. UNCHANGED <<initLock, drmInitialized>>
        /\ pc' = [pc EXCEPT ![joining[t]] = "idle", ![t] = "idle"]
    BY <1>7 DEF TermJoined
  <2>3. joining[t] \in Threads /\ joining[t] # t /\ "idle" \in AllLabels
    BY <1>2, <2>1 DEF Threads, AllLabels, CallerLabels
  <2>4. pc'[t] = "idle" /\ \A o \in Threads : o # joining[t] /\ o # t => pc'[o] = pc[o]
    BY ONLY <1>1, <2>2, <2>3, TwoPlaces
  <2>5. Quiet
    BY <1>2, <2>1, <2>2, <2>4 DEF Quiet, Locked
  <2> QED
    BY <2>5, QuietKeeps
<1> QED
  BY <1>3, <1>4, <1>5, <1>6, <1>7

LEMMA ReadyStep ==
    TypeInv /\ ReadyInv /\ [Next]_vars => ReadyInv' /\ [Readiness!Next]_(Readiness!vars)
<1> SUFFICES ASSUME TypeInv, ReadyInv, [Next]_vars
             PROVE  ReadyInv' /\ [Readiness!Next]_(Readiness!vars)
  OBVIOUS
<1>1. ASSUME NEW t \in Callers, CallerStep(t) \/ \E c \in Calls : Call(t, c)
      PROVE  ReadyInv' /\ [Readiness!Next]_(Readiness!vars)
  <2>1. t \in Threads
    BY Kinds
  <2>2. CASE Quiet
    BY <2>2, QuietKeeps
  <2>3. CASE \/ InitLock(t) \/ InitCreate(t) \/ InitNotify(t) \/ InitPublish(t)
             \/ TermClear(t) \/ TermJoined(t)
    BY <2>3, InitReady
  <2> QED
    BY <1>1, <2>1, <2>2, <2>3, CommonQuiet, CallerQuiet DEF CallerStep
<1>2. CASE \/ \E r \in Refreshers : RefreshStep(r)
           \/ \E n \in Notifiers : NotifyStep(n)
           \/ WorldStep \/ UNCHANGED vars
  <2>1. Quiet
    BY <1>2, OthersQuiet
  <2> QED
    BY <2>1, QuietKeeps
<1> QED
  BY <1>1, <1>2 DEF Next, Finished

\* The video port implements PortReadiness, on which the hotplug thread of the
\* display is composed: whatever the client overlaps, the port becomes ready only
\* at the end of an initialisation that held initLock, and none begins while it is
\* ready.
THEOREM PortImplementsReadiness == Spec => ImplementsReadiness
<1>1. Init => Readiness!Init /\ ReadyInv
  <2> SUFFICES ASSUME Init PROVE Readiness!Init /\ ReadyInv
    OBVIOUS
  <2>1. initLock = Nobody /\ drmInitialized = FALSE
        /\ \A t \in Callers : pc[t] = "idle"
    BY Kinds DEF Init
  <2> QED
    BY <2>1 DEF Readiness!Init, ReadyInv, Locked
<1> QED
  BY <1>1, InitTypes, NextTypes, ReadyStep, PTL DEF Spec, ImplementsReadiness, Readiness!Spec

(***************************************************************************)
(* One refresh thread.  A call is at a place of its own operation, and two *)
(* operations that the client never overlaps are never both under way.     *)
(***************************************************************************)
InInit == {"initLock", "create", "notify", "publish"}
InTerm == {"termClear", "join", "joining"}

OfItsCall(t) ==
    /\ pc[t] = "idle" => call[t] = NoCall
    /\ pc[t] \in InInit => call[t].op = "init"
    /\ pc[t] \in InTerm => call[t].op = "term"
    /\ pc[t] \in CheckLabels => call[t].op \in {"get", "register"}

Apart ==
    \A t, u \in Callers : t # u => ~Overlaps(call[t].op, call[u].op)

CallInv == Apart /\ \A t \in Callers : OfItsCall(t)

\* A step of a caller moves no other caller, and returns when it ends in "idle".
LEMMA CallerMoves ==
    ASSUME TypeInv, NEW t \in Callers, CallerStep(t)
    PROVE  /\ \A o \in Callers : o # t => pc'[o] = pc[o]
           /\ call' = IF pc'[t] = "idle" THEN [call EXCEPT ![t] = NoCall] ELSE call
           /\ \/ pc[t] \in CheckLabels /\ pc'[t] \in CommonGoals
              \/ /\ pc[t] = "entered" /\ call[t].op = "register"
                 /\ pc'[t] = "check"
              \/ /\ pc[t] = "entered" /\ call[t].op = "init"
                 /\ pc'[t] = "initLock"
              \/ /\ pc[t] = "entered" /\ call[t].op = "term"
                 /\ pc'[t] = "termClear"
              \/ pc[t] \in InInit /\ pc'[t] \in InInit
              \/ pc[t] \in InTerm /\ pc'[t] \in InTerm
              \/ pc'[t] \in {"idle", "enabled"}
<1>1. t \in Threads /\ pc \in [Threads -> AllLabels]
      /\ \A o \in Callers : o \in Threads /\ o \notin Refreshers /\ o \notin Notifiers
  BY Kinds DEF TypeInv, TypeOK, AllLabels
<1> USE DEF At, Goto, Return
<1>2. CASE Common(t)
  BY <1>1, <1>2, CommonPlaces
<1>3. CASE Register(t) \/ EnableDisplay(t) \/ EnableFlag(t)
  BY <1>1, <1>3 DEF Register, EnableDisplay, EnableFlag, CheckThen, local
<1>4. CASE InitEnter(t) \/ TermEnter(t)
  BY <1>1, <1>4 DEF InitEnter, TermEnter, local
<1>5. CASE InitLock(t) \/ InitPublish(t)
  BY <1>1, <1>5 DEF InitLock, InitPublish, local, InInit
<1>6. CASE TermClear(t) \/ TermJoin(t)
  BY <1>1, <1>6 DEF TermClear, TermJoin, local, InTerm
<1>7. CASE InitCreate(t) \/ InitNotify(t)
  <2>1. call' = call /\ pc[t] \in {"create", "notify"}
    BY <1>7 DEF InitCreate, InitNotify, local
  <2>2. CASE \E l \in {"notify", "publish"} : Goto(t, l)
    BY <1>1, <2>1, <2>2 DEF InInit
  <2>3. CASE \E u \in Refreshers \cup Notifiers : \E m \in {"created", "check"} :
               \E l \in {"notify", "publish"} : pc' = [pc EXCEPT ![u] = m, ![t] = l]
    <3>1. PICK u \in Refreshers \cup Notifiers, m \in {"created", "check"},
               l \in {"notify", "publish"} : pc' = [pc EXCEPT ![u] = m, ![t] = l]
      BY <2>3
    <3>2. u \in Threads /\ u # t /\ m \in AllLabels /\ l \in AllLabels
      BY <1>1 DEF Threads, AllLabels, RefreshLabels, CallerLabels, CheckLabels
    <3>3. pc'[t] = l /\ \A o \in Threads : o # u /\ o # t => pc'[o] = pc[o]
      BY ONLY <1>1, <3>1, <3>2, TwoPlaces
    <3> QED
      BY <1>1, <2>1, <3>3 DEF InInit
  <2> QED
    BY <1>7, <2>2, <2>3 DEF InitCreate, InitNotify
<1>8. CASE TermJoined(t)
  <2>1. joining[t] \in Refreshers
    BY <1>1, <1>8 DEF TypeInv, PlaceInv, Place, TermJoined
  <2>2. call' = [call EXCEPT ![t] = NoCall]
        /\ pc' = [pc EXCEPT ![joining[t]] = "idle", ![t] = "idle"]
    BY <1>8 DEF TermJoined
  <2>3. joining[t] \in Threads /\ joining[t] # t /\ "idle" \in AllLabels
    BY <1>1, <2>1 DEF Threads, AllLabels, CallerLabels
  <2>4. pc'[t] = "idle" /\ \A o \in Threads : o # joining[t] /\ o # t => pc'[o] = pc[o]
    BY ONLY <1>1, <2>2, <2>3, TwoPlaces
  <2> QED
    BY <1>1, <2>1, <2>2, <2>4
<1> QED
  BY <1>2, <1>3, <1>4, <1>5, <1>6, <1>7, <1>8 DEF CallerStep

\* The steps of the others move no caller and change no call.
LEMMA OthersMoves ==
    ASSUME TypeInv, \/ \E r \in Refreshers : RefreshStep(r)
                    \/ \E n \in Notifiers : NotifyStep(n)
                    \/ WorldStep \/ UNCHANGED vars
    PROVE  /\ \A o \in Callers : pc'[o] = pc[o]
           /\ call' = call
<1>1. \A o \in Callers : o \in Threads /\ o \notin Refreshers /\ o \notin Notifiers
  BY Kinds
<1>2. ASSUME NEW t \in Refreshers \cup Notifiers, Common(t)
      PROVE  (\A o \in Callers : pc'[o] = pc[o]) /\ call' = call
  <2>1. t \in Threads /\ t \notin Callers
    BY Kinds
  <2>2. (\E l \in Places(t) : Goto(t, l)) /\ call' = call
    BY <1>2, <2>1, CommonPlaces
  <2> QED
    BY <1>1, <2>1, <2>2 DEF Goto, TypeInv, TypeOK
<1>3. ASSUME NEW r \in Refreshers,
             \/ RefreshBegin(r) \/ RefreshLoop(r) \/ RefreshSelect(r)
             \/ RefreshConnector(r) \/ RefreshDone(r)
      PROVE  (\A o \in Callers : pc'[o] = pc[o]) /\ call' = call
  <2>1. (\E l \in AllLabels : Goto(r, l)) /\ call' = call
    BY <1>3 DEF RefreshBegin, RefreshLoop, RefreshSelect, RefreshConnector, RefreshDone,
       CheckThen, AllLabels, RefreshLabels, CheckLabels, local
  <2> QED
    BY <1>1, <2>1 DEF Goto, TypeInv, TypeOK
<1>4. ASSUME NEW n \in Notifiers, NotifySample(n) \/ NotifyPoll(n) \/ NotifyRound(n)
      PROVE  (\A o \in Callers : pc'[o] = pc[o]) /\ call' = call
  <2>1. (\E l \in AllLabels : Goto(n, l)) /\ call' = call
    BY <1>4 DEF NotifySample, NotifyPoll, NotifyRound, AllLabels, NotifyLabels,
       CheckLabels, local
  <2> QED
    BY <1>1, <2>1 DEF Goto, TypeInv, TypeOK
<1>5. CASE WorldStep \/ UNCHANGED vars
  BY <1>5 DEF WorldStep, MoveCable, Negotiate, vars, local
<1> QED
  BY <1>2, <1>3, <1>4, <1>5 DEF RefreshStep, NotifyStep

\* No operation overlaps with the call that is none.
LEMMA NoneOverlapsNothing ==
    ASSUME NEW o PROVE ~Overlaps(NoCall.op, o) /\ ~Overlaps(o, NoCall.op)
BY VideoPortAssumption DEF Overlaps, NoCall, Ops

LEMMA CallInvStep == TypeInv /\ CallInv /\ [Next]_vars => CallInv'
<1> SUFFICES ASSUME TypeInv, CallInv, [Next]_vars PROVE CallInv'
  OBVIOUS
<1>1. pc \in [Threads -> AllLabels] /\ call \in [Callers -> ApiCalls \cup {NoCall}]
      /\ \A o \in Callers : o \in Threads
  BY Kinds DEF TypeInv, TypeOK, AllLabels
<1>2. CASE \/ \E r \in Refreshers : RefreshStep(r)
           \/ \E n \in Notifiers : NotifyStep(n)
           \/ WorldStep \/ UNCHANGED vars
  BY <1>2, OthersMoves DEF CallInv, Apart, OfItsCall, Overlaps
<1>3. ASSUME NEW t \in Callers, CallerStep(t) PROVE CallInv'
  <2>1. /\ \A o \in Callers : o # t => pc'[o] = pc[o]
        /\ call' = IF pc'[t] = "idle" THEN [call EXCEPT ![t] = NoCall] ELSE call
    BY <1>3, CallerMoves
  <2>2. /\ \A o \in Callers : o # t => call'[o] = call[o]
        /\ pc'[t] = "idle" => call'[t] = NoCall
        /\ pc'[t] # "idle" => call'[t] = call[t]
    BY <1>1, <2>1
  <2>3. Apart'
    BY <2>2, NoneOverlapsNothing DEF CallInv, Apart
  <2>4. \A o \in Callers : o # t => OfItsCall(o)'
    BY <2>1, <2>2 DEF CallInv, OfItsCall
  <2>5. OfItsCall(t)
    BY DEF CallInv
  <2>6. OfItsCall(t)'
    <3>1. CASE pc'[t] = "idle"
      BY <2>2, <3>1 DEF OfItsCall, InInit, InTerm, CheckLabels
    <3>2. CASE pc'[t] # "idle"
      BY <1>3, <2>2, <2>5, <3>2, CallerMoves
         DEF OfItsCall, InInit, InTerm, CheckLabels, CommonGoals
    <3> QED
      BY <3>1, <3>2
  <2> QED
    BY <2>3, <2>4, <2>6 DEF CallInv
<1>4. ASSUME NEW t \in Callers, NEW c \in Calls, Call(t, c) PROVE CallInv'
  <2>1. /\ \A o \in Callers : At(o, "idle") \/ ~Overlaps(c.op, call[o].op)
        /\ call' = [call EXCEPT ![t] = c]
        /\ IF c.op = "get" THEN Goto(t, "check") ELSE Goto(t, "entered")
    BY <1>4 DEF Call, CheckThen
  <2>2. /\ call'[t] = c /\ \A o \in Callers : o # t => call'[o] = call[o]
        /\ pc'[t] = (IF c.op = "get" THEN "check" ELSE "entered")
        /\ \A o \in Callers : o # t => pc'[o] = pc[o]
    BY <1>1, <2>1 DEF Goto
  <2>3. \A o \in Callers : ~Overlaps(c.op, call[o].op) /\ ~Overlaps(call[o].op, c.op)
    BY <2>1, NoneOverlapsNothing DEF CallInv, OfItsCall, At, Overlaps
  <2>4. Apart'
    BY <2>2, <2>3 DEF CallInv, Apart
  <2>5. \A o \in Callers : OfItsCall(o)'
    BY <2>2 DEF CallInv, OfItsCall, InInit, InTerm, CheckLabels
  <2> QED
    BY <2>4, <2>5 DEF CallInv
<1> QED
  BY <1>2, <1>3, <1>4 DEF Next, Finished

\* The client that these theorems are about never overlaps two calls that switch the
\* port.
SwitchedAlone ==
    \A a, b \in {"init", "term"} : <<a, b>> \in Conflicts \/ <<b, a>> \in Conflicts

Alive(r) == pc[r] \notin {"idle", "exited"}
Busy == {"notify", "publish"} \cup InTerm
Running == drmInitialized \/ \E t \in Callers : pc[t] \in Busy

\* A refresh thread that is alive is the one dsVideoPortTerm joins, and the port is
\* initialised or on the way to be, or from being so.
AliveInv ==
    /\ \A r \in Refreshers : Alive(r) => r = drm_refresh_threadId /\ Running
    /\ \A t \in Callers : pc[t] = "joining" => joining[t] = drm_refresh_threadId

\* One caller at a time is in dsVideoPortInit or dsVideoPortTerm.
LEMMA OneSwitches ==
    ASSUME SwitchedAlone, CallInv, NEW t \in Callers, NEW u \in Callers,
           call[t].op \in {"init", "term"}, call[u].op \in {"init", "term"}
    PROVE  t = u
BY DEF SwitchedAlone, CallInv, Apart, Overlaps

\* The steps that start no thread, join none and switch nothing.
Steady ==
    /\ UNCHANGED <<drmInitialized, drm_refresh_threadId, joining>>
    /\ \A r \in Refreshers : Alive(r)' => Alive(r)
    /\ \A o \in Callers : pc[o] \in Busy => pc'[o] \in Busy
    /\ \A o \in Callers : pc'[o] = "joining" => pc[o] = "joining"

LEMMA SteadyKeeps == ASSUME AliveInv, Steady PROVE AliveInv'
BY DEF AliveInv, Steady, Running

LEMMA CommonSteady ==
    ASSUME TypeInv, NEW t \in Threads, Common(t)
    PROVE  Steady
<1>1. PICK l \in Places(t) \cap CommonGoals : Goto(t, l)
  BY CommonPlaces
<1>2. UNCHANGED <<drmInitialized, drm_refresh_threadId, joining>> /\ pc[t] \in CheckLabels
  BY CommonPlaces DEF flags
<1>3. pc'[t] = l /\ \A o \in Threads : o # t => pc'[o] = pc[o]
  BY <1>1 DEF Goto, TypeInv, TypeOK
<1>4. l # "joining" /\ pc[t] \notin Busy /\ pc[t] \notin {"idle", "exited"}
  BY <1>2 DEF CommonGoals, CheckLabels, Busy, InTerm
<1> QED
  BY <1>2, <1>3, <1>4, Kinds DEF Steady, Alive

LEMMA OthersSteady ==
    ASSUME TypeInv, \/ \E r \in Refreshers : RefreshStep(r)
                    \/ \E n \in Notifiers : NotifyStep(n)
                    \/ WorldStep \/ UNCHANGED vars
    PROVE  Steady
<1>1. ASSUME NEW t \in Refreshers \cup Notifiers, Common(t) PROVE Steady
  BY <1>1, CommonSteady, Kinds
<1>2. ASSUME NEW r \in Refreshers,
             \/ RefreshBegin(r) \/ RefreshLoop(r) \/ RefreshSelect(r)
             \/ RefreshConnector(r) \/ RefreshDone(r)
      PROVE  Steady
  <2>1. (\E l \in AllLabels : Goto(r, l)) /\ pc[r] \notin {"idle", "exited"}
    BY <1>2 DEF RefreshBegin, RefreshLoop, RefreshSelect, RefreshConnector, RefreshDone,
       CheckThen, AllLabels, RefreshLabels, CheckLabels, At
  <2>2. UNCHANGED <<drmInitialized, drm_refresh_threadId, joining>>
    BY <1>2 DEF RefreshBegin, RefreshLoop, RefreshSelect, RefreshConnector, RefreshDone,
       flags, local
  <2>3. \A o \in Threads : o # r => pc'[o] = pc[o]
    BY <2>1 DEF Goto, TypeInv, TypeOK
  <2> QED
    BY <2>1, <2>2, <2>3, Kinds DEF Steady, Alive
<1>3. ASSUME NEW n \in Notifiers, NotifySample(n) \/ NotifyPoll(n) \/ NotifyRound(n)
      PROVE  Steady
  <2>1. (\E l \in AllLabels : Goto(n, l))
        /\ UNCHANGED <<drmInitialized, drm_refresh_threadId, joining>>
    BY <1>3 DEF NotifySample, NotifyPoll, NotifyRound, AllLabels, NotifyLabels,
       CheckLabels, flags, local
  <2>2. \A o \in Threads : o # n => pc'[o] = pc[o]
    BY <2>1 DEF Goto, TypeInv, TypeOK
  <2> QED
    BY <2>1, <2>2, Kinds DEF Steady, Alive
<1>4. CASE WorldStep \/ UNCHANGED vars
  BY <1>4 DEF WorldStep, MoveCable, Negotiate, vars, flags, local, Steady, Alive
<1> QED
  BY <1>1, <1>2, <1>3, <1>4 DEF RefreshStep, NotifyStep

LEMMA CallerSteady ==
    ASSUME TypeInv, NEW t \in Callers,
           \/ Register(t) \/ EnableDisplay(t) \/ EnableFlag(t) \/ InitEnter(t)
           \/ InitLock(t) \/ TermEnter(t) \/ \E c \in Calls : Call(t, c)
    PROVE  Steady
<1>1. (\E l \in {"check", "enabled", "idle", "initLock", "termClear", "entered",
                 "create"} : Goto(t, l))
      /\ pc[t] \in {"idle", "entered", "enabled", "initLock"}
  BY DEF Register, EnableDisplay, EnableFlag, InitEnter, InitLock, TermEnter, Call,
     CheckThen, Return, At
<1>2. UNCHANGED <<drmInitialized, drm_refresh_threadId, joining>>
  BY DEF Register, EnableDisplay, EnableFlag, InitEnter, InitLock, TermEnter, Call,
     flags, local
<1>3. \A o \in Threads : o # t => pc'[o] = pc[o]
  BY <1>1 DEF Goto, TypeInv, TypeOK
<1>4. pc[t] \notin Busy /\ pc'[t] # "joining"
  BY <1>1, Kinds DEF Busy, InTerm, Goto, TypeInv, TypeOK
<1> QED
  BY <1>2, <1>3, <1>4, Kinds DEF Steady, Alive

\* The steps of the one caller that switches the port.
LEMMA SwitchAlive ==
    ASSUME SwitchedAlone, TypeInv, ReadyInv, CallInv, AliveInv, NEW t \in Callers,
           \/ InitCreate(t) \/ InitNotify(t) \/ InitPublish(t)
           \/ TermClear(t) \/ TermJoin(t) \/ TermJoined(t)
    PROVE  AliveInv'
<1>1. /\ t \in Threads /\ pc \in [Threads -> AllLabels]
      /\ joining \in [Callers -> Refreshers \cup {Nobody}]
      /\ \A o \in Callers : o \in Threads /\ o \notin Refreshers /\ o \notin Notifiers
      /\ \A r \in Refreshers : r \in Threads /\ r \notin Callers /\ r \notin Notifiers
      /\ Nobody \notin Refreshers
  BY Kinds DEF TypeInv, TypeOK, AllLabels
<1>2. call[t].op \in {"init", "term"}
  BY DEF CallInv, OfItsCall, InitCreate, InitNotify, InitPublish, TermClear, TermJoin,
     TermJoined, At, InInit, InTerm
<1>3. \A o \in Callers : o # t => pc[o] \notin Busy
  BY <1>2, OneSwitches DEF CallInv, OfItsCall, Busy, InInit, InTerm
<1>4. \A o \in Callers : o # t => pc'[o] = pc[o] /\ pc'[o] # "joining"
  BY <1>3, CallerMoves DEF CallerStep, Busy, InTerm
<1> USE DEF At, Goto, Return
<1>5. CASE InitCreate(t)
  <2>1. pc[t] = "create" /\ ~drmInitialized /\ drmInitialized' = drmInitialized
    BY <1>1, <1>5, Kinds DEF ReadyInv, Locked, InitCreate
  <2>2. \A r \in Refreshers : ~Alive(r)
    BY <1>3, <2>1 DEF AliveInv, Running, Busy, InTerm
  <2>3. pc'[t] = "notify" /\ \A r \in Refreshers : Alive(r)' => r = drm_refresh_threadId'
    <3>1. CASE Goto(t, "notify")
      BY <1>1, <2>2, <3>1 DEF Alive
    <3>2. ASSUME NEW u \in Refreshers, drm_refresh_threadId' = u,
                 pc' = [pc EXCEPT ![u] = "created", ![t] = "notify"]
          PROVE  pc'[t] = "notify"
                 /\ \A r \in Refreshers : Alive(r)' => r = drm_refresh_threadId'
      <4>1. u \in Threads /\ u # t /\ "created" \in AllLabels /\ "notify" \in AllLabels
        BY <1>1 DEF AllLabels, RefreshLabels, CallerLabels
      <4>2. pc'[t] = "notify" /\ \A o \in Threads : o # u /\ o # t => pc'[o] = pc[o]
        BY ONLY <1>1, <3>2, <4>1, TwoPlaces
      <4> QED
        BY <1>1, <2>2, <3>2, <4>2 DEF Alive
    <3> QED
      BY <1>5, <3>1, <3>2 DEF InitCreate
  <2> QED
    BY <1>4, <2>3 DEF AliveInv, Running, Busy
<1>6. CASE InitNotify(t)
  <2>1. UNCHANGED <<drmInitialized, drm_refresh_threadId>>
    BY <1>6 DEF InitNotify, flags
  <2>2. pc[t] = "notify" /\ pc'[t] = "publish" /\ \A r \in Refreshers : pc'[r] = pc[r]
    <3>1. CASE Goto(t, "publish")
      BY <1>1, <1>6, <3>1 DEF InitNotify
    <3>2. ASSUME NEW n \in Notifiers,
                 pc' = [pc EXCEPT ![n] = "check", ![t] = "publish"]
          PROVE  pc'[t] = "publish" /\ \A r \in Refreshers : pc'[r] = pc[r]
      <4>1. n \in Threads /\ n # t /\ "check" \in AllLabels /\ "publish" \in AllLabels
        BY <1>1, Kinds DEF AllLabels, NotifyLabels, CallerLabels, CheckLabels
      <4>2. pc'[t] = "publish" /\ \A o \in Threads : o # n /\ o # t => pc'[o] = pc[o]
        BY ONLY <1>1, <3>2, <4>1, TwoPlaces
      <4> QED
        BY <1>1, <4>2
    <3> QED
      BY <1>6, <3>1, <3>2 DEF InitNotify
  <2> QED
    BY <1>4, <2>1, <2>2 DEF AliveInv, Running, Busy, Alive
<1>7. CASE InitPublish(t)
  <2>1. drmInitialized' = TRUE /\ drm_refresh_threadId' = drm_refresh_threadId
        /\ pc'[t] = "idle" /\ \A r \in Refreshers : pc'[r] = pc[r]
    BY <1>1, <1>7 DEF InitPublish
  <2> QED
    BY <1>4, <2>1 DEF AliveInv, Running, Alive
<1>8. CASE TermClear(t)
  <2>1. drm_refresh_threadId' = drm_refresh_threadId
        /\ pc'[t] = "join" /\ \A r \in Refreshers : pc'[r] = pc[r]
    BY <1>1, <1>8 DEF TermClear
  <2> QED
    BY <1>4, <2>1 DEF AliveInv, Running, Busy, InTerm, Alive
<1>9. CASE TermJoin(t)
  <2>1. UNCHANGED <<drmInitialized, drm_refresh_threadId>>
        /\ \A r \in Refreshers : pc'[r] = pc[r]
    BY <1>1, <1>9 DEF TermJoin, flags
  <2>2. CASE drm_refresh_threadId = Nobody /\ pc'[t] = "idle"
    BY <1>1, <1>4, <2>1, <2>2 DEF AliveInv, Alive
  <2>3. CASE pc'[t] = "joining" /\ joining'[t] = drm_refresh_threadId
    BY <1>4, <2>1, <2>3 DEF AliveInv, Running, Busy, InTerm, Alive
  <2> QED
    BY <1>1, <1>9, <2>2, <2>3 DEF TermJoin
<1>10. CASE TermJoined(t)
  <2>1. /\ joining[t] \in Refreshers /\ joining[t] = drm_refresh_threadId
        /\ pc[joining[t]] \in {"exited", "idle"}
        /\ drm_refresh_threadId' = drm_refresh_threadId
        /\ pc' = [pc EXCEPT ![joining[t]] = "idle", ![t] = "idle"]
    BY <1>1, <1>10 DEF TypeInv, PlaceInv, Place, TermJoined, AliveInv, flags
  <2>2. joining[t] \in Threads /\ joining[t] # t /\ "idle" \in AllLabels
    BY <1>1, <2>1 DEF AllLabels, CallerLabels
  <2>3. /\ pc'[t] = "idle" /\ pc'[joining[t]] = "idle"
        /\ \A o \in Threads : o # joining[t] /\ o # t => pc'[o] = pc[o]
    BY ONLY <1>1, <2>1, <2>2, TwoPlaces
  <2>4. \A r \in Refreshers : ~Alive(r)'
    BY <1>1, <2>1, <2>3 DEF AliveInv, Alive
  <2> QED
    BY <1>4, <2>3, <2>4 DEF AliveInv
<1> QED
  BY <1>5, <1>6, <1>7, <1>8, <1>9, <1>10

LEMMA AliveInvStep ==
    SwitchedAlone /\ TypeInv /\ ReadyInv /\ CallInv /\ AliveInv /\ [Next]_vars => AliveInv'
<1> SUFFICES ASSUME SwitchedAlone, TypeInv, ReadyInv, CallInv, AliveInv, [Next]_vars
             PROVE  AliveInv'
  OBVIOUS
<1>1. ASSUME NEW t \in Callers, CallerStep(t) \/ \E c \in Calls : Call(t, c)
      PROVE  AliveInv'
  <2>1. t \in Threads
    BY Kinds
  <2>2. CASE Steady
    BY <2>2, SteadyKeeps
  <2>3. CASE \/ InitCreate(t) \/ InitNotify(t) \/ InitPublish(t)
             \/ TermClear(t) \/ TermJoin(t) \/ TermJoined(t)
    BY <2>3, SwitchAlive
  <2> QED
    BY <1>1, <2>1, <2>2, <2>3, CommonSteady, CallerSteady DEF CallerStep
<1>2. CASE \/ \E r \in Refreshers : RefreshStep(r)
           \/ \E n \in Notifiers : NotifyStep(n)
           \/ WorldStep \/ UNCHANGED vars
  BY <1>2, OthersSteady, SteadyKeeps
<1> QED
  BY <1>1, <1>2 DEF Next, Finished

LEMMA InitAlive == Init => ReadyInv /\ CallInv /\ AliveInv
<1> SUFFICES ASSUME Init PROVE ReadyInv /\ CallInv /\ AliveInv
  OBVIOUS
<1>1. initLock = Nobody /\ \A t \in Threads : pc[t] = "idle"
  BY DEF Init
<1>2. \A t \in Callers : t \in Threads /\ call[t] = NoCall
  BY Kinds DEF Init
<1>3. \A r \in Refreshers : r \in Threads
  BY Kinds
<1> QED
  BY <1>1, <1>2, <1>3, NoneOverlapsNothing
     DEF ReadyInv, Locked, CallInv, Apart, OfItsCall, InInit, InTerm, CheckLabels,
         AliveInv, Alive

\* Two refresh threads are never alive together, however often the port is switched
\* on and off, as long as the client does not overlap dsVideoPortInit and
\* dsVideoPortTerm.
THEOREM OneThreadListens ==
    ASSUME SwitchedAlone
    PROVE  Spec => []OneRefreshThread
<1>1. AliveInv => OneRefreshThread
  <2> SUFFICES ASSUME AliveInv PROVE OneRefreshThread
    OBVIOUS
  <2> DEFINE S == {r \in Refreshers : pc[r] \notin {"idle", "exited"}}
  <2>1. \A r, s \in S : r = s
    BY DEF AliveInv, Alive
  <2>2. S = {} \/ \E r : S = {r}
    BY <2>1
  <2>3. Cardinality(S) <= 1
    <3>1. CASE S = {}
      BY <3>1, FS_EmptySet
    <3>2. ASSUME NEW r, S = {r} PROVE Cardinality(S) <= 1
      <4>1. Cardinality({r}) = 1
        BY FS_Singleton
      <4> QED
        BY <3>2, <4>1
    <3> HIDE DEF S
    <3> QED
      BY <2>2, <3>1, <3>2
  <2> QED
    BY <2>3 DEF OneRefreshThread
<1>2. Spec => []AliveInv
  BY InitTypes, InitAlive, NextTypes, ReadyStep, CallInvStep, AliveInvStep, PTL DEF Spec
<1> QED
  BY <1>1, <1>2, PTL

(***************************************************************************)
(* The callback.  The client clears it only when the port is off, and one  *)
(* call at a time switches the port or changes the callback; it may        *)
(* register one at any time.  The boot-time notifier, which outlives       *)
(* dsVideoPortTerm, is left out.                                           *)
(***************************************************************************)
ManagedAlone ==
    /\ Tidy /\ Notifiers = {}
    /\ \A a, b \in {"init", "term", "register"} :
         <<a, b>> \in Conflicts \/ <<b, a>> \in Conflicts

Delivering == {"status", "tell", "invoke"}

Clearing(c) == c.op = "register" /\ ~c.arg

\* A caller delivers in dsRegisterHdcpStatusCallback, while the port is initialised.
CallbackInv ==
    /\ \A t \in Callers :
         /\ pc[t] \in Delivering => drmInitialized /\ call[t].op = "register"
         /\ Clearing(call[t]) => ~drmInitialized
    /\ \A t \in Callers \cup Refreshers : pc[t] = "invoke" => hdcpStatusCallback
    /\ ~badCall

LEMMA ManagedSwitch == ManagedAlone => SwitchedAlone
BY DEF ManagedAlone, SwitchedAlone

\* While a callback is cleared nothing is running.
LEMMA ClearedWhenOff ==
    ASSUME ManagedAlone, CallInv, AliveInv, CallbackInv, NEW t \in Callers,
           Clearing(call[t])
    PROVE  /\ ~Running
           /\ \A r \in Refreshers : ~Alive(r)
           /\ \A o \in Callers : pc[o] \notin Delivering
<1>1. call[t].op = "register" /\ ~drmInitialized
  BY DEF Clearing, CallbackInv
<1>2. \A o \in Callers : o # t => call[o].op \notin {"init", "term"}
  BY <1>1 DEF ManagedAlone, CallInv, Apart, Overlaps
<1>3. \A o \in Callers : pc[o] \notin Busy
  BY <1>1, <1>2 DEF CallInv, OfItsCall, Busy, InInit, InTerm
<1>4. ~Running
  BY <1>1, <1>3 DEF Running
<1> QED
  BY <1>1, <1>4 DEF AliveInv, CallbackInv

\* What a thread is about to deliver, it delivers while the port is on.
LEMMA InvokedWhenOn ==
    ASSUME ManagedAlone, TypeInv, CallInv, AliveInv, CallbackInv, NEW t \in Threads, Invoke(t)
    PROVE  t \in Callers \cup Refreshers /\ hdcpStatusCallback /\ ~Off
<1>1. pc[t] = "invoke"
  BY DEF Invoke, At
<1>2. t \in Callers \cup Refreshers
  BY DEF ManagedAlone, Threads
<1>3. CASE t \in Callers
  BY <1>1, <1>3 DEF CallbackInv, Delivering, Off
<1>4. CASE t \in Refreshers
  <2>1. Running
    BY <1>1, <1>4 DEF AliveInv, Alive
  <2>2. drmInitialized \/ \E o \in Callers : call[o].op \in {"init", "term"}
    BY <2>1 DEF Running, CallInv, OfItsCall, Busy, InInit, InTerm
  <2> QED
    BY <1>1, <1>4, <2>2 DEF CallbackInv, Off
<1> QED
  BY <1>2, <1>3, <1>4

\* The steps that deliver nothing, change no callback and switch nothing.
Discreet ==
    /\ UNCHANGED <<hdcpStatusCallback, badCall, drmInitialized>>
    /\ \A x \in Callers \cup Refreshers : pc'[x] = "invoke" => pc[x] = "invoke"
    /\ \A o \in Callers :
         /\ pc'[o] \in Delivering => pc[o] \in Delivering /\ call'[o] = call[o]
         /\ Clearing(call'[o]) => Clearing(call[o])

LEMMA DiscreetKeeps == ASSUME CallbackInv, Discreet PROVE CallbackInv'
BY DEF CallbackInv, Discreet, Clearing

\* CHECK_DRM_INITIALIZE, dsGetVideoPort and the delivery.
LEMMA CommonCallback ==
    ASSUME ManagedAlone, TypeInv, CallInv, AliveInv, CallbackInv, NEW t \in Threads, Common(t)
    PROVE  CallbackInv'
<1>1. /\ pc \in [Threads -> AllLabels] /\ call \in [Callers -> ApiCalls \cup {NoCall}]
      /\ \A o \in Callers : o \in Threads /\ o \notin Refreshers
      /\ \A r \in Refreshers : r \in Threads /\ r \notin Callers
      /\ t \in Callers \/ t \in Refreshers
  BY Kinds DEF TypeInv, TypeOK, AllLabels, ManagedAlone, Threads
<1>2. PICK l \in Places(t) \cap CommonGoals : Goto(t, l)
  BY CommonPlaces
<1>3. /\ drmInitialized' = drmInitialized /\ hdcpStatusCallback' = hdcpStatusCallback
      /\ call' = IF t \in Callers /\ pc'[t] = "idle"
                 THEN [call EXCEPT ![t] = NoCall] ELSE call
      /\ pc[t] \in CheckLabels
  BY CommonPlaces DEF flags
<1>4. pc'[t] = l /\ \A o \in Threads : o # t => pc'[o] = pc[o]
  BY <1>1, <1>2 DEF Goto
<1>5. \A o \in Callers : call'[o] = call[o] \/ (o = t /\ l = "idle" /\ call'[o] = NoCall)
  BY <1>1, <1>3, <1>4
<1>6. t \in Callers /\ l \in Delivering => drmInitialized /\ call[t].op = "register"
  <2> SUFFICES ASSUME t \in Callers, l \in Delivering
               PROVE  drmInitialized /\ call[t].op = "register"
    OBVIOUS
  <2>1. call[t].op \in {"get", "register"}
    BY <1>3 DEF CallInv, OfItsCall
  <2>2. CASE GetHandle(t)
    BY <1>1, <1>4, <2>1, <2>2 DEF GetHandle, Leave, Goto, WithoutHandle, Delivering
  <2>3. CASE CheckFlag(t) \/ CheckLock(t) \/ CheckWake(t)
    <3>1. pc'[t] \in {next[t], "wait", "asleep"} /\ pc[t] \in Waiting
      BY <1>1, <2>3 DEF CheckFlag, CheckLock, CheckWake, Goto, At, Waiting
    <3>2. next[t] = "handle"
      BY <1>1, <3>1, Kinds DEF TypeInv, PlaceInv, Place, Nexts
    <3> QED
      BY <1>4, <3>1, <3>2 DEF Delivering
  <2>4. CASE ReadStatus(t) \/ TestCallback(t) \/ Invoke(t)
    BY <2>4 DEF ReadStatus, TestCallback, Invoke, At, Delivering, CallbackInv
  <2> QED
    BY <2>2, <2>3, <2>4 DEF Common
<1>7. \A x \in Callers \cup Refreshers :
          pc'[x] = "invoke" => pc[x] = "invoke" \/ hdcpStatusCallback
  <2>1. l = "invoke" => hdcpStatusCallback
    <3> SUFFICES ASSUME l = "invoke" PROVE hdcpStatusCallback
      OBVIOUS
    <3>1. pc'[t] = "invoke"
      BY <1>4
    <3>2. CASE TestCallback(t)
      BY <1>1, <3>1, <3>2 DEF TestCallback, Leave, Goto, AfterDelivery
    <3>3. CASE CheckFlag(t) \/ CheckLock(t) \/ CheckWake(t)
      <4>1. pc'[t] \in {next[t], "wait", "asleep"} /\ pc[t] \in Waiting
        BY <1>1, <3>3 DEF CheckFlag, CheckLock, CheckWake, Goto, At, Waiting
      <4>2. next[t] \in {"handle", "refresh"}
        BY <1>1, <4>1 DEF TypeInv, PlaceInv, Place, Nexts
      <4> QED
        BY <3>1, <4>1, <4>2
    <3>4. CASE GetHandle(t) \/ ReadStatus(t) \/ Invoke(t)
      BY <1>1, <3>1, <3>4
         DEF GetHandle, ReadStatus, Invoke, Leave, Goto, AfterDelivery, WithoutHandle
    <3> QED
      BY <3>2, <3>3, <3>4 DEF Common
  <2> QED
    BY <1>1, <1>4, <2>1
<1>8. ~badCall'
  <2>1. CASE Invoke(t)
    BY <2>1, InvokedWhenOn DEF Invoke, CallbackInv
  <2>2. CASE \/ CheckFlag(t) \/ CheckLock(t) \/ CheckWake(t)
             \/ GetHandle(t) \/ ReadStatus(t) \/ TestCallback(t)
    BY <2>2 DEF CheckFlag, CheckLock, CheckWake, GetHandle, ReadStatus, TestCallback,
       client, CallbackInv
  <2> QED
    BY <2>1, <2>2 DEF Common
<1>9. ASSUME NEW o \in Callers
      PROVE  /\ pc'[o] \in Delivering => drmInitialized' /\ call'[o].op = "register"
             /\ Clearing(call'[o]) => ~drmInitialized'
  <2>1. pc'[o] \in Delivering => drmInitialized /\ call[o].op = "register"
    BY <1>1, <1>4, <1>6 DEF CallbackInv
  <2>2. pc'[o] \in Delivering => call'[o] = call[o]
    BY <1>4, <1>5 DEF Delivering
  <2>3. Clearing(call'[o]) => Clearing(call[o])
    BY <1>5 DEF Clearing, NoCall
  <2> QED
    BY <1>3, <2>1, <2>2, <2>3 DEF CallbackInv
<1> QED
  BY <1>3, <1>7, <1>8, <1>9 DEF CallbackInv, Clearing

LEMMA CallerCallback ==
    ASSUME ManagedAlone, TypeInv, CallInv, AliveInv, CallbackInv, NEW t \in Callers,
           CallerStep(t)
    PROVE  CallbackInv'
<1>1. t \in Threads /\ call \in [Callers -> ApiCalls \cup {NoCall}]
  BY Kinds DEF TypeInv, TypeOK
<1>2. CASE Common(t)
  BY <1>1, <1>2, CommonCallback
<1>3. ASSUME ~Common(t)
      PROVE  /\ \A o \in Callers :
                  /\ pc'[o] \in Delivering => pc[o] \in Delivering /\ call'[o] = call[o]
                  /\ Clearing(call'[o]) => Clearing(call[o])
             /\ \A x \in Callers \cup Refreshers : pc'[x] = "invoke" => pc[x] = "invoke"
             /\ badCall' = badCall
  <2>1. \A o \in Callers : o # t => pc'[o] = pc[o] /\ call'[o] = call[o]
    BY <1>1, CallerMoves
  <2>2. call'[t] = call[t] \/ call'[t] = NoCall
    BY <1>1, CallerMoves
  <2>3. pc[t] \in {"entered", "enabled"} \cup InInit \cup InTerm
    BY <1>3 DEF CallerStep, Register, EnableDisplay, EnableFlag, InitEnter, InitLock,
       InitCreate, InitNotify, InitPublish, TermEnter, TermClear, TermJoin, TermJoined, At,
       InInit, InTerm
  <2>4. pc'[t] \notin Delivering
    BY <2>3, CallerMoves DEF InInit, InTerm, CheckLabels, Delivering
  <2>5. badCall' = badCall
    BY <1>3 DEF CallerStep, Register, EnableDisplay, EnableFlag, InitEnter, InitLock,
       InitCreate, InitNotify, InitPublish, TermEnter, TermClear, TermJoin, TermJoined, client
  <2>6. \A r \in Refreshers : pc'[r] = "invoke" => pc[r] = "invoke"
    <3>1. /\ pc \in [Threads -> AllLabels]
          /\ \A r \in Refreshers : r \in Threads /\ r # t
          /\ Notifiers = {}
      BY Kinds DEF TypeInv, TypeOK, AllLabels, ManagedAlone
    <3>2. CASE \E l \in AllLabels : Goto(t, l)
      BY <3>1, <3>2 DEF Goto
    <3>3. ASSUME NEW u \in Refreshers, NEW m \in {"created", "idle"},
                 NEW l \in {"notify", "idle"}, pc' = [pc EXCEPT ![u] = m, ![t] = l]
          PROVE  \A r \in Refreshers : pc'[r] = "invoke" => pc[r] = "invoke"
      <4>1. u \in Threads /\ u # t /\ m \in AllLabels /\ l \in AllLabels
        BY <3>1 DEF AllLabels, RefreshLabels, CallerLabels
      <4>2. pc'[u] = m /\ \A o \in Threads : o # u /\ o # t => pc'[o] = pc[o]
        BY ONLY <1>1, <3>1, <3>3, <4>1, TwoPlaces
      <4> QED
        BY <3>1, <4>2
    <3>4. CASE OwnStep(t)
      <4>1. \E l \in {"check", "enabled", "idle", "initLock", "create", "termClear", "join",
                      "joining"} : Goto(t, l)
        BY <3>4 DEF OwnStep, Register, EnableDisplay, EnableFlag, InitEnter, InitLock,
           InitPublish, TermEnter, TermClear, TermJoin, CheckThen, Return
      <4> QED
        BY <3>2, <4>1 DEF AllLabels, CallerLabels, CheckLabels
    <3>5. CASE InitCreate(t) \/ InitNotify(t)
      <4>1. "notify" \in AllLabels /\ "publish" \in AllLabels
        BY DEF AllLabels, CallerLabels
      <4> QED
        BY <3>1, <3>2, <3>3, <3>5, <4>1 DEF InitCreate, InitNotify
    <3>6. CASE TermJoined(t)
      <4>1. joining[t] \in Refreshers
        BY <1>1, <3>6 DEF TypeInv, PlaceInv, Place, TermJoined, At
      <4> QED
        BY <3>3, <3>6, <4>1 DEF TermJoined
    <3> QED
      BY <1>3, <3>4, <3>5, <3>6 DEF CallerStep, OwnStep
  <2> QED
    BY <2>1, <2>2, <2>4, <2>5, <2>6 DEF Clearing, NoCall, Delivering
<1>4. CASE Register(t)
  <2>1. /\ ~Common(t) /\ UNCHANGED <<drmInitialized, call>>
        /\ hdcpStatusCallback' = call[t].arg /\ call[t].op = "register"
    BY <1>4 DEF Register, Common, CheckFlag, CheckLock, CheckWake, GetHandle, ReadStatus,
       TestCallback, Invoke, At, flags
  <2>2. CASE Clearing(call[t])
    <3>1. \A x \in Callers \cup Refreshers : pc[x] # "invoke"
      BY <2>2, ClearedWhenOff DEF Alive, Delivering
    <3> QED
      BY <1>3, <2>1, <3>1 DEF CallbackInv, Clearing
  <2>3. CASE ~Clearing(call[t])
    <3>1. hdcpStatusCallback'
      BY <2>1, <2>3 DEF Clearing
    <3> QED
      BY <1>3, <2>1, <3>1 DEF CallbackInv, Clearing
  <2> QED
    BY <2>2, <2>3
<1>5. CASE InitPublish(t)
  <2>1. call[t].op = "init" /\ call'[t] = NoCall
    BY <1>1, <1>5 DEF CallInv, OfItsCall, InitPublish, Return, At, InInit
  <2>2. \A o \in Callers : o # t => call[o].op # "register"
    BY <2>1 DEF ManagedAlone, CallInv, Apart, Overlaps
  <2>3. ~Common(t) /\ hdcpStatusCallback' = hdcpStatusCallback /\ drmInitialized'
    BY <1>5 DEF InitPublish, Common, CheckFlag, CheckLock, CheckWake, GetHandle, ReadStatus,
       TestCallback, Invoke, At
  <2>4. \A o \in Callers : ~Clearing(call'[o])
    BY <1>3, <2>1, <2>2, <2>3 DEF Clearing, NoCall
  <2> QED
    BY <1>3, <2>3, <2>4 DEF CallbackInv
<1>6. CASE TermClear(t)
  <2>1. ~Common(t) /\ hdcpStatusCallback' = hdcpStatusCallback /\ call[t].op = "term"
    BY <1>6 DEF TermClear, Common, CheckFlag, CheckLock, CheckWake, GetHandle, ReadStatus,
       TestCallback, Invoke, At, CallInv, OfItsCall, InTerm
  <2>2. \A o \in Callers : pc[o] \notin Delivering
    BY <2>1 DEF ManagedAlone, CallInv, Apart, Overlaps, CallbackInv
  <2>3. drmInitialized' = FALSE
    BY <1>6 DEF TermClear
  <2> QED
    BY <1>3, <2>1, <2>2, <2>3 DEF CallbackInv
<1>7. CASE \/ EnableDisplay(t) \/ EnableFlag(t) \/ InitEnter(t) \/ InitLock(t)
           \/ InitCreate(t) \/ InitNotify(t)
           \/ TermEnter(t) \/ TermJoin(t) \/ TermJoined(t)
  <2>1. UNCHANGED <<hdcpStatusCallback, drmInitialized>>
    BY <1>7 DEF EnableDisplay, EnableFlag, InitEnter, InitLock, InitCreate, InitNotify,
       TermEnter, TermJoin, TermJoined, flags
  <2>2. CASE ~Common(t)
    <3>1. Discreet
      BY <1>3, <2>1, <2>2 DEF Discreet
    <3> QED
      BY <3>1, DiscreetKeeps
  <2> QED
    BY <1>2, <2>2
<1> QED
  BY <1>2, <1>4, <1>5, <1>6, <1>7 DEF CallerStep

LEMMA OthersCallback ==
    ASSUME ManagedAlone, TypeInv, CallInv, AliveInv, CallbackInv,
           \/ \E r \in Refreshers : RefreshStep(r)
           \/ \E n \in Notifiers : NotifyStep(n)
           \/ WorldStep \/ UNCHANGED vars
    PROVE  CallbackInv'
<1>1. ASSUME NEW r \in Refreshers, Common(r) PROVE CallbackInv'
  BY <1>1, CommonCallback, Kinds
<1>2. ASSUME NEW r \in Refreshers,
             \/ RefreshBegin(r) \/ RefreshLoop(r) \/ RefreshSelect(r)
             \/ RefreshConnector(r) \/ RefreshDone(r)
      PROVE  CallbackInv'
  <2>1. (\A o \in Callers : pc'[o] = pc[o]) /\ call' = call
    BY <1>2, OthersMoves DEF RefreshStep
  <2>2. PICK l \in {"loop", "exited", "select", "check", "refreshed"} : Goto(r, l)
    BY <1>2 DEF RefreshBegin, RefreshLoop, RefreshSelect, RefreshConnector, RefreshDone,
       CheckThen
  <2>3. \A x \in Callers \cup Refreshers : pc'[x] = "invoke" => pc[x] = "invoke"
    BY <2>2, Kinds DEF Goto, TypeInv, TypeOK
  <2>4. hdcpStatusCallback' = hdcpStatusCallback /\ badCall' = badCall
        /\ drmInitialized' = drmInitialized
    BY <1>2 DEF RefreshBegin, RefreshLoop, RefreshSelect, RefreshConnector, RefreshDone,
       flags, client
  <2>5. Discreet
    BY <2>1, <2>3, <2>4 DEF Discreet
  <2> QED
    BY <2>5, DiscreetKeeps
<1>3. CASE WorldStep \/ UNCHANGED vars
  <2>1. UNCHANGED <<pc, call, drmInitialized, hdcpStatusCallback, badCall>>
    BY <1>3 DEF WorldStep, MoveCable, Negotiate, vars, flags, client, local
  <2> QED
    BY <2>1 DEF CallbackInv
<1> QED
  BY <1>1, <1>2, <1>3 DEF RefreshStep, ManagedAlone

LEMMA CallCallback ==
    ASSUME ManagedAlone, TypeInv, CallbackInv, NEW t \in Callers, NEW c \in Calls, Call(t, c)
    PROVE  CallbackInv'
<1>1. /\ pc \in [Threads -> AllLabels] /\ call \in [Callers -> ApiCalls \cup {NoCall}]
      /\ \A o \in Callers : o \in Threads /\ o \notin Refreshers
      /\ \A r \in Refreshers : r \in Threads /\ r \notin Callers
  BY Kinds DEF TypeInv, TypeOK, AllLabels
<1>2. /\ UNCHANGED <<drmInitialized, hdcpStatusCallback, badCall>>
      /\ call' = [call EXCEPT ![t] = c]
      /\ Clearing(c) => ~drmInitialized
  BY DEF Call, flags, Off, ManagedAlone, Clearing
<1>3. PICK l \in {"check", "entered"} : Goto(t, l)
  BY DEF Call, CheckThen
<1>4. pc'[t] = l /\ \A o \in Threads : o # t => pc'[o] = pc[o]
  BY <1>1, <1>3 DEF Goto
<1>5. call'[t] = c /\ \A o \in Callers : o # t => call'[o] = call[o]
  BY <1>1, <1>2
<1>6. \A o \in Callers : pc'[o] \in Delivering => pc[o] \in Delivering /\ call'[o] = call[o]
  BY <1>1, <1>4, <1>5 DEF Delivering
<1>7. \A o \in Callers : Clearing(call'[o]) => ~drmInitialized
  BY <1>2, <1>5 DEF CallbackInv
<1>8. \A x \in Callers \cup Refreshers : pc'[x] = "invoke" => pc[x] = "invoke"
  BY <1>1, <1>4
<1> QED
  BY <1>2, <1>6, <1>7, <1>8 DEF CallbackInv, Clearing

LEMMA CallbackInvStep ==
    ManagedAlone /\ TypeInv /\ CallInv /\ AliveInv /\ CallbackInv /\ [Next]_vars
        => CallbackInv' /\ ((\A t \in Threads : Invoke(t) => ~Off) \/ UNCHANGED vars)
<1> SUFFICES ASSUME ManagedAlone, TypeInv, CallInv, AliveInv, CallbackInv, [Next]_vars
             PROVE  CallbackInv' /\ \A t \in Threads : Invoke(t) => ~Off
  OBVIOUS
<1>1. \A t \in Threads : Invoke(t) => ~Off
  BY InvokedWhenOn
<1>2. CallbackInv'
  BY OthersCallback, CallerCallback, CallCallback DEF Next, Finished
<1> QED
  BY <1>1, <1>2

LEMMA InitCallback == ManagedAlone /\ Init => CallbackInv
<1> SUFFICES ASSUME ManagedAlone, Init PROVE CallbackInv
  OBVIOUS
<1>1. (\A t \in Threads : pc[t] = "idle") /\ \A t \in Callers : call[t] = NoCall
  BY DEF Init
<1> QED
  BY <1>1, Kinds DEF Init, CallbackInv, Delivering, Clearing, NoCall

\* Everything that holds of a client that manages the port from one thread at a time.
LEMMA Managed ==
    ASSUME ManagedAlone
    PROVE  Spec => [](TypeInv /\ CallInv /\ AliveInv /\ CallbackInv)
BY ManagedSwitch, InitTypes, InitAlive, InitCallback, NextTypes, ReadyStep, CallInvStep,
   AliveInvStep, CallbackInvStep, PTL DEF Spec

\* Once dsVideoPortTerm has returned the client is called no more, neither by the
\* refresh thread nor by its own registration of a callback, for any number of threads,
\* calls and events: if one call at a time switches the port or changes the callback,
\* the callback is cleared only while the port is off, and there is no boot-time
\* notifier (which does call: run port_outlive).
THEOREM QuietAfterTerm ==
    ASSUME ManagedAlone
    PROVE  Spec => SilentAfterTerm
<1>1. Spec => [](TypeInv /\ CallInv /\ AliveInv /\ CallbackInv)
  BY Managed
<1>2. TypeInv /\ CallInv /\ AliveInv /\ CallbackInv /\ [Next]_vars
        => [\A t \in Threads : Invoke(t) => ~Off]_vars
  BY CallbackInvStep
<1> QED
  BY <1>1, <1>2, PTL DEF Spec, SilentAfterTerm

\* The second read of hdcpStatusCallback finds what the first has found, under the same
\* assumptions, the one that matters here being that the callback is cleared only while
\* the port is off.
THEOREM NeverCallsNull ==
    ASSUME ManagedAlone
    PROVE  Spec => []NoNullCall
<1>1. CallbackInv => NoNullCall
  BY DEF CallbackInv, NoNullCall
<1> QED
  BY <1>1, Managed, PTL
=============================================================================
