------------------------ MODULE DisplayHotplugProofs ------------------------
(* Theorems about DisplayHotplug, for any number of threads and events. *)
EXTENDS DisplayHotplug, TLAPS

(***************************************************************************)
(* The invariant, in the order in which its parts rest on each other: no   *)
(* more events wait than were raised; dsDisplayTerm joins the only thread  *)
(* there is (ThreadInv); that thread remembers in wasConnected what it has *)
(* told or is about to tell (ToldInv), what it remembers is the cable when *)
(* no event waits (CableInv), and the audio HAL was told first (AudioInv). *)
(***************************************************************************)
Delivering == {"audio", "tell", "invoke"}
WithoutHandle == {"wait", "asleep", "handle"}

TypeInv == TypeOK /\ \A h \in Hotplugs : pending[h] <= raised

ThreadInv ==
    /\ \A h \in Hotplugs :
         pc[h] # "idle" => manager # "off" /\ h = ds_hpd_threadId
    /\ manager \in {"off", "termJoin"} => ~_halcallback

ToldInv ==
    /\ ~repeated
    /\ manager = "on" /\ ~_halcallback => told = "nothing"
    /\ \A h \in Hotplugs :
         /\ pc[h] = "created" => told = "nothing"
         /\ pc[h] \in Delivering => isConnected[h] = wasConnected[h]
         /\ Listening(h) /\ _halcallback /\ told # "nothing"
              => (pc[h] \in Delivering <=> (told = "connected") # wasConnected[h])

CableInv ==
    \A h \in Hotplugs :
        /\ pc[h] \in WithoutHandle => ~videoPort[h]
        /\ pc[h] \in Delivering \cup {"read"} => videoPort[h]
        /\ Listening(h) /\ (told # "nothing" \/ pc[h] \in Delivering)
             => /\ videoPort[h]
                /\ pending[h] = 0 /\ pc[h] \notin {"change", "read"}
                     => wasConnected[h] = plugged

AudioInv ==
    \A h \in Hotplugs :
        audio # "stale" =>
            /\ pc[h] \in {"tell", "invoke"} => (audio = "on") = isConnected[h]
            /\ Listening(h) /\ pc[h] \notin {"tell", "invoke"}
                 /\ told # "nothing" /\ _halcallback
                 => (audio = "on") = (told = "connected")

HotplugInv == TypeInv /\ ThreadInv /\ ToldInv /\ CableInv /\ AudioInv

\* The module starts switched off, without thread, callback or event.
LEMMA InitHotplug == Init => HotplugInv
<1> SUFFICES ASSUME Init PROVE HotplugInv
  OBVIOUS
<1>1. /\ pc = [h \in Hotplugs |-> "idle"] /\ \A h \in Hotplugs : ~Listening(h)
      /\ _halcallback = FALSE /\ manager = "off" /\ repeated = FALSE
  BY DEF Init, All, Listening
<1>2. TypeInv
  <2>1. /\ pc \in [Hotplugs -> HotplugLabels] /\ pending \in [Hotplugs -> 0..MaxEvents]
        /\ \A h \in Hotplugs : pending[h] <= raised
    BY DisplayAssumption DEF Init, All, HotplugLabels
  <2>2. /\ videoPort \in [Hotplugs -> BOOLEAN] /\ isConnected \in [Hotplugs -> BOOLEAN]
        /\ wasConnected \in [Hotplugs -> BOOLEAN]
    BY DEF Init, All
  <2>3. inits \in 0..MaxInits /\ raised \in 0..MaxEvents /\ portInits \in 0..MaxPortInits
    BY DisplayAssumption DEF Init
  <2> QED
    BY <2>1, <2>2, <2>3 DEF Init, TypeInv, TypeOK
<1>3. ThreadInv /\ ToldInv
  BY <1>1 DEF ThreadInv, ToldInv, Delivering
<1>4. CableInv /\ AudioInv
  BY <1>1 DEF CableInv, AudioInv, Delivering, WithoutHandle
<1> QED
  BY <1>2, <1>3, <1>4 DEF HotplugInv

\* Every step keeps the types and the count of the events.
LEMMA NextType == TypeInv /\ [Next]_vars => TypeInv'
<1> SUFFICES ASSUME TypeInv, [Next]_vars PROVE TypeInv'
  OBVIOUS
<1> USE DisplayAssumption
    DEF TypeInv, TypeOK, vars, CanFail, shared, local, port, world, seen, At, Goto, Set
<1>1. CASE ManagerStep
  <2>1. CASE DisplayInit
    <3>1. /\ isMonitoringAlive' = TRUE /\ manager' = "on" /\ inits' \in 0..MaxInits
          /\ told' = "nothing" /\ pulled' = FALSE
          /\ UNCHANGED <<_halcallback, pending, world, audio, repeated>>
      BY <2>1 DEF DisplayInit
    <3>2. /\ ds_hpd_threadId' \in Hotplugs \cup {NoThread}
          /\ pc' \in [Hotplugs -> HotplugLabels]
          /\ videoPort' \in [Hotplugs -> BOOLEAN]
          /\ isConnected' \in [Hotplugs -> BOOLEAN]
          /\ wasConnected' \in [Hotplugs -> BOOLEAN]
      BY <2>1 DEF DisplayInit, HotplugLabels
    <3> QED
      BY <3>1, <3>2
  <2>2. CASE RegisterCallback \/ TermStop
    <3>1. /\ isMonitoringAlive' \in BOOLEAN /\ _halcallback' \in BOOLEAN
          /\ manager' \in {"on", "termClear"}
          /\ UNCHANGED <<ds_hpd_threadId, pc, local, pending, world, audio, seen, inits>>
      BY <2>2 DEF RegisterCallback, TermStop
    <3> QED
      BY <3>1
  <2> QED
    BY <1>1, <2>1, <2>2 DEF ManagerStep
<1>2. CASE TermStep
  <2>1. /\ manager' \in {"off", "termJoin"} /\ _halcallback' \in BOOLEAN
        /\ UNCHANGED <<isMonitoringAlive, ds_hpd_threadId, local, pending, world,
                      audio, seen, inits>>
    BY <1>2 DEF TermStep, TermClear, TermJoin
  <2>2. pc' \in [Hotplugs -> HotplugLabels]
    BY <1>2 DEF TermStep, TermClear, TermJoin, HotplugLabels
  <2> QED
    BY <2>1, <2>2
<1>3. ASSUME NEW h \in Hotplugs, HotplugStep(h)
      PROVE  TypeInv'
  <2>1. pc' \in [Hotplugs -> HotplugLabels]
    <3>1. \E l \in HotplugLabels : Goto(h, l)
      BY <1>3 DEF HotplugStep, HotplugLabels, Begin, Loop, Select, Change, Wait, Wake,
         GetHandle, Read, NotifyAudio, TestCallback, Invoke
    <3> QED
      BY <3>1
  <2>2. /\ pending' \in [Hotplugs -> 0..MaxEvents]
        /\ \A o \in Hotplugs : pending'[o] <= raised
    <3>1. \/ UNCHANGED pending
          \/ pending' = Set(pending, h, 0)
          \/ pending[h] > 0 /\ pending' = Set(pending, h, pending[h] - 1)
      BY <1>3 DEF HotplugStep, Begin, Loop, Select, Change, Wait, Wake,
         GetHandle, Read, NotifyAudio, TestCallback, Invoke
    <3> QED
      BY <3>1
  <2>3. /\ videoPort' \in [Hotplugs -> BOOLEAN]
        /\ isConnected' \in [Hotplugs -> BOOLEAN]
        /\ wasConnected' \in [Hotplugs -> BOOLEAN]
    <3>1. CASE GetHandle(h) \/ Read(h)
      BY <3>1 DEF GetHandle, Read
    <3>2. CASE UNCHANGED local
      BY <3>2
    <3> QED
      BY <1>3, <3>1, <3>2 DEF HotplugStep, Begin, Loop, Select, Change, Wait, Wake,
         NotifyAudio, TestCallback, Invoke
  <2>4. /\ audio' \in {"on", "off", "stale"}
        /\ told' \in {"nothing", "connected", "disconnected"}
        /\ repeated' \in BOOLEAN
        /\ UNCHANGED <<shared, manager, world, pulled, inits>>
    BY <1>3 DEF HotplugStep, Begin, Loop, Select, Change, Wait, Wake,
       GetHandle, Read, NotifyAudio, TestCallback, Invoke
  <2> QED
    BY <2>1, <2>2, <2>3, <2>4
<1>4. CASE MoveCable
  <2>1. /\ raised' = raised + 1 /\ raised < MaxEvents
        /\ plugged' \in BOOLEAN /\ pulled' \in BOOLEAN
        /\ UNCHANGED <<shared, manager, pc, local, port, audio, told, repeated,
                      inits>>
    BY <1>4 DEF MoveCable
  <2>2. /\ pending' \in [Hotplugs -> 0..MaxEvents]
        /\ \A o \in Hotplugs : pending'[o] <= raised'
    BY <1>4 DEF MoveCable
  <2> QED
    BY <2>1, <2>2
<1>5. CASE PortBegins \/ PortPublishes \/ PortClears
  <2>1. /\ busy' \in BOOLEAN /\ drmInitialized' \in BOOLEAN
        /\ portInits' \in 0..MaxPortInits
    <3>1. CASE PortBegins
      BY <3>1 DEF PortBegins, Port!Begin
    <3>2. CASE PortPublishes
      BY <3>2 DEF PortPublishes, Port!Publish
    <3>3. CASE PortClears
      BY <3>3 DEF PortClears, Port!Clear
    <3> QED
      BY <1>5, <3>1, <3>2, <3>3
  <2>2. /\ UNCHANGED <<isMonitoringAlive, ds_hpd_threadId, _halcallback, manager, pc>>
        /\ UNCHANGED <<videoPort, isConnected, wasConnected, pending, plugged>>
        /\ UNCHANGED <<raised, audio, told, pulled, repeated, inits>>
    BY <1>5 DEF PortBegins, PortPublishes, PortClears
  <2> QED
    BY <2>1, <2>2
<1>6. CASE Finished \/ UNCHANGED vars
  <2>1. /\ UNCHANGED <<isMonitoringAlive, ds_hpd_threadId, _halcallback, manager, pc>>
        /\ UNCHANGED <<videoPort, isConnected, wasConnected, pending, plugged, busy>>
        /\ UNCHANGED <<drmInitialized, audio, told, pulled, repeated, inits, raised,
                      portInits>>
    BY <1>6 DEF Finished
  <2> QED
    BY <2>1
<1> HIDE DEF TypeInv, TypeOK, vars
<1> QED
  BY <1>1, <1>2, <1>3, <1>4, <1>5, <1>6 DEF Next, WorldStep

\* Every step leaves at most the thread that dsDisplayTerm will join, and a
\* callback only between dsDisplayInit and dsDisplayTerm.
LEMMA NextThread == TypeInv /\ ThreadInv /\ [Next]_vars => ThreadInv'
<1> SUFFICES ASSUME TypeInv, ThreadInv, [Next]_vars PROVE ThreadInv'
  OBVIOUS
<1>1. /\ pc \in [Hotplugs -> HotplugLabels]
      /\ NoThread \notin Hotplugs
  BY DisplayAssumption DEF TypeInv, TypeOK
<1> USE <1>1 DEF ThreadInv, vars, shared, local, port, world, seen, At, Goto
<1>2. CASE ManagerStep
  BY <1>2 DEF ManagerStep, DisplayInit, RegisterCallback, TermStop
<1>3. CASE TermStep
  BY <1>3 DEF TermStep, TermClear, TermJoin
<1>4. ASSUME NEW h \in Hotplugs, HotplugStep(h)
      PROVE  ThreadInv'
  <2>1. /\ pc[h] # "idle" /\ UNCHANGED <<shared, manager>>
        /\ \A o \in Hotplugs : o # h => pc'[o] = pc[o]
    BY <1>4 DEF HotplugStep, Begin, Loop, Select, Change, Wait, Wake, GetHandle,
       Read, NotifyAudio, TestCallback, Invoke
  <2> QED
    BY <2>1
<1>5. CASE WorldStep \/ Finished \/ UNCHANGED vars
  BY <1>5 DEF WorldStep, MoveCable, PortBegins, PortPublishes, PortClears, Finished
<1> QED
  BY <1>2, <1>3, <1>4, <1>5 DEF Next

\* A step of a thread is the step of the only thread there is.
LEMMA OnlyThread ==
    ASSUME TypeInv, ThreadInv, NEW h \in Hotplugs, HotplugStep(h)
    PROVE  /\ pc[h] # "idle" /\ UNCHANGED <<shared, manager, world, inits, pulled>>
           /\ \A o \in Hotplugs : o # h => pc'[o] = "idle"
<1>1. /\ pc[h] # "idle" /\ UNCHANGED <<shared, manager, world, inits, pulled>>
      /\ \A o \in Hotplugs : o # h => pc'[o] = pc[o]
  BY DEF HotplugStep, Begin, Loop, Select, Change, Wait, Wake, GetHandle, Read,
     NotifyAudio, TestCallback, Invoke, TypeInv, TypeOK, At, Goto, seen
<1> QED
  BY <1>1 DEF ThreadInv

\* The steps that leave the threads, the client's view and the audio HAL alone.
LEMMA AsideSteps ==
    RegisterCallback \/ TermStop \/ TermClear \/ PortBegins \/ PortPublishes
      \/ PortClears \/ Finished \/ UNCHANGED vars
        => UNCHANGED <<pc, local, audio, told, pending, plugged, repeated>>
<1> USE DEF local, vars, world, seen
<1>1. CASE RegisterCallback \/ TermStop \/ TermClear
  BY <1>1 DEF RegisterCallback, TermStop, TermClear
<1>2. CASE PortBegins \/ PortPublishes \/ PortClears
  BY <1>2 DEF PortBegins, PortPublishes, PortClears
<1>3. CASE Finished \/ UNCHANGED vars
  BY <1>3 DEF Finished
<1> QED
  BY <1>1, <1>2, <1>3

\* Every step keeps the agreement of wasConnected and the last event told.
LEMMA NextTold == TypeInv /\ ThreadInv /\ ToldInv /\ [Next]_vars => ToldInv'
<1> SUFFICES ASSUME TypeInv, ThreadInv, ToldInv, [Next]_vars PROVE ToldInv'
  OBVIOUS
<1>1. /\ pc \in [Hotplugs -> HotplugLabels] /\ _halcallback \in BOOLEAN
      /\ isConnected \in [Hotplugs -> BOOLEAN]
      /\ wasConnected \in [Hotplugs -> BOOLEAN]
      /\ told \in {"nothing", "connected", "disconnected"}
      /\ plugged \in BOOLEAN /\ NoThread \notin Hotplugs
  BY DisplayAssumption DEF TypeInv, TypeOK
<1> USE <1>1 DEF At, Goto, Set, local, world, seen, Delivering, Listening
<1>2. ASSUME NEW h \in Hotplugs, HotplugStep(h)
      PROVE  ToldInv'
  <2>1. /\ pc[h] # "idle" /\ UNCHANGED <<manager, _halcallback>>
        /\ \A o \in Hotplugs : o # h => pc'[o] = "idle"
    BY <1>2, OnlyThread DEF shared
  <2>2. CASE Begin(h) \/ Loop(h) \/ Select(h)
    BY <2>1, <2>2 DEF Begin, Loop, Select, ToldInv
  <2>3. CASE Change(h) \/ Wait(h) \/ Wake(h)
    BY <2>1, <2>3 DEF Change, Wait, Wake, ToldInv
  <2>4. CASE GetHandle(h) \/ NotifyAudio(h)
    BY <2>1, <2>4 DEF GetHandle, NotifyAudio, ToldInv
  <2>5. CASE Read(h)
    BY <2>1, <2>5 DEF Read, ToldInv
  <2>6. CASE TestCallback(h)
    BY <2>1, <2>6 DEF TestCallback, ToldInv, ThreadInv
  <2>7. CASE Invoke(h)
    BY <2>1, <2>7 DEF Invoke, ToldInv, ThreadInv
  <2> QED
    BY <1>2, <2>2, <2>3, <2>4, <2>5, <2>6, <2>7 DEF HotplugStep
<1>3. CASE DisplayInit
  BY <1>3 DEF DisplayInit, ToldInv, ThreadInv
<1>4. CASE RegisterCallback \/ TermStop \/ TermClear
  BY <1>4, AsideSteps DEF RegisterCallback, TermStop, TermClear, ToldInv
<1>5. CASE TermJoin
  BY <1>5 DEF TermJoin, ToldInv, ThreadInv, shared
<1>6. CASE PortBegins \/ PortPublishes \/ PortClears \/ Finished \/ UNCHANGED vars
  <2>1. UNCHANGED <<_halcallback, manager>>
    BY <1>6 DEF PortBegins, PortPublishes, PortClears, Finished, vars, shared
  <2> QED
    BY <1>6, <2>1, AsideSteps DEF ToldInv
<1>7. CASE MoveCable
  BY <1>7 DEF MoveCable, ToldInv, shared
<1> QED
  BY <1>2, <1>3, <1>4, <1>5, <1>6, <1>7
  DEF Next, ManagerStep, TermStep, WorldStep

\* Every step keeps the agreement of wasConnected and the cable.
LEMMA NextCable ==
    TypeInv /\ ThreadInv /\ ToldInv /\ CableInv /\ [Next]_vars => CableInv'
<1> SUFFICES ASSUME TypeInv, ThreadInv, ToldInv, CableInv, [Next]_vars
             PROVE  CableInv'
  OBVIOUS
<1>1. /\ pc \in [Hotplugs -> HotplugLabels]
      /\ videoPort \in [Hotplugs -> BOOLEAN]
      /\ wasConnected \in [Hotplugs -> BOOLEAN]
      /\ pending \in [Hotplugs -> Nat]
      /\ plugged \in BOOLEAN /\ NoThread \notin Hotplugs
  BY DisplayAssumption DEF TypeInv, TypeOK
<1> USE <1>1
    DEF At, Goto, Set, local, world, seen, Delivering, WithoutHandle, Listening
<1>2. ASSUME NEW h \in Hotplugs, HotplugStep(h)
      PROVE  CableInv'
  <2>1. /\ pc[h] # "idle" /\ UNCHANGED <<plugged, drmInitialized>>
        /\ \A o \in Hotplugs : o # h => pc'[o] = "idle"
    BY <1>2, OnlyThread DEF port
  <2>2. CASE Begin(h)
    BY <2>1, <2>2 DEF Begin, CableInv, ToldInv
  <2>3. CASE Loop(h) \/ Select(h)
    BY <2>1, <2>3 DEF Loop, Select, CableInv
  <2>4. CASE Change(h) \/ Wait(h) \/ Wake(h)
    BY <2>1, <2>4 DEF Change, Wait, Wake, CableInv
  <2>5. CASE GetHandle(h)
    BY <2>1, <2>5 DEF GetHandle, CableInv
  <2>6. CASE Read(h)
    BY <2>1, <2>6 DEF Read, CableInv
  <2>7. CASE NotifyAudio(h) \/ TestCallback(h)
    BY <2>1, <2>7 DEF NotifyAudio, TestCallback, CableInv
  <2>8. CASE Invoke(h)
    BY <2>1, <2>8 DEF Invoke, CableInv
  <2> QED
    BY <1>2, <2>2, <2>3, <2>4, <2>5, <2>6, <2>7, <2>8 DEF HotplugStep
<1>3. CASE DisplayInit
  BY <1>3 DEF DisplayInit, CableInv, ThreadInv
<1>4. CASE TermJoin
  BY <1>4 DEF TermJoin, CableInv
<1>5. CASE \/ RegisterCallback \/ TermStop \/ TermClear
           \/ PortBegins \/ PortPublishes \/ PortClears
           \/ Finished \/ UNCHANGED vars
  BY <1>5, AsideSteps DEF CableInv
<1>6. CASE MoveCable
  BY <1>6 DEF MoveCable, CableInv
<1> QED
  BY <1>2, <1>3, <1>4, <1>5, <1>6
  DEF Next, ManagerStep, TermStep, WorldStep

\* Every step keeps the agreement of the audio HAL and the last event told.
LEMMA NextAudio ==
    TypeInv /\ ThreadInv /\ ToldInv /\ AudioInv /\ [Next]_vars => AudioInv'
<1> SUFFICES ASSUME TypeInv, ThreadInv, ToldInv, AudioInv, [Next]_vars
             PROVE  AudioInv'
  OBVIOUS
<1>1. /\ pc \in [Hotplugs -> HotplugLabels] /\ _halcallback \in BOOLEAN
      /\ isConnected \in [Hotplugs -> BOOLEAN]
      /\ wasConnected \in [Hotplugs -> BOOLEAN]
      /\ told \in {"nothing", "connected", "disconnected"}
      /\ NoThread \notin Hotplugs
  BY DisplayAssumption DEF TypeInv, TypeOK
<1> USE <1>1 DEF At, Goto, Set, local, world, seen, Listening
<1>2. ASSUME NEW h \in Hotplugs, HotplugStep(h)
      PROVE  AudioInv'
  <2>1. /\ pc[h] # "idle" /\ UNCHANGED <<manager, _halcallback>>
        /\ \A o \in Hotplugs : o # h => pc'[o] = "idle"
    BY <1>2, OnlyThread DEF shared
  <2>2. CASE Begin(h)
    BY <2>1, <2>2 DEF Begin, AudioInv, ToldInv
  <2>3. CASE Loop(h) \/ Select(h)
    BY <2>1, <2>3 DEF Loop, Select, AudioInv
  <2>4. CASE Change(h) \/ Wait(h) \/ Wake(h)
    BY <2>1, <2>4 DEF Change, Wait, Wake, AudioInv
  <2>5. CASE GetHandle(h) \/ Read(h)
    BY <2>1, <2>5 DEF GetHandle, Read, AudioInv
  <2>6. CASE NotifyAudio(h)
    BY <2>1, <2>6 DEF NotifyAudio, AudioInv
  <2>7. CASE TestCallback(h)
    BY <2>1, <2>7 DEF TestCallback, AudioInv
  <2>8. CASE Invoke(h)
    BY <2>1, <2>8 DEF Invoke, AudioInv
  <2> QED
    BY <1>2, <2>2, <2>3, <2>4, <2>5, <2>6, <2>7, <2>8 DEF HotplugStep
<1>3. CASE DisplayInit
  BY <1>3 DEF DisplayInit, AudioInv, ThreadInv
<1>4. CASE RegisterCallback \/ TermStop \/ TermClear
  BY <1>4, AsideSteps DEF RegisterCallback, TermStop, TermClear, AudioInv, ToldInv
<1>5. CASE TermJoin
  BY <1>5 DEF TermJoin, AudioInv, shared
<1>6. CASE PortBegins \/ PortPublishes \/ PortClears \/ Finished \/ UNCHANGED vars
  <2>1. UNCHANGED _halcallback
    BY <1>6 DEF PortBegins, PortPublishes, PortClears, Finished, vars, shared
  <2> QED
    BY <1>6, <2>1, AsideSteps DEF AudioInv
<1>7. CASE MoveCable
  BY <1>7 DEF MoveCable, AudioInv, shared
<1> QED
  BY <1>2, <1>3, <1>4, <1>5, <1>6, <1>7
  DEF Next, ManagerStep, TermStep, WorldStep

\* The five parts together are an invariant.
LEMMA HotplugInvariant == Spec => []HotplugInv
<1>1. HotplugInv /\ [Next]_vars => HotplugInv'
  BY NextType, NextThread, NextTold, NextCable, NextAudio DEF HotplugInv
<1> QED
  BY InitHotplug, <1>1, PTL DEF Spec

\* The variables of dsDisplay.c, of its threads and of the client have their types.
THEOREM HotplugTypes == Spec => []TypeOK
<1>1. HotplugInv => TypeOK
  BY DEF HotplugInv, TypeInv
<1> QED
  BY <1>1, HotplugInvariant, PTL

\* dsDisplayTerm returns with no thread left and no callback registered, however
\* often the module was initialised and wherever the thread was.
THEOREM SilentWhenOff == Spec => []TermIsSilent
<1>1. HotplugInv => TermIsSilent
  BY DEF HotplugInv, ThreadInv, TermIsSilent, At
<1> QED
  BY <1>1, HotplugInvariant, PTL

\* ds_hotplug_thread never delivers the same event twice in a row.
THEOREM NeverTwice == Spec => []EventsAlternate
<1>1. HotplugInv => EventsAlternate
  BY DEF HotplugInv, ToldInv, EventsAlternate
<1> QED
  BY <1>1, HotplugInvariant, PTL

\* When the thread has handled every event, the last one it told is the cable.
THEOREM LastEventIsCable == Spec => []ToldIsPlugged
<1>1. HotplugInv => ToldIsPlugged
  <2> SUFFICES ASSUME HotplugInv, NEW h \in Hotplugs, Settled(h), told # "nothing"
               PROVE  (told = "connected") = plugged
    BY DEF ToldIsPlugged
  <2>1. /\ manager = "on" /\ pc[h] = "select" /\ pending[h] = 0
        /\ Listening(h) /\ pc[h] \notin Delivering
    BY DEF Settled, At, Listening, Delivering
  <2>2. _halcallback
    BY <2>1 DEF HotplugInv, ToldInv
  <2>3. wasConnected[h] = plugged
    BY <2>1 DEF HotplugInv, CableInv
  <2>4. ~((told = "connected") # wasConnected[h])
    BY <2>1, <2>2 DEF HotplugInv, ToldInv
  <2> QED
    BY <2>3, <2>4
<1> QED
  BY <1>1, HotplugInvariant, PTL

\* When the thread has handled every event, the audio HAL knows the last one it
\* told, unless it refused that notification.
THEOREM AudioFollows == Spec => []AudioIsTold
<1>1. HotplugInv => AudioIsTold
  BY DEF HotplugInv, ToldInv, AudioInv, AudioIsTold, Settled, At, Listening
<1> QED
  BY <1>1, HotplugInvariant, PTL
=============================================================================
