--------------------------- MODULE DisplayHotplug ---------------------------
(***************************************************************************)
(* Delivery of the HDMI hotplug events (dsDisplay.c).                      *)
(*                                                                         *)
(* dsDisplayInit starts ds_hotplug_thread, dsDisplayTerm stops and joins   *)
(* it; isMonitoringAlive and _halcallback are shared without a lock.  The  *)
(* thread wakes up at the "change" events of DRM, reads the state of the   *)
(* cable, and tells the audio HAL and then the client when it has changed. *)
(* Before its first reading it needs a handle of the video port and waits  *)
(* in CHECK_DRM_INITIALIZE: the module is composed with PortReadiness, the *)
(* video port as it is seen from there, which comes and goes.              *)
(***************************************************************************)
EXTENDS Naturals

CONSTANTS
    Hotplugs,    \* pool of identities for ds_hotplug_thread
    NoThread,    \* the thread id -1
    Faulty,      \* what may fail: "thread", "udev", "audio"
    MaxInits, MaxEvents,  \* bounds on dsDisplayInit and on the events
    MaxPortInits          \* bound on dsVideoPortInit

ASSUME DisplayAssumption ==
    /\ NoThread \notin Hotplugs
    /\ Faulty \subseteq {"thread", "udev", "audio"}
    /\ MaxInits \in Nat /\ MaxEvents \in Nat /\ MaxPortInits \in Nat

VARIABLES
    isMonitoringAlive, ds_hpd_threadId,
    _halcallback,   \* a callback is registered
    manager,        \* where the client thread that calls the API is
    pc,             \* where each hotplug thread is
    videoPort,      \* its videoPortHandle is not 0
    isConnected, wasConnected,   \* its local variables
    pending,        \* events waiting in its monitor
    plugged,        \* the world: HDMI has a cable
    busy, drmInitialized,   \* the video port: see PortReadiness
    audio,          \* the audio HAL: HDMI is "on" or "off" as an output device, or
                    \* "stale" since it has refused the last notification
    told,           \* the client: last event since dsDisplayInit
    pulled,         \* history: the cable was pulled and is out, with the client
                    \* registered and the thread listening
    repeated,       \* history: the same event was delivered twice in a row
    inits, raised, portInits   \* bounds

shared == <<isMonitoringAlive, ds_hpd_threadId, _halcallback>>
local  == <<videoPort, isConnected, wasConnected>>
port   == <<busy, drmInitialized, portInits>>
world  == <<plugged, raised, port>>
seen   == <<told, pulled, repeated>>
vars == <<shared, manager, pc, local, pending, world, audio, seen, inits>>

At(h, l) == pc[h] = l
Goto(h, l) == pc' = [pc EXCEPT ![h] = l]
CanFail(f) == f \in Faulty
Listening(h) == pc[h] \notin {"idle", "created", "exited"}
\* The thread listens and has handled every event.
Settled(h) == manager = "on" /\ At(h, "select") /\ pending[h] = 0

Port == INSTANCE PortReadiness

Set(f, h, v) == [f EXCEPT ![h] = v]
All(v) == [h \in Hotplugs |-> v]

Init ==
    /\ isMonitoringAlive = FALSE /\ ds_hpd_threadId = NoThread
    /\ _halcallback = FALSE
    /\ manager = "off" /\ pc = All("idle")
    /\ videoPort = All(FALSE) /\ isConnected = All(FALSE)
    /\ wasConnected = All(FALSE) /\ pending = All(0)
    /\ plugged \in BOOLEAN /\ audio = "off"
    /\ busy = FALSE /\ drmInitialized \in BOOLEAN
    /\ told = "nothing" /\ pulled = FALSE /\ repeated = FALSE
    /\ inits = 0 /\ raised = 0 /\ portInits = 0

-----------------------------------------------------------------------------
(* The client calls Init and Term in turn, and registers in between. *)

DisplayInit ==
    /\ manager = "off" /\ inits < MaxInits
    /\ inits' = inits + 1
    /\ manager' = "on"
    /\ told' = "nothing" /\ pulled' = FALSE
    /\ isMonitoringAlive' = TRUE
    /\ \/ \E h \in Hotplugs :
            /\ At(h, "idle")
            /\ ds_hpd_threadId' = h
            /\ Goto(h, "created")
            /\ videoPort' = Set(videoPort, h, FALSE)
            /\ isConnected' = Set(isConnected, h, FALSE)
            /\ wasConnected' = Set(wasConnected, h, FALSE)
       \/ /\ CanFail("thread")
          /\ ds_hpd_threadId' = NoThread
          /\ UNCHANGED <<pc, local>>
    /\ UNCHANGED <<_halcallback, pending, world, audio, repeated>>

RegisterCallback ==
    /\ manager = "on"
    /\ _halcallback' = TRUE
    /\ UNCHANGED <<isMonitoringAlive, ds_hpd_threadId, manager, pc, local,
                   pending, world, audio, seen, inits>>

\* Mutant of TermStop: the thread is not told to end.
UnstoppedTerm ==
    /\ manager = "on"
    /\ manager' = "termClear"
    /\ UNCHANGED <<shared, pc, local, pending, world, audio, seen, inits>>

TermStop ==
    /\ manager = "on"
    /\ isMonitoringAlive' = FALSE
    /\ manager' = "termClear"
    /\ UNCHANGED <<ds_hpd_threadId, _halcallback, pc, local, pending, world,
                   audio, seen, inits>>

TermClear ==
    /\ manager = "termClear"
    /\ _halcallback' = FALSE
    /\ manager' = "termJoin"
    /\ UNCHANGED <<isMonitoringAlive, ds_hpd_threadId, pc, local, pending,
                   world, audio, seen, inits>>

\* Mutant of TermJoin: the thread is not joined.
UnjoinedTerm ==
    /\ manager = "termJoin"
    /\ manager' = "off"
    /\ UNCHANGED <<shared, pc, local, pending, world, audio, seen, inits>>

\* There is nothing to join if the thread was never created.
TermJoin ==
    /\ manager = "termJoin"
    /\ \/ ds_hpd_threadId = NoThread /\ UNCHANGED pc
       \/ /\ ds_hpd_threadId # NoThread
          /\ At(ds_hpd_threadId, "exited")
          /\ Goto(ds_hpd_threadId, "idle")
    /\ manager' = "off"
    /\ UNCHANGED <<shared, local, pending, world, audio, seen, inits>>

-----------------------------------------------------------------------------
(* ds_hotplug_thread *)

Begin(h) ==
    /\ At(h, "created")
    /\ \/ Goto(h, "loop")
       \/ CanFail("udev") /\ Goto(h, "exited")
    /\ UNCHANGED <<shared, manager, local, pending, world, audio, seen, inits>>

Loop(h) ==
    /\ At(h, "loop")
    /\ Goto(h, IF isMonitoringAlive THEN "select" ELSE "exited")
    /\ pending' = IF isMonitoringAlive THEN pending ELSE Set(pending, h, 0)
    /\ UNCHANGED <<shared, manager, local, world, audio, seen, inits>>

\* Mutant of Select: the time-out is taken for an event.
UntestedSelect(h) ==
    /\ At(h, "select")
    /\ Goto(h, "change")
    /\ pending' = Set(pending, h, pending[h] - 1)
    /\ UNCHANGED <<shared, manager, local, world, audio, seen, inits>>

\* Mutant of Select: the event is not received from the monitor.
UnreceivedSelect(h) ==
    /\ At(h, "select")
    /\ Goto(h, IF pending[h] > 0 THEN "change" ELSE "loop")
    /\ UNCHANGED <<shared, manager, local, pending, world, audio, seen, inits>>

\* An event, or the time-out of select.
Select(h) ==
    /\ At(h, "select")
    /\ IF pending[h] > 0
       THEN Goto(h, "change") /\ pending' = Set(pending, h, pending[h] - 1)
       ELSE Goto(h, "loop") /\ UNCHANGED pending
    /\ UNCHANGED <<shared, manager, local, world, audio, seen, inits>>

\* A thread without a handle asks dsGetVideoPort for one, whose check goes on if
\* the port is initialised.
Change(h) ==
    /\ At(h, "change")
    /\ Goto(h, IF videoPort[h] THEN "read" ELSE IF drmInitialized THEN "handle"
                                                                 ELSE "wait")
    /\ UNCHANGED <<shared, manager, local, pending, world, audio, seen, inits>>

\* CHECK_DRM_INITIALIZE takes initLock; pthread_cond_timedwait releases it.
Wait(h) ==
    /\ At(h, "wait") /\ ~busy
    /\ Goto(h, IF drmInitialized THEN "handle" ELSE "asleep")
    /\ UNCHANGED <<shared, manager, local, pending, world, audio, seen, inits>>

\* Signalled, or after a second, once initLock is free again.
Wake(h) ==
    /\ At(h, "asleep") /\ ~busy
    /\ Goto(h, "handle")
    /\ UNCHANGED <<shared, manager, local, pending, world, audio, seen, inits>>

\* The second half of dsGetVideoPort.  Without a handle the event is lost.
GetHandle(h) ==
    /\ At(h, "handle")
    /\ videoPort' = Set(videoPort, h, drmInitialized)
    /\ Goto(h, IF drmInitialized THEN "read" ELSE "loop")
    /\ UNCHANGED <<shared, manager, isConnected, wasConnected, pending, world,
                   audio, seen, inits>>

\* Mutant of Read: no comparison with what was told last.
UncomparedRead(h) ==
    /\ At(h, "read")
    /\ isConnected' = Set(isConnected, h, plugged)
    /\ wasConnected' = Set(wasConnected, h, plugged)
    /\ Goto(h, "audio")
    /\ UNCHANGED <<shared, manager, videoPort, pending, world, audio, seen,
                   inits>>

\* Mutant of Read: wasConnected is not updated.
ForgetfulRead(h) ==
    /\ At(h, "read")
    /\ isConnected' = Set(isConnected, h, plugged)
    /\ Goto(h, IF plugged # wasConnected[h] THEN "audio" ELSE "loop")
    /\ UNCHANGED <<shared, manager, videoPort, wasConnected, pending, world,
                   audio, seen, inits>>

\* dsIsDisplayConnected, and the comparison with what was told last.
Read(h) ==
    /\ At(h, "read")
    /\ isConnected' = Set(isConnected, h, plugged)
    /\ wasConnected' = Set(wasConnected, h, plugged)
    /\ Goto(h, IF plugged # wasConnected[h] THEN "audio" ELSE "loop")
    /\ UNCHANGED <<shared, manager, videoPort, pending, world, audio, seen,
                   inits>>

\* Mutant of NotifyAudio: the audio HAL is told of connections only.
NotifyConnection(h) ==
    /\ At(h, "audio")
    /\ audio' = IF isConnected[h] THEN "on" ELSE audio
    /\ Goto(h, "tell")
    /\ UNCHANGED <<shared, manager, local, pending, world, seen, inits>>

\* ds_notify_audio_hdmi_hotplug; its error code is ignored.
NotifyAudio(h) ==
    /\ At(h, "audio")
    /\ \/ audio' = IF isConnected[h] THEN "on" ELSE "off"
       \/ CanFail("audio") /\ audio' = "stale"
    /\ Goto(h, "tell")
    /\ UNCHANGED <<shared, manager, local, pending, world, seen, inits>>

TestCallback(h) ==
    /\ At(h, "tell")
    /\ Goto(h, IF _halcallback THEN "invoke" ELSE "loop")
    /\ UNCHANGED <<shared, manager, local, pending, world, audio, seen, inits>>

\* The pointer is read a second time for the call; a client whose callback was
\* cleared in between is told nothing (the program calls NULL and dies).
Invoke(h) ==
    /\ At(h, "invoke")
    /\ LET event == IF isConnected[h] THEN "connected" ELSE "disconnected" IN
         /\ told' = IF _halcallback THEN event ELSE told
         /\ repeated' = (repeated \/ (_halcallback /\ told = event))
    /\ Goto(h, "loop")
    /\ UNCHANGED <<shared, manager, local, pending, world, audio, pulled, inits>>

-----------------------------------------------------------------------------
\* The cable moves: a "change" event for every monitor that listens.
MoveCable ==
    /\ raised < MaxEvents
    /\ raised' = raised + 1
    /\ plugged' = ~plugged
    /\ pending' = [h \in Hotplugs |->
                     IF Listening(h) THEN pending[h] + 1 ELSE pending[h]]
    /\ pulled' = (plugged /\ drmInitialized /\ _halcallback
                   /\ \E h \in Hotplugs : Settled(h))
    /\ UNCHANGED <<shared, manager, pc, local, port, audio, told, repeated, inits>>

\* Other threads initialise and terminate the video port.
PortBegins ==
    /\ portInits < MaxPortInits
    /\ Port!Begin
    /\ portInits' = portInits + 1
    /\ UNCHANGED <<shared, manager, pc, local, pending, plugged, raised, audio,
                   seen, inits>>
PortPublishes ==
    /\ Port!Publish
    /\ UNCHANGED <<shared, manager, pc, local, pending, plugged, raised, portInits,
                   audio, seen, inits>>
PortClears ==
    /\ Port!Clear
    /\ UNCHANGED <<shared, manager, pc, local, pending, plugged, raised, portInits,
                   audio, seen, inits>>

ManagerStep == DisplayInit \/ RegisterCallback \/ TermStop
TermStep == TermClear \/ TermJoin
HotplugStep(h) ==
    \/ Begin(h) \/ Loop(h) \/ Select(h) \/ Change(h) \/ Wait(h) \/ Wake(h)
    \/ GetHandle(h) \/ Read(h) \/ NotifyAudio(h) \/ TestCallback(h) \/ Invoke(h)
WorldStep == MoveCable \/ PortBegins \/ PortPublishes \/ PortClears

\* The client may leave the module switched off.
Finished == manager = "off" /\ UNCHANGED vars

Next ==
    \/ ManagerStep \/ TermStep
    \/ \E h \in Hotplugs : HotplugStep(h)
    \/ WorldStep
    \/ Finished

Spec == Init /\ [][Next]_vars

\* A call of dsDisplayTerm goes on, and so does every thread; an initialisation of
\* the video port ends, as it does in VideoPort unless the device cannot be opened.
Fairness ==
    /\ WF_vars(PortPublishes)
    /\ WF_vars(TermStep)
    /\ \A h \in Hotplugs : WF_vars(HotplugStep(h))

FairSpec == Spec /\ Fairness

-----------------------------------------------------------------------------
(* Properties *)

HotplugLabels ==
    {"idle", "created", "loop", "select", "change", "wait", "asleep", "handle",
     "read", "audio", "tell", "invoke", "exited"}

\* Every variable holds a value of its type.
TypeOK ==
    /\ isMonitoringAlive \in BOOLEAN /\ _halcallback \in BOOLEAN
    /\ ds_hpd_threadId \in Hotplugs \cup {NoThread}
    /\ manager \in {"off", "on", "termClear", "termJoin"}
    /\ pc \in [Hotplugs -> HotplugLabels]
    /\ videoPort \in [Hotplugs -> BOOLEAN]
    /\ isConnected \in [Hotplugs -> BOOLEAN]
    /\ wasConnected \in [Hotplugs -> BOOLEAN]
    /\ pending \in [Hotplugs -> 0..MaxEvents]
    /\ plugged \in BOOLEAN /\ busy \in BOOLEAN /\ drmInitialized \in BOOLEAN
    /\ audio \in {"on", "off", "stale"}
    /\ told \in {"nothing", "connected", "disconnected"}
    /\ pulled \in BOOLEAN /\ repeated \in BOOLEAN
    /\ inits \in 0..MaxInits /\ raised \in 0..MaxEvents
    /\ portInits \in 0..MaxPortInits

\* Between dsDisplayInit and dsDisplayTerm the client is never told the same
\* event twice in a row, whatever cable movements fall together.
EventsAlternate == ~repeated

\* With every event handled, the last one told is the state of the cable:
\* a movement that falls between the reading and the call is told later.
ToldIsPlugged ==
    \A h \in Hotplugs :
        Settled(h) /\ told # "nothing" => (told = "connected") = plugged

\* With every event handled, the audio HAL agrees with the last event told,
\* unless it refused that very notification.
AudioIsTold ==
    \A h \in Hotplugs :
        Settled(h) /\ told # "nothing" /\ audio # "stale"
            => (audio = "on") = (told = "connected")

\* dsDisplayTerm leaves no thread that could still call the client, and it
\* clears the callback.
TermIsSilent ==
    manager = "off" => ~_halcallback /\ \A h \in Hotplugs : At(h, "idle")

\* A client that registered before the cable was pulled is told so.
UnpluggedIsTold ==
    \A h \in Hotplugs :
        Settled(h) /\ pulled => told = "disconnected"

\* dsDisplayTerm returns: the thread it joins ends.
TermReturns == manager = "termJoin" ~> manager = "off"

\* Events do not stay in the monitor for ever.
EventsHandled == \A h \in Hotplugs : pending[h] > 0 ~> pending[h] = 0
=============================================================================
