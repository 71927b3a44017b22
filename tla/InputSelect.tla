---------------------------- MODULE InputSelect ----------------------------
(***************************************************************************)
(* Selection of the HDMI and composite inputs (dsInputSelect.c).           *)
(*                                                                         *)
(* Three kinds of threads share selectedSource, isPresenting and the two   *)
(* status blocks hdmiInStatus and compositeInStatus: the callers of the    *)
(* API, one detached switching thread for each accepted request, and the   *)
(* thread on which the TV client delivers its events.  The code has two    *)
(* mutexes: inputSelectMutex for the API, inputPortMutex for the work.     *)
(*                                                                         *)
(* A step is what one thread does between two points at which another      *)
(* thread can interfere, so every access made without inputPortMutex (the  *)
(* Term functions) is a step of its own.                                   *)
(***************************************************************************)
EXTENDS Naturals, Sequences

CONSTANTS
    Hdmi,          \* SOURCE_HDMI1 .. SOURCE_HDMI3
    Av,            \* SOURCE_AV1, SOURCE_AV2
    SelectableAv,  \* the composite sources an API port number maps to
    NoSource,      \* SOURCE_INVALID, also ds..._PORT_NONE
    Callers,       \* threads of the client
    Switchers,     \* pool of identities for input_switching_thread
    TvThread,      \* the thread of the TV client
    Nobody,        \* a mutex that is free
    Calls,         \* the calls this client makes, a subset of ApiCalls
    Discipline,    \* subset of {"initFirst", "initOnce"}
    Faulty,        \* the system calls that may fail
    MaxCalls,      \* bound on the number of calls
    MaxEvents      \* bound on the number of TV events

Sources == Hdmi \cup Av
MaybeSource == Sources \cup {NoSource}
Kinds == {"hdmi", "av"}
Threads == Callers \cup Switchers \cup {TvThread}
CallbackNames == {"connectHdmi", "signal", "status", "connectAv"}

ApiCalls ==
    [op : {"select"}, arg : MaybeSource]
        \cup [op : {"init", "term", "getStatus"}, arg : Kinds]
        \cup [op : {"register"}, arg : CallbackNames]

Events == [type : {"connect", "signal"}, src : Sources, on : BOOLEAN]

NoCall == [op |-> "none", arg |-> "none"]
NoEvent == <<>>

FallibleCalls ==
    {"StopTv", "StartTv", "GetInstance", "pthread_create", "openHdmiInfo"}

ASSUME InputSelectAssumption ==
    /\ Hdmi \cap Av = {} /\ NoSource \notin Sources
    /\ SelectableAv \subseteq Av
    /\ Callers \cap Switchers = {}
    /\ TvThread \notin Callers \cup Switchers
    /\ Nobody \notin Threads
    /\ Calls \subseteq ApiCalls
    /\ Discipline \subseteq {"initFirst", "initOnce"}
    /\ Faulty \subseteq FallibleCalls
    /\ MaxCalls \in Nat /\ MaxEvents \in Nat

VARIABLES
    selectMutex,     \* holder of inputSelectMutex
    portMutex,       \* holder of inputPortMutex
    tvclient,        \* tvclient # NULL
    observing,       \* setTvEventCallback has been called
    selectedSource,
    isPresenting,
    status,          \* hdmiInStatus and compositeInStatus with what they point to
    callbacks,       \* the callbacks the client has registered
    pc,              \* where each thread is
    call,            \* the API call a caller is in
    req,             \* the argument of each switching thread
    started,         \* TV client: the sources started and not stopped
    plugged,         \* the world: the sources that have a cable
    events,          \* TV client: events not delivered yet
    event,           \* the event the TV thread handles
    ready,           \* the client: kinds whose Init has returned
    badUse,          \* history: how a status block was used when not allocated
    calls, raised    \* bounds: calls made, TV events raised

locks   == <<selectMutex, portMutex>>
sel     == <<selectedSource, isPresenting>>
tv      == <<tvclient, observing>>
client  == <<callbacks, ready, calls>>
local   == <<call, req, event>>
world   == <<plugged, events, raised>>
vars == <<locks, sel, tv, status, client, pc, local, started, world, badUse>>

(***************************************************************************)
(* What the code calls GetInputPortType and ds...PortToTvClientPort.       *)
(***************************************************************************)
KindOf(s) == IF s \in Hdmi THEN "hdmi" ELSE IF s \in Av THEN "av" ELSE "none"

\* Mutant of RequestFor: the port number of the API is not converted.
UnconvertedRequestFor(port) == <<port>>

RequestFor(port) == IF port \in Hdmi \cup SelectableAv THEN port ELSE NoSource

SourcesOf(k) == IF k = "hdmi" THEN Hdmi ELSE Av

(***************************************************************************)
(* A status block: the pointer is NULL, live, or (between free and the     *)
(* assignment of NULL) dangling.                                           *)
(***************************************************************************)
NoBlock == [mem |-> "null", active |-> NoSource, presented |-> FALSE,
            connected |-> {}]

Blocks(k) ==
    [mem : {"null", "live", "freed"}, active : SourcesOf(k) \cup {NoSource},
     presented : BOOLEAN, connected : SUBSET SourcesOf(k)]

StatusBlocks ==
    [Kinds -> [mem : {"null", "live", "freed"}, active : MaybeSource,
               presented : BOOLEAN, connected : SUBSET Sources]]

IsLive(k) == k \in Kinds /\ status[k].mem = "live"

\* An access after a test for NULL still reaches a dangling pointer.
GuardedUse(k) == IF k \in Kinds THEN {status[k].mem} \cap {"freed"} ELSE {}
UnguardedUse(k) == {status[k].mem} \ {"live"}

\* check...InPortStatus reads the HDMI cables; for composite it does nothing.
Detected(k) == IF k = "hdmi" THEN plugged \cap Hdmi ELSE status[k].connected

WithPresented(k, b) ==
    IF IsLive(k) THEN [status EXCEPT ![k].presented = b] ELSE status

(***************************************************************************)
(* The TV client.  StopTv and StartTv may fail; StartTv of SOURCE_INVALID  *)
(* starts nothing.                                                         *)
(***************************************************************************)
CanFail(f) == f \in Faulty
StartTv(s) == started' = started \cup ({s} \cap Sources)
StopTv(s)  == started' = started \ {s}

At(t, l) == pc[t] = l
Goto(t, l) == pc' = [pc EXCEPT ![t] = l]
Return(t) == Goto(t, "idle") /\ call' = [call EXCEPT ![t] = NoCall]

Init ==
    /\ selectMutex = Nobody /\ portMutex = Nobody
    /\ tvclient = FALSE /\ observing = FALSE
    /\ selectedSource = NoSource /\ isPresenting = FALSE
    /\ status = [k \in Kinds |-> NoBlock]
    /\ callbacks = {}
    /\ pc = [t \in Threads |-> "idle"]
    /\ call = [t \in Callers |-> NoCall]
    /\ req = [t \in Switchers |-> NoSource]
    /\ started = {} /\ plugged \in SUBSET Sources
    /\ events = <<>> /\ event = NoEvent
    /\ ready = {} /\ badUse = {}
    /\ calls = 0 /\ raised = 0

-----------------------------------------------------------------------------
(* The client. *)

Obeys(c) ==
    /\ "initFirst" \in Discipline =>
         \/ c.op = "init"
         \/ \A i \in Calls : i.op = "init" => i.arg \in ready
    /\ "initOnce" \in Discipline =>
         ~(c.op = "init"
            /\ (c.arg \in ready
                \/ \E o \in Callers : pc[o] # "idle" /\ call[o] = c))

\* A caller enters a ds... function and waits for inputSelectMutex.
Call(t, c) ==
    /\ At(t, "idle") /\ calls < MaxCalls /\ c.op # "register" /\ Obeys(c)
    /\ calls' = calls + 1
    /\ call' = [call EXCEPT ![t] = c]
    /\ ready' = IF c.op = "term" THEN ready \ {c.arg} ELSE ready
    /\ Goto(t, "entered")
    /\ UNCHANGED <<locks, sel, tv, status, callbacks, req, event,
                   started, world, badUse>>

\* ds...Register...CB with a callback that is not NULL; no lock is taken.
Register(t, c) ==
    /\ At(t, "idle") /\ calls < MaxCalls /\ c.op = "register" /\ Obeys(c)
    /\ calls' = calls + 1
    /\ callbacks' = callbacks \cup {c.arg}
    /\ UNCHANGED <<locks, sel, tv, status, ready, pc, local,
                   started, world, badUse>>

\* SelectPort: the request is handed to a new thread under inputSelectMutex.
SelectPort(t) ==
    /\ At(t, "entered") /\ call[t].op = "select" /\ selectMutex = Nobody
    /\ \/ /\ tvclient
          /\ \E s \in Switchers :
               /\ At(s, "idle")
               /\ req' = [req EXCEPT ![s] = RequestFor(call[t].arg)]
               /\ pc' = [pc EXCEPT ![s] = "created", ![t] = "idle"]
               /\ call' = [call EXCEPT ![t] = NoCall]
       \/ /\ tvclient => CanFail("pthread_create")
          /\ Return(t)
          /\ UNCHANGED req
    /\ UNCHANGED <<locks, sel, tv, status, callbacks, ready, calls, event,
                   started, world, badUse>>

-----------------------------------------------------------------------------
(* ds...InInit: takes inputSelectMutex, later also inputPortMutex. *)

\* The TV client is created once, the observer is set even if that fails.
InitEnter(t) ==
    /\ At(t, "entered") /\ call[t].op = "init" /\ selectMutex = Nobody
    /\ selectMutex' = t
    /\ observing' = TRUE
    /\ \/ tvclient' = TRUE
       \/ ~tvclient /\ CanFail("GetInstance") /\ UNCHANGED tvclient
    /\ Goto(t, "allocate")
    /\ UNCHANGED <<portMutex, sel, status, client, local, started, world,
                   badUse>>

\* Mutant of InitAllocate: no block is allocated.
UnallocatedInit(t) ==
    /\ At(t, "allocate")
    /\ Goto(t, "publish")
    /\ UNCHANGED <<locks, sel, tv, status, client, local, started, world,
                   badUse>>

\* malloc leaves any contents in a new block.
InitAllocate(t) ==
    /\ At(t, "allocate")
    /\ LET k == call[t].arg IN
         IF status[k].mem = "null"
         THEN \E b \in Blocks(k) :
                b.mem = "live" /\ status' = [status EXCEPT ![k] = b]
         ELSE UNCHANGED status
    /\ Goto(t, "publish")
    /\ UNCHANGED <<locks, sel, tv, client, local, started, world, badUse>>

\* The part under inputPortMutex, and the release of both mutexes.
InitPublish(t) ==
    /\ At(t, "publish") /\ portMutex = Nobody
    /\ LET k == call[t].arg IN
         \/ /\ status' = IF IsLive(k)
                         THEN [status EXCEPT ![k] =
                                 [@ EXCEPT !.presented = FALSE, !.active = NoSource,
                                           !.connected = Detected(k)]]
                         ELSE status
            /\ badUse' = badUse \cup UnguardedUse(k)
            /\ ready' = IF tvclient THEN ready \cup {k} ELSE ready
         \/ /\ k = "hdmi" /\ CanFail("openHdmiInfo")
            /\ UNCHANGED <<status, ready, badUse>>
    /\ selectMutex' = Nobody
    /\ Return(t)
    /\ UNCHANGED <<portMutex, sel, tv, callbacks, calls, req, event,
                   started, world>>

-----------------------------------------------------------------------------
(* ds...InGetStatus *)

StatusEnter(t) ==
    /\ At(t, "entered") /\ call[t].op = "getStatus" /\ selectMutex = Nobody
    /\ selectMutex' = t
    /\ Goto(t, "copy")
    /\ UNCHANGED <<portMutex, sel, tv, status, client, local, started,
                   world, badUse>>

\* Mutant of StatusCopy: an early return without the unlock of inputSelectMutex.
LockedStatusCopy(t) ==
    /\ At(t, "copy") /\ portMutex = Nobody
    /\ selectMutex' = IF CanFail("openHdmiInfo") THEN selectMutex ELSE Nobody
    /\ Return(t)
    /\ UNCHANGED <<portMutex, sel, tv, status, client, req, event, started,
                   world, badUse>>

\* checkHdmiInPortStatus refreshes the block, then it is copied out.
StatusCopy(t) ==
    /\ At(t, "copy") /\ portMutex = Nobody
    /\ LET k == call[t].arg IN
         \/ /\ status' = IF IsLive(k)
                         THEN [status EXCEPT ![k].connected = Detected(k)]
                         ELSE status
            /\ badUse' = badUse \cup UnguardedUse(k)
         \/ /\ k = "hdmi" /\ CanFail("openHdmiInfo")
            /\ UNCHANGED <<status, badUse>>
    /\ selectMutex' = Nobody
    /\ Return(t)
    /\ UNCHANGED <<portMutex, sel, tv, client, req, event, started, world>>

-----------------------------------------------------------------------------
(* ds...InTerm works under inputSelectMutex alone. *)

TermEnter(t) ==
    /\ At(t, "entered") /\ call[t].op = "term" /\ selectMutex = Nobody
    /\ selectMutex' = t
    /\ Goto(t, IF KindOf(selectedSource) = call[t].arg THEN "termStop"
                                                       ELSE "termFree")
    /\ UNCHANGED <<portMutex, sel, tv, status, client, local, started,
                   world, badUse>>

TermStop(t) ==
    /\ At(t, "termStop")
    /\ \/ StopTv(selectedSource) /\ Goto(t, "termClear")
       \/ CanFail("StopTv") /\ Goto(t, "termFree") /\ UNCHANGED started
    /\ UNCHANGED <<locks, sel, tv, status, client, local, world, badUse>>

TermClear(t) ==
    /\ At(t, "termClear")
    /\ selectedSource' = NoSource
    /\ Goto(t, "termFree")
    /\ UNCHANGED <<locks, isPresenting, tv, status, client, local, started,
                   world, badUse>>

TermFree(t) ==
    /\ At(t, "termFree")
    /\ LET k == call[t].arg IN
         status' = IF IsLive(k) THEN [status EXCEPT ![k].mem = "freed"]
                                ELSE status
    /\ Goto(t, "termNull")
    /\ UNCHANGED <<locks, sel, tv, client, local, started, world, badUse>>

TermNull(t) ==
    /\ At(t, "termNull")
    /\ status' = [status EXCEPT ![call[t].arg] = NoBlock]
    /\ selectMutex' = Nobody
    /\ Return(t)
    /\ UNCHANGED <<portMutex, sel, tv, client, req, event, started, world,
                   badUse>>

-----------------------------------------------------------------------------
(* input_switching_thread: all of it under inputPortMutex. *)

\* Mutant of SwitchLock: inputPortMutex is not waited for.
UnlockedSwitch(t) ==
    /\ At(t, "created")
    /\ portMutex' = t
    /\ Goto(t, IF selectedSource \notin {NoSource, req[t]} THEN "stop"
               ELSE IF req[t] = NoSource THEN "unlock" ELSE "start")
    /\ UNCHANGED <<selectMutex, sel, tv, status, client, local, started,
                   world, badUse>>

\* Mutant of SwitchLock: the presenting source is not stopped first.
UnstoppedSwitch(t) ==
    /\ At(t, "created") /\ portMutex = Nobody
    /\ portMutex' = t
    /\ Goto(t, IF req[t] = NoSource THEN "unlock" ELSE "start")
    /\ UNCHANGED <<selectMutex, sel, tv, status, client, local, started,
                   world, badUse>>

\* Mutant of SwitchLock: with nothing to do, a return without the unlock.
LockedSwitch(t) ==
    /\ At(t, "created") /\ portMutex = Nobody
    /\ portMutex' = t
    /\ Goto(t, IF selectedSource \notin {NoSource, req[t]} THEN "stop"
               ELSE IF req[t] = NoSource THEN "idle" ELSE "start")
    /\ UNCHANGED <<selectMutex, sel, tv, status, client, local, started,
                   world, badUse>>

SwitchLock(t) ==
    /\ At(t, "created") /\ portMutex = Nobody
    /\ portMutex' = t
    /\ Goto(t, IF selectedSource \notin {NoSource, req[t]} THEN "stop"
               ELSE IF req[t] = NoSource THEN "unlock" ELSE "start")
    /\ UNCHANGED <<selectMutex, sel, tv, status, client, local, started,
                   world, badUse>>

\* Where the thread goes once the stop is over, whether it worked or not.
AfterStop(t) == IF req[t] = NoSource THEN "unlock" ELSE "start"

SwitchStop(t) ==
    /\ At(t, "stop")
    /\ \/ StopTv(selectedSource) /\ Goto(t, "stopped")
       \/ CanFail("StopTv") /\ Goto(t, AfterStop(t)) /\ UNCHANGED started
    /\ UNCHANGED <<locks, sel, tv, status, client, local, world, badUse>>

\* portType is the type of the source asked for, not of the one stopped.
SwitchStopped(t) ==
    /\ At(t, "stopped")
    /\ selectedSource' = NoSource /\ isPresenting' = FALSE
    /\ status' = WithPresented(KindOf(req[t]), FALSE)
    /\ badUse' = badUse \cup GuardedUse(KindOf(req[t]))
    /\ Goto(t, AfterStop(t))
    /\ UNCHANGED <<locks, tv, client, local, started, world>>

\* Mutant of SwitchStart: a return without the unlock when StartTv fails.
LockedStart(t) ==
    /\ At(t, "start")
    /\ \/ StartTv(req[t]) /\ Goto(t, "assign")
       \/ CanFail("StartTv") /\ Goto(t, "idle") /\ UNCHANGED started
    /\ UNCHANGED <<locks, sel, tv, status, client, local, world, badUse>>

SwitchStart(t) ==
    /\ At(t, "start")
    /\ \/ StartTv(req[t]) /\ Goto(t, "assign")
       \/ CanFail("StartTv") /\ Goto(t, "unlock") /\ UNCHANGED started
    /\ UNCHANGED <<locks, sel, tv, status, client, local, world, badUse>>

\* Mutant of SwitchAssign: selectedSource is forgotten.
UnselectedAssign(t) ==
    /\ At(t, "assign")
    /\ Goto(t, "unlock")
    /\ UNCHANGED <<locks, sel, tv, status, client, local, started, world,
                   badUse>>

\* Mutant of SwitchAssign: activePort is forgotten.
InactiveAssign(t) ==
    /\ At(t, "assign")
    /\ selectedSource' = req[t]
    /\ Goto(t, "unlock")
    /\ UNCHANGED <<locks, isPresenting, tv, status, client, local, started,
                   world, badUse>>

SwitchAssign(t) ==
    /\ At(t, "assign")
    /\ selectedSource' = req[t]
    /\ LET k == KindOf(req[t]) IN
         /\ status' = IF IsLive(k) THEN [status EXCEPT ![k].active = req[t]]
                                   ELSE status
         /\ badUse' = badUse \cup GuardedUse(k)
    /\ Goto(t, "unlock")
    /\ UNCHANGED <<locks, isPresenting, tv, client, local, started, world>>

SwitchUnlock(t) ==
    /\ At(t, "unlock")
    /\ portMutex' = Nobody
    /\ req' = [req EXCEPT ![t] = NoSource]
    /\ Goto(t, "idle")
    /\ UNCHANGED <<selectMutex, sel, tv, status, client, call, event,
                   started, world, badUse>>

-----------------------------------------------------------------------------
(* TvEventCallback *)

TvTake ==
    /\ At(TvThread, "idle") /\ events # <<>>
    /\ event' = Head(events) /\ events' = Tail(events)
    /\ Goto(TvThread, event'.type)
    /\ UNCHANGED <<locks, sel, tv, status, client, call, req, started,
                   plugged, raised, badUse>>

\* TV_EVENT_TYPE_SIGLE_DETECT: one critical section, callbacks included.
TvSignal ==
    /\ At(TvThread, "signal") /\ portMutex = Nobody
    /\ LET k == KindOf(event.src) IN
         /\ isPresenting' = (isPresenting \/ event.on)
         /\ status' = IF event.on THEN WithPresented(k, TRUE) ELSE status
         /\ badUse' = badUse
              \cup (IF event.on THEN GuardedUse(k) ELSE {})
              \cup (IF event.on /\ k = "hdmi" /\ "status" \in callbacks
                    THEN UnguardedUse(k) ELSE {})
    /\ event' = NoEvent
    /\ Goto(TvThread, "idle")
    /\ UNCHANGED <<locks, selectedSource, tv, client, call, req, started,
                   world>>

\* TV_EVENT_TYPE_SOURCE_CONNECT, up to the decision to stop or to start.
TvConnectLock ==
    /\ At(TvThread, "connect") /\ portMutex = Nobody
    /\ portMutex' = TvThread
    /\ Goto(TvThread, IF selectedSource # event.src THEN "show"
                      ELSE IF ~event.on /\ isPresenting THEN "pause"
                      ELSE "resume")
    /\ UNCHANGED <<selectMutex, sel, tv, status, client, local, started,
                   world, badUse>>

\* The results of StopTv and StartTv are ignored here.
TvPause ==
    /\ At(TvThread, "pause")
    /\ \/ StopTv(selectedSource)
       \/ CanFail("StopTv") /\ UNCHANGED started
    /\ isPresenting' = FALSE
    /\ Goto(TvThread, "show")
    /\ UNCHANGED <<locks, selectedSource, tv, status, client, local, world,
                   badUse>>

TvResume ==
    /\ At(TvThread, "resume")
    /\ \/ StartTv(selectedSource)
       \/ CanFail("StartTv") /\ UNCHANGED started
    /\ isPresenting' = TRUE
    /\ Goto(TvThread, "show")
    /\ UNCHANGED <<locks, selectedSource, tv, status, client, local, world,
                   badUse>>

TvShow ==
    /\ At(TvThread, "show")
    /\ status' = WithPresented(KindOf(event.src), isPresenting)
    /\ badUse' = badUse \cup GuardedUse(KindOf(event.src))
    /\ portMutex' = Nobody
    /\ Goto(TvThread, "tell")
    /\ UNCHANGED <<selectMutex, sel, tv, client, local, started, world>>

\* The callbacks run after the unlock, and read the blocks without a lock.
TvTell ==
    /\ At(TvThread, "tell")
    /\ LET s == event.src
           tellStatus == s \in Hdmi /\ ~event.on /\ "status" \in callbacks
           tellAv == s \in Av /\ "connectAv" \in callbacks
       IN /\ status' = IF tellAv /\ IsLive("av")
                       THEN [status EXCEPT !["av"].connected =
                               IF event.on THEN @ \cup {s} ELSE @ \ {s}]
                       ELSE status
          /\ badUse' = badUse
               \cup (IF tellStatus THEN UnguardedUse("hdmi") ELSE {})
               \cup (IF tellAv THEN UnguardedUse("av") ELSE {})
    /\ event' = NoEvent
    /\ Goto(TvThread, "idle")
    /\ UNCHANGED <<locks, sel, tv, client, call, req, started, world>>

-----------------------------------------------------------------------------
(* The world: cables move, a started source gains or loses its signal. *)

Raise(e) ==
    /\ observing /\ raised < MaxEvents
    /\ events' = Append(events, e)
    /\ raised' = raised + 1

MoveCable(s) ==
    /\ Raise([type |-> "connect", src |-> s, on |-> s \notin plugged])
    /\ plugged' = IF s \in plugged THEN plugged \ {s} ELSE plugged \cup {s}
    /\ UNCHANGED <<locks, sel, tv, status, client, pc, local, started,
                   badUse>>

DetectSignal(s, stable) ==
    /\ s \in started \cap plugged
    /\ Raise([type |-> "signal", src |-> s, on |-> stable])
    /\ UNCHANGED <<locks, sel, tv, status, client, pc, local, started,
                   plugged, badUse>>

-----------------------------------------------------------------------------
CallerStep(t) ==
    \/ SelectPort(t)
    \/ InitEnter(t) \/ InitAllocate(t) \/ InitPublish(t)
    \/ StatusEnter(t) \/ StatusCopy(t)
    \/ TermEnter(t) \/ TermStop(t) \/ TermClear(t) \/ TermFree(t) \/ TermNull(t)

SwitcherStep(t) ==
    \/ SwitchLock(t) \/ SwitchStop(t) \/ SwitchStopped(t)
    \/ SwitchStart(t) \/ SwitchAssign(t) \/ SwitchUnlock(t)

TvStep ==
    \/ TvTake \/ TvSignal
    \/ TvConnectLock \/ TvPause \/ TvResume \/ TvShow \/ TvTell

ClientStep(t) == \E c \in Calls : Call(t, c) \/ Register(t, c)

WorldStep ==
    \E s \in Sources :
        MoveCable(s) \/ \E stable \in BOOLEAN : DetectSignal(s, stable)

Quiet == events = <<>> /\ \A t \in Threads : At(t, "idle")

\* Nothing more can happen once the bounds are used up and all work is done.
Finished == Quiet /\ UNCHANGED vars

Next ==
    \/ \E t \in Callers : ClientStep(t) \/ CallerStep(t)
    \/ \E t \in Switchers : SwitcherStep(t)
    \/ TvStep
    \/ WorldStep
    \/ Finished

Spec == Init /\ [][Next]_vars

\* Every thread of the process that can run does run; nothing is assumed of
\* the client or of the world.
Fairness ==
    /\ \A t \in Callers : WF_vars(CallerStep(t))
    /\ \A t \in Switchers : WF_vars(SwitcherStep(t))
    /\ WF_vars(TvStep)

FairSpec == Spec /\ Fairness

-----------------------------------------------------------------------------
(* Properties *)

CallerLabels == {"idle", "entered", "allocate", "publish", "copy",
                 "termStop", "termClear", "termFree", "termNull"}
SwitcherLabels == {"idle", "created", "stop", "stopped", "start", "assign",
                   "unlock"}
TvLabels == {"idle", "signal", "connect", "pause", "resume", "show", "tell"}

\* Every variable holds a value of its type: the mutexes are held by threads,
\* a pointer is NULL, live or dangling, and each thread is at a place of its own
\* function.
TypeOK ==
    /\ selectMutex \in Callers \cup {Nobody}
    /\ portMutex \in Switchers \cup {TvThread, Nobody}
    /\ tvclient \in BOOLEAN /\ observing \in BOOLEAN /\ isPresenting \in BOOLEAN
    /\ selectedSource \in MaybeSource
    /\ status \in StatusBlocks
    /\ callbacks \subseteq CallbackNames
    /\ pc \in [Threads -> CallerLabels \cup SwitcherLabels \cup TvLabels]
    /\ \A t \in Callers : pc[t] \in CallerLabels
    /\ \A t \in Switchers : pc[t] \in SwitcherLabels
    /\ pc[TvThread] \in TvLabels
    /\ call \in [Callers -> ApiCalls \cup {NoCall}]
    /\ req \in [Switchers -> MaybeSource]
    /\ started \subseteq Sources /\ plugged \subseteq Sources
    /\ events \in Seq(Events) /\ event \in Events \cup {NoEvent}
    /\ ready \subseteq Kinds /\ badUse \subseteq {"null", "freed"}
    /\ calls \in 0..MaxCalls /\ raised \in 0..MaxEvents

\* Two TV sources are never on together: whatever requests and cable events
\* are in flight, the old source is stopped before the new one is started
\* ("stop currently presenting source" in input_switching_thread).
OneSourceStarted == \A a, b \in started : a = b

\* Whenever inputPortMutex is free the source that is on is the one the code
\* believes selected, so that the next request will stop the right source.
RunningIsSelected == portMutex = Nobody => started \subseteq {selectedSource}

\* No thread reads or writes a status block before it is allocated or after
\* it is freed, although the callbacks of TvEventCallback read it without any
\* test and partly without any lock.
StatusBlocksAllocated == badUse = {}

\* Outside the critical sections the activePort that dsHdmiInGetStatus and
\* dsCompositeInGetStatus report for the selected source is that source.
ActivePortIsSelected ==
    portMutex = Nobody =>
        \A k \in Kinds : (IsLive(k) /\ KindOf(selectedSource) = k)
                            => status[k].active = selectedSource

\* Every accepted request is carried out: its switching thread gets
\* inputPortMutex and ends, whatever the other threads do.
RequestsServed == \A t \in Switchers : At(t, "created") ~> At(t, "idle")

\* No call of the client blocks for ever on the two mutexes.
CallsReturn == \A t \in Callers : At(t, "entered") ~> At(t, "idle")

\* Every event the TV client raises is handled to the end, although its thread
\* shares inputPortMutex with the switching threads.
Undelivered == events # <<>> \/ ~At(TvThread, "idle")
EventsHandled == Undelivered ~> ~Undelivered

-----------------------------------------------------------------------------
(* The threads implement the abstract selector.  Between StopTv and its    *)
(* bookkeeping, and between StartTv and its bookkeeping, selectedSource    *)
(* lags behind the TV client.                                              *)

Assigning(t) == At(t, "assign")

SelectedInEffect ==
    IF \E t \in Switchers : Assigning(t)
    THEN req[CHOOSE t \in Switchers : Assigning(t)]
    ELSE selectedSource

Selector == INSTANCE TvSelector WITH
    selected <- SelectedInEffect, running <- started

\* Seen from outside, the threads behave as one selector that stops a source
\* before it starts another.
ImplementsSelector == Selector!Spec
=============================================================================
