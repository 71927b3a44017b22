----------------------------- MODULE VideoPort -----------------------------
(***************************************************************************)
(* Life cycle of the HDMI video port and delivery of the HDCP status       *)
(* (dsVideoPort.c).                                                        *)
(*                                                                         *)
(* dsVideoPortInit starts two kinds of threads: drm_refresh_thread, which  *)
(* follows the hotplug events of DRM and is joined by dsVideoPortTerm, and *)
(* the detached process_hdcp_dolbyVisonEnable, which polls until the first *)
(* authentication.  They and the callers of the API share drmInitialized,  *)
(* drmRefreshAlive and hdcpStatusCallback, all read and written without a  *)
(* lock; initLock only protects dsVideoPortInit and the wait of            *)
(* CHECK_DRM_INITIALIZE.                                                   *)
(***************************************************************************)
EXTENDS Naturals, FiniteSets

CONSTANTS
    Callers,      \* threads of the client
    Refreshers,   \* pool of identities for drm_refresh_thread
    Notifiers,    \* pool of identities for process_hdcp_dolbyVisonEnable
    Nobody,       \* a mutex that is free, also the thread id -1
    Calls,        \* the calls this client makes, a subset of ApiCalls
    Conflicts,    \* pairs of operations this client never overlaps
    Tidy,         \* the client clears its callback only when the port is off
    Faulty,       \* what may fail
    Modes,        \* what the file of HDCP may say, a subset of HdcpModes
    PollLimit,    \* 3000 in the code
    MaxCalls, MaxInits, MaxEvents   \* bounds on calls, dsVideoPortInit, events

Threads == Callers \cup Refreshers \cup Notifiers
Ops == {"init", "term", "get", "register", "enable"}
ApiCalls == [op : {"init", "term", "get"}, arg : {TRUE}]
              \cup [op : {"register", "enable"}, arg : BOOLEAN]
NoCall == [op |-> "none", arg |-> TRUE]

\* What the file of HDCP says: nothing ("off"), or a version and its outcome.
NoHdcp == [version |-> "none", succeed |-> FALSE]
HdcpModes == [version : {"14", "22"}, succeed : BOOLEAN] \cup {NoHdcp}

ASSUME VideoPortAssumption ==
    /\ Callers \cap (Refreshers \cup Notifiers) = {}
    /\ Refreshers \cap Notifiers = {}
    /\ Nobody \notin Threads
    /\ Calls \subseteq ApiCalls /\ Conflicts \subseteq Ops \X Ops
    /\ Tidy \in BOOLEAN
    /\ Faulty \subseteq {"initOpen", "refreshOpen", "refreshThread",
                         "notifyThread", "udev", "westeros", "noAnswer"}
    /\ Modes \subseteq HdcpModes /\ NoHdcp \in Modes
    /\ PollLimit \in Nat \ {0}
    /\ MaxCalls \in Nat /\ MaxInits \in Nat /\ MaxEvents \in Nat

VARIABLES
    initLock,            \* holder of initLock
    lock,                \* holder of lock, for connector_id
    drmInitialized, drmRefreshAlive,
    drm_refresh_threadId,
    hdcpStatusCallback,  \* a callback is registered
    IsEnabled,           \* of the handle of the HDMI port
    pc, next,            \* place, and where CHECK_DRM_INITIALIZE goes on
    call, joining,       \* of the callers
    seen,                \* the HDCP status each thread has read and not yet told
    notify,              \* local variables of the polling threads
    pending,             \* events waiting in the monitor of each refresher
    plugged, hdcp,       \* the world: cable, what the file of HDCP says
    unheard,             \* history: HDCP was lost, no monitor had an event since
    displayOn,           \* the compositor: the display is enabled
    unanswered,          \* history: it did not answer dsEnableVideoPort last
    told,                \* the client: last status delivered since its last init
    overtaken,           \* history: told outside the refresh thread and no longer true
    hasHandle,           \* the client: dsGetVideoPort has succeeded
    badCall,             \* history: a NULL callback was called
    calls, inits, raised \* bounds

flags  == <<drmInitialized, drmRefreshAlive, drm_refresh_threadId>>
locks  == <<initLock, lock>>
client == <<told, overtaken, hasHandle, badCall, calls, inits>>
world  == <<plugged, hdcp, unheard, pending, raised>>
port   == <<IsEnabled, displayOn, unanswered>>
local  == <<next, call, joining, seen, notify>>
vars == <<flags, locks, hdcpStatusCallback, client, world, port, pc, local>>

Statuses == {"authenticated", "failure"}

\* How dsGetHDCPStatus reads the file: a failure of 2.2 counts as 1.4 authenticated.
Status(m) == IF m.succeed \/ m.version = "22" THEN "authenticated" ELSE "failure"

\* Without a cable HDCP does not succeed.
Shown(p) == {m \in Modes : m.succeed => p}

Fresh == [connected |-> FALSE, notified |-> FALSE, dv |-> FALSE, polls |-> 0]

CanFail(f) == f \in Faulty
At(t, l) == pc[t] = l
Goto(t, l) == pc' = [pc EXCEPT ![t] = l]
Return(t) == Goto(t, "idle") /\ call' = [call EXCEPT ![t] = NoCall]

\* CHECK_DRM_INITIALIZE, then l.
CheckThen(t, l) == Goto(t, "check") /\ next' = [next EXCEPT ![t] = l]

\* Neither initialised nor on the way to be.
Off ==
    /\ ~drmInitialized
    /\ \A t \in Callers : call[t].op \notin {"init", "term"}

Init ==
    /\ initLock = Nobody /\ lock = Nobody
    /\ drmInitialized = FALSE /\ drmRefreshAlive = FALSE
    /\ drm_refresh_threadId = Nobody
    /\ hdcpStatusCallback = FALSE
    /\ IsEnabled = FALSE /\ displayOn = TRUE
    /\ pc = [t \in Threads |-> "idle"] /\ next = [t \in Threads |-> "idle"]
    /\ call = [t \in Callers |-> NoCall]
    /\ joining = [t \in Callers |-> Nobody]
    /\ seen = [t \in Threads |-> "failure"]
    /\ notify = [n \in Notifiers |-> Fresh]
    /\ pending = [r \in Refreshers |-> 0]
    /\ plugged \in BOOLEAN
    /\ hdcp \in Shown(plugged) /\ unheard = FALSE /\ unanswered = FALSE
    /\ told = "nothing" /\ overtaken = FALSE
    /\ hasHandle = FALSE /\ badCall = FALSE
    /\ calls = 0 /\ inits = 0 /\ raised = 0

-----------------------------------------------------------------------------
(* CHECK_DRM_INITIALIZE, for the thread that runs it. *)

CheckFlag(t) ==
    /\ At(t, "check")
    /\ Goto(t, IF drmInitialized THEN next[t] ELSE "wait")
    /\ UNCHANGED <<flags, locks, hdcpStatusCallback, client, world, port, local>>

\* pthread_cond_timedwait releases initLock.
CheckLock(t) ==
    /\ At(t, "wait") /\ initLock = Nobody
    /\ Goto(t, IF drmInitialized THEN next[t] ELSE "asleep")
    /\ UNCHANGED <<flags, locks, hdcpStatusCallback, client, world, port, local>>

\* Signalled or timed out: both leave the loop, once initLock is free again.
CheckWake(t) ==
    /\ At(t, "asleep") /\ initLock = Nobody
    /\ Goto(t, next[t])
    /\ UNCHANGED <<flags, locks, hdcpStatusCallback, client, world, port, local>>

-----------------------------------------------------------------------------
(* The client. *)

Overlaps(a, b) == <<a, b>> \in Conflicts \/ <<b, a>> \in Conflicts

Call(t, c) ==
    /\ At(t, "idle") /\ calls < MaxCalls
    /\ \A o \in Callers : At(o, "idle") \/ ~Overlaps(c.op, call[o].op)
    /\ c.op = "enable" => hasHandle
    /\ (c.op = "register" /\ ~c.arg /\ Tidy) => Off
    /\ c.op = "init" => inits < MaxInits
    /\ calls' = calls + 1
    /\ inits' = IF c.op = "init" THEN inits + 1 ELSE inits
    /\ told' = IF c.op = "init" THEN "nothing" ELSE told
    /\ call' = [call EXCEPT ![t] = c]
    /\ IF c.op = "get" THEN CheckThen(t, "handle")
                       ELSE Goto(t, "entered") /\ UNCHANGED next
    /\ UNCHANGED <<flags, locks, hdcpStatusCallback, overtaken, hasHandle,
                   badCall, world, port, joining, seen, notify>>

\* NULL is refused with an error code but is stored all the same.
Register(t) ==
    /\ At(t, "entered") /\ call[t].op = "register"
    /\ hdcpStatusCallback' = call[t].arg
    /\ CheckThen(t, "handle")
    /\ UNCHANGED <<flags, locks, client, world, port, call, joining, seen, notify>>

\* Mutant of EnableDisplay: the failure of the compositor is not looked at.
UncheckedEnable(t) ==
    /\ At(t, "entered") /\ call[t].op = "enable"
    /\ displayOn' = call[t].arg \/ (CanFail("westeros") /\ UNCHANGED displayOn)
    /\ Goto(t, "enabled")
    /\ UNCHANGED <<flags, locks, hdcpStatusCallback, client, world, IsEnabled,
                   unanswered, local>>

\* The compositor is asked first, IsEnabled follows its answer.  It may refuse or
\* not be reached; or it prints no Response line, which is a success for the caller
\* with IsEnabled as it was, whatever has become of the display.
EnableDisplay(t) ==
    /\ At(t, "entered") /\ call[t].op = "enable"
    /\ \/ /\ displayOn' = call[t].arg /\ unanswered' = FALSE
          /\ Goto(t, "enabled")
          /\ UNCHANGED call
       \/ /\ CanFail("westeros") /\ Return(t)
          /\ UNCHANGED <<displayOn, unanswered>>
       \/ /\ CanFail("noAnswer") /\ Return(t)
          /\ displayOn' \in {displayOn, call[t].arg} /\ unanswered' = TRUE
    /\ UNCHANGED <<flags, locks, hdcpStatusCallback, client, world, IsEnabled,
                   next, joining, seen, notify>>

EnableFlag(t) ==
    /\ At(t, "enabled")
    /\ IsEnabled' = call[t].arg
    /\ Return(t)
    /\ UNCHANGED <<flags, locks, hdcpStatusCallback, client, world, displayOn,
                   unanswered, next, joining, seen, notify>>

-----------------------------------------------------------------------------
(* dsVideoPortInit *)

InitEnter(t) ==
    /\ At(t, "entered") /\ call[t].op = "init"
    /\ IsEnabled' = TRUE
    /\ Goto(t, "initLock")
    /\ UNCHANGED <<flags, locks, hdcpStatusCallback, client, world, displayOn,
                   unanswered, local>>

\* Mutant of InitLock: a port that is initialised is initialised again.
RepeatedInitLock(t) ==
    /\ At(t, "initLock") /\ initLock = Nobody
    /\ initLock' = t
    /\ Goto(t, "create")
    /\ UNCHANGED <<flags, lock, hdcpStatusCallback, client, world, port, local>>

\* When DRM cannot be opened the function returns without the unlock.
InitLock(t) ==
    /\ At(t, "initLock") /\ initLock = Nobody
    /\ \/ drmInitialized /\ Return(t) /\ UNCHANGED initLock
       \/ ~drmInitialized /\ initLock' = t /\ Goto(t, "create") /\ UNCHANGED call
       \/ ~drmInitialized /\ CanFail("initOpen") /\ initLock' = t /\ Return(t)
    /\ UNCHANGED <<flags, lock, hdcpStatusCallback, client, world, port,
                   next, joining, seen, notify>>

InitCreate(t) ==
    /\ At(t, "create")
    /\ drmRefreshAlive' = TRUE
    /\ \/ \E r \in Refreshers :
            /\ At(r, "idle")
            /\ drm_refresh_threadId' = r
            /\ pc' = [pc EXCEPT ![r] = "created", ![t] = "notify"]
       \/ /\ CanFail("refreshThread")
          /\ drm_refresh_threadId' = Nobody
          /\ Goto(t, "notify")
    /\ UNCHANGED <<drmInitialized, locks, hdcpStatusCallback, client, world,
                   port, local>>

\* The polling thread starts with dsGetVideoPort.
InitNotify(t) ==
    /\ At(t, "notify")
    /\ \/ \E n \in Notifiers :
            /\ At(n, "idle")
            /\ pc' = [pc EXCEPT ![n] = "check", ![t] = "publish"]
            /\ next' = [next EXCEPT ![n] = "handle"]
            /\ notify' = [notify EXCEPT ![n] = Fresh]
       \/ /\ CanFail("notifyThread")
          /\ Goto(t, "publish")
          /\ UNCHANGED <<next, notify>>
    /\ UNCHANGED <<flags, locks, hdcpStatusCallback, client, world, port,
                   call, joining, seen>>

InitPublish(t) ==
    /\ At(t, "publish")
    /\ drmInitialized' = TRUE
    /\ initLock' = Nobody
    /\ Return(t)
    /\ UNCHANGED <<drmRefreshAlive, drm_refresh_threadId, lock,
                   hdcpStatusCallback, client, world, port,
                   next, joining, seen, notify>>

-----------------------------------------------------------------------------
(* dsVideoPortTerm, without any lock *)

\* Mutant of TermEnter: the refresh thread is not told to end.
UnstoppedTerm(t) ==
    /\ At(t, "entered") /\ call[t].op = "term"
    /\ \/ drmInitialized /\ Goto(t, "termClear") /\ UNCHANGED call
       \/ ~drmInitialized /\ Return(t)
    /\ UNCHANGED <<flags, locks, hdcpStatusCallback, client, world, port,
                   next, joining, seen, notify>>

TermEnter(t) ==
    /\ At(t, "entered") /\ call[t].op = "term"
    /\ \/ /\ drmInitialized
          /\ drmRefreshAlive' = FALSE
          /\ Goto(t, "termClear")
          /\ UNCHANGED call
       \/ ~drmInitialized /\ Return(t) /\ UNCHANGED drmRefreshAlive
    /\ UNCHANGED <<drmInitialized, drm_refresh_threadId, locks,
                   hdcpStatusCallback, client, world, port,
                   next, joining, seen, notify>>

TermClear(t) ==
    /\ At(t, "termClear")
    /\ drmInitialized' = FALSE
    /\ Goto(t, "join")
    /\ UNCHANGED <<drmRefreshAlive, drm_refresh_threadId, locks,
                   hdcpStatusCallback, client, world, port, local>>

\* Mutant of TermJoin: the refresh thread is not joined.
UnjoinedTerm(t) ==
    /\ At(t, "join")
    /\ Return(t)
    /\ UNCHANGED <<flags, locks, hdcpStatusCallback, client, world, port,
                   next, joining, seen, notify>>

TermJoin(t) ==
    /\ At(t, "join")
    /\ IF drm_refresh_threadId = Nobody
       THEN Return(t) /\ UNCHANGED joining
       ELSE /\ joining' = [joining EXCEPT ![t] = drm_refresh_threadId]
            /\ Goto(t, "joining")
            /\ UNCHANGED call
    /\ UNCHANGED <<flags, locks, hdcpStatusCallback, client, world, port,
                   next, seen, notify>>

\* pthread_join: the thread has ended, or was joined already.
TermJoined(t) ==
    /\ At(t, "joining") /\ pc[joining[t]] \in {"exited", "idle"}
    /\ pc' = [pc EXCEPT ![joining[t]] = "idle", ![t] = "idle"]
    /\ call' = [call EXCEPT ![t] = NoCall]
    /\ joining' = [joining EXCEPT ![t] = Nobody]
    /\ UNCHANGED <<flags, locks, hdcpStatusCallback, client, world, port,
                   next, seen, notify>>

-----------------------------------------------------------------------------
(* drm_refresh_thread *)

Listening(r) == pc[r] \notin {"idle", "created", "exited"}

RefreshBegin(r) ==
    /\ At(r, "created")
    /\ \/ Goto(r, "loop")
       \/ CanFail("udev") /\ Goto(r, "exited")
    /\ UNCHANGED <<flags, locks, hdcpStatusCallback, client, world, port, local>>

RefreshLoop(r) ==
    /\ At(r, "loop")
    /\ Goto(r, IF drmRefreshAlive THEN "select" ELSE "exited")
    /\ pending' = IF drmRefreshAlive THEN pending
                                     ELSE [pending EXCEPT ![r] = 0]
    /\ UNCHANGED <<flags, locks, hdcpStatusCallback, client, plugged, hdcp,
                   unheard, raised, port, local>>

\* Mutant of RefreshSelect: the time-out of select is taken for an event.
UntestedSelect(r) ==
    /\ At(r, "select")
    /\ pending' = [pending EXCEPT ![r] = @ - 1]
    /\ CheckThen(r, "refresh")
    /\ UNCHANGED <<flags, locks, hdcpStatusCallback, client, plugged, hdcp,
                   unheard, raised, port, call, joining, seen, notify>>

\* Mutant of RefreshSelect: the event is received and dropped.
DroppedSelect(r) ==
    /\ At(r, "select")
    /\ pending' = [pending EXCEPT ![r] = IF @ > 0 THEN @ - 1 ELSE 0]
    /\ Goto(r, "loop")
    /\ UNCHANGED <<flags, locks, hdcpStatusCallback, client, plugged, hdcp,
                   unheard, raised, port, local>>

\* A "change" event, or the time-out of select.
RefreshSelect(r) ==
    /\ At(r, "select")
    /\ IF pending[r] > 0
       THEN /\ pending' = [pending EXCEPT ![r] = @ - 1]
            /\ CheckThen(r, "refresh")
       ELSE Goto(r, "loop") /\ UNCHANGED <<pending, next>>
    /\ UNCHANGED <<flags, locks, hdcpStatusCallback, client, plugged, hdcp,
                   unheard, raised, port, call, joining, seen, notify>>

\* drmRefreshConnector.  When DRM cannot be opened it goes on to the unlock
\* of a mutex it has not locked.
RefreshConnector(r) ==
    /\ At(r, "refresh")
    /\ \/ lock = Nobody /\ lock' = r /\ Goto(r, "refreshed") /\ UNCHANGED next
       \/ CanFail("refreshOpen") /\ lock' = Nobody /\ CheckThen(r, "handle")
    /\ UNCHANGED <<flags, initLock, hdcpStatusCallback, client, world, port,
                   call, joining, seen, notify>>

\* The unlock, then call_hdcpstatus_callback starts with dsGetVideoPort.
RefreshDone(r) ==
    /\ At(r, "refreshed")
    /\ lock' = Nobody
    /\ CheckThen(r, "handle")
    /\ UNCHANGED <<flags, initLock, hdcpStatusCallback, client, world, port,
                   call, joining, seen, notify>>

-----------------------------------------------------------------------------
(* dsGetVideoPort after its check, and call_hdcpstatus_callback *)

\* Where a thread goes on after the delivery, and without a handle.
AfterDelivery(t) == IF t \in Callers THEN "idle"
                    ELSE IF t \in Refreshers THEN "loop" ELSE "dv"
WithoutHandle(t) == IF t \in Refreshers THEN "loop" ELSE "idle"

Leave(t, l) ==
    /\ Goto(t, l)
    /\ call' = IF t \in Callers THEN [call EXCEPT ![t] = NoCall] ELSE call

GetHandle(t) ==
    /\ At(t, "handle")
    /\ hasHandle' = (hasHandle \/ (drmInitialized /\ t \in Callers))
    /\ \/ ~drmInitialized /\ Leave(t, WithoutHandle(t))
       \/ /\ drmInitialized /\ t \in Callers /\ call[t].op = "get"
          /\ Leave(t, "idle")
       \/ /\ drmInitialized /\ ~(t \in Callers /\ call[t].op = "get")
          /\ Goto(t, IF t \in Notifiers THEN "sample" ELSE "status")
          /\ UNCHANGED call
    /\ UNCHANGED <<flags, locks, hdcpStatusCallback, told, overtaken, badCall,
                   calls, inits, world, port, next, joining, seen, notify>>

\* Mutant of ReadStatus: every thread delivers nothing but a success.
ReadSuccess(t) ==
    /\ At(t, "status")
    /\ seen' = [seen EXCEPT ![t] = Status(hdcp)]
    /\ IF seen'[t] = "authenticated" THEN Goto(t, "tell") /\ UNCHANGED call
                                 ELSE Leave(t, AfterDelivery(t))
    /\ UNCHANGED <<flags, locks, hdcpStatusCallback, client, world, port,
                   next, joining, notify>>

\* dsGetHDCPStatus.  The polling thread delivers nothing but a success.
ReadStatus(t) ==
    /\ At(t, "status")
    /\ seen' = [seen EXCEPT ![t] = Status(hdcp)]
    /\ Goto(t, IF t \in Notifiers /\ Status(hdcp) = "failure" THEN "dv"
                                                              ELSE "tell")
    /\ UNCHANGED <<flags, locks, hdcpStatusCallback, client, world, port,
                   next, call, joining, notify>>

\* Mutant of TestCallback: the callback is called without the test.
UntestedCallback(t) ==
    /\ At(t, "tell")
    /\ Goto(t, "invoke")
    /\ UNCHANGED <<flags, locks, hdcpStatusCallback, client, world, port, local>>

TestCallback(t) ==
    /\ At(t, "tell")
    /\ \/ hdcpStatusCallback /\ Goto(t, "invoke") /\ UNCHANGED <<call, seen>>
       \/ /\ ~hdcpStatusCallback /\ Leave(t, AfterDelivery(t))
          /\ seen' = [seen EXCEPT ![t] = "failure"]
    /\ UNCHANGED <<flags, locks, hdcpStatusCallback, client, world, port,
                   next, joining, notify>>

\* The pointer is read a second time for the call.
Invoke(t) ==
    /\ At(t, "invoke")
    /\ told' = IF hdcpStatusCallback THEN seen[t] ELSE told
    /\ overtaken' = (/\ t \notin Refreshers /\ seen[t] = "authenticated"
                     /\ Status(hdcp) = "failure")
    /\ seen' = [seen EXCEPT ![t] = "failure"]
    /\ badCall' = (badCall \/ ~hdcpStatusCallback)
    /\ notify' = IF t \in Notifiers
                 THEN [notify EXCEPT ![t].notified = TRUE] ELSE notify
    /\ Leave(t, AfterDelivery(t))
    /\ UNCHANGED <<flags, locks, hdcpStatusCallback, hasHandle, calls, inits,
                   world, port, next, joining>>

-----------------------------------------------------------------------------
(* process_hdcp_dolbyVisonEnable *)

\* dsIsDisplayConnected is asked once, before the loop.
NotifySample(n) ==
    /\ At(n, "sample")
    /\ notify' = [notify EXCEPT ![n].connected = plugged]
    /\ Goto(n, "poll")
    /\ UNCHANGED <<flags, locks, hdcpStatusCallback, client, world, port,
                   next, call, joining, seen>>

NotifyPoll(n) ==
    /\ At(n, "poll")
    /\ Goto(n, IF ~notify[n].notified /\ notify[n].connected THEN "status"
                                                             ELSE "dv")
    /\ UNCHANGED <<flags, locks, hdcpStatusCallback, client, world, port, local>>

\* enableDolbyVisionCore may take several rounds; then the round is counted.
NotifyRound(n) ==
    /\ At(n, "dv")
    /\ \E ok \in BOOLEAN :
         LET v == [notify[n] EXCEPT !.dv = @ \/ ok, !.polls = @ + 1]
             over == (v.dv /\ v.notified) \/ v.polls >= PollLimit
         IN /\ notify' = [notify EXCEPT ![n] = IF over THEN Fresh ELSE v]
            /\ Goto(n, IF over THEN "idle" ELSE "poll")
    /\ UNCHANGED <<flags, locks, hdcpStatusCallback, client, world, port,
                   next, call, joining, seen>>

-----------------------------------------------------------------------------
(* The world: DRM raises a change event whenever the cable moves, and may  *)
(* or may not raise one when HDCP changes its mind while the cable stays.  *)

Raise ==
    /\ raised < MaxEvents
    /\ raised' = raised + 1
    /\ pending' = [r \in Refreshers |->
                     IF Listening(r) THEN pending[r] + 1 ELSE pending[r]]

Heard == raised' # raised /\ \E r \in Refreshers : Listening(r)
Lost == Status(hdcp) = "authenticated"

MoveCable ==
    /\ Raise
    /\ plugged' = ~plugged
    /\ hdcp' \in Shown(FALSE)
    /\ unheard' = (Status(hdcp') = "failure" /\ ~Heard /\ (unheard \/ Lost))
    /\ UNCHANGED <<flags, locks, hdcpStatusCallback, client, port, pc, local>>

Negotiate ==
    /\ hdcp' \in Shown(plugged) \ {hdcp}
    /\ Raise \/ UNCHANGED <<raised, pending>>
    /\ unheard' = (Status(hdcp') = "failure" /\ ~Heard /\ (unheard \/ Lost))
    /\ UNCHANGED <<flags, locks, hdcpStatusCallback, client, plugged, port, pc,
                   local>>

-----------------------------------------------------------------------------
Common(t) ==
    \/ CheckFlag(t) \/ CheckLock(t) \/ CheckWake(t)
    \/ GetHandle(t) \/ ReadStatus(t) \/ TestCallback(t) \/ Invoke(t)

CallerStep(t) ==
    \/ Common(t)
    \/ Register(t) \/ EnableDisplay(t) \/ EnableFlag(t)
    \/ InitEnter(t) \/ InitLock(t) \/ InitCreate(t) \/ InitNotify(t)
    \/ InitPublish(t)
    \/ TermEnter(t) \/ TermClear(t) \/ TermJoin(t) \/ TermJoined(t)

RefreshStep(r) ==
    \/ Common(r)
    \/ RefreshBegin(r) \/ RefreshLoop(r) \/ RefreshSelect(r)
    \/ RefreshConnector(r) \/ RefreshDone(r)

NotifyStep(n) ==
    Common(n) \/ NotifySample(n) \/ NotifyPoll(n) \/ NotifyRound(n)

WorldStep == MoveCable \/ Negotiate

Finished ==
    /\ \A t \in Threads : At(t, "idle") \/ At(t, "exited")
    /\ UNCHANGED vars

Next ==
    \/ \E t \in Callers : CallerStep(t) \/ \E c \in Calls : Call(t, c)
    \/ \E r \in Refreshers : RefreshStep(r)
    \/ \E n \in Notifiers : NotifyStep(n)
    \/ WorldStep
    \/ Finished

Spec == Init /\ [][Next]_vars

\* The threads of the process run; the client and the world may stop.
Fairness ==
    /\ \A t \in Callers : WF_vars(CallerStep(t))
    /\ \A r \in Refreshers : WF_vars(RefreshStep(r))
    /\ \A n \in Notifiers : WF_vars(NotifyStep(n))

FairSpec == Spec /\ Fairness

-----------------------------------------------------------------------------
(* Properties *)

CheckLabels == {"check", "wait", "asleep", "handle", "status", "tell", "invoke"}
CallerLabels ==
    CheckLabels \cup {"idle", "entered", "enabled", "initLock", "create",
                      "notify", "publish", "termClear", "join", "joining"}
RefreshLabels ==
    CheckLabels \cup {"idle", "created", "loop", "select", "refresh",
                      "refreshed", "exited"}
NotifyLabels == CheckLabels \cup {"idle", "sample", "poll", "dv"}

\* Every variable holds a value of its type, and each thread is at a place of
\* its own function.
TypeOK ==
    /\ initLock \in Callers \cup {Nobody} /\ lock \in Refreshers \cup {Nobody}
    /\ drmInitialized \in BOOLEAN /\ drmRefreshAlive \in BOOLEAN
    /\ drm_refresh_threadId \in Refreshers \cup {Nobody}
    /\ hdcpStatusCallback \in BOOLEAN /\ IsEnabled \in BOOLEAN
    /\ pc \in [Threads -> CallerLabels \cup RefreshLabels \cup NotifyLabels]
    /\ \A t \in Callers : pc[t] \in CallerLabels
    /\ \A r \in Refreshers : pc[r] \in RefreshLabels
    /\ \A n \in Notifiers : pc[n] \in NotifyLabels
    /\ next \in [Threads -> {"idle", "handle", "refresh"}]
    /\ call \in [Callers -> ApiCalls \cup {NoCall}]
    /\ joining \in [Callers -> Refreshers \cup {Nobody}]
    /\ seen \in [Threads -> Statuses]
    /\ notify \in [Notifiers -> [connected : BOOLEAN, notified : BOOLEAN,
                                 dv : BOOLEAN, polls : 0..PollLimit]]
    /\ pending \in [Refreshers -> 0..MaxEvents]
    /\ plugged \in BOOLEAN /\ hdcp \in Modes /\ unheard \in BOOLEAN
    /\ displayOn \in BOOLEAN /\ unanswered \in BOOLEAN
    /\ told \in Statuses \cup {"nothing"} /\ overtaken \in BOOLEAN
    /\ hasHandle \in BOOLEAN /\ badCall \in BOOLEAN
    /\ calls \in 0..MaxCalls /\ inits \in 0..MaxInits /\ raised \in 0..MaxEvents

\* However often the port is initialised and terminated, and whatever event the
\* old thread was busy with, two refresh threads are never alive together.
OneRefreshThread ==
    Cardinality({r \in Refreshers : pc[r] \notin {"idle", "exited"}}) <= 1

\* Once dsVideoPortTerm has returned no thread of the module calls the client.
SilentAfterTerm == [][\A t \in Threads : Invoke(t) => ~Off]_vars

\* A callback that the client clears while the port is off is never called
\* between the two reads of hdcpStatusCallback.
NoNullCall == ~badCall

\* With all work done, a client that was last told AUTHENTICATED is told what
\* dsGetHDCPStatus still answers.  Two cases excepted: HDCP was lost without an event
\* for the monitor (there was none, or drm_refresh_thread was not listening yet); and
\* dsRegisterHdcpStatusCallback or the boot-time notifier has told a status read
\* before HDCP was lost, after the refresh thread may have told the loss.
Settled ==
    /\ drmInitialized
    /\ \A t \in Callers \cup Notifiers : At(t, "idle")
    /\ \A r \in Refreshers :
         pc[r] \in {"idle", "exited", "loop", "select"} /\ pending[r] = 0

Excused == unheard \/ overtaken

ToldAuthenticatedIsCurrent ==
    Settled /\ told = "authenticated" /\ ~Excused
        => Status(hdcp) = "authenticated"

\* For whoever waits in CHECK_DRM_INITIALIZE the port is PortReadiness: it becomes
\* ready only through an initialisation that had initLock to itself, and no
\* initialisation starts while it is ready.
Readiness == INSTANCE PortReadiness WITH busy <- initLock # Nobody
ImplementsReadiness == Readiness!Spec

\* What dsIsVideoPortEnabled answers is the state of the display, unless the
\* compositor left the last dsEnableVideoPort without an answer.
EnabledIsDisplayed ==
    (hasHandle /\ ~unanswered
       /\ \A t \in Callers : call[t].op \notin {"init", "enable"})
        => IsEnabled = displayOn

\* Every call returns: CHECK_DRM_INITIALIZE waits for a bounded time, and the
\* thread dsVideoPortTerm joins does end.
CallsReturn == \A t \in Callers : call[t] # NoCall ~> call[t] = NoCall

\* A client that was told AUTHENTICATED and lost HDCP is told so, unless HDCP comes
\* back, the port is switched off, or the loss is one of the excepted cases.
LossIsTold ==
    (told = "authenticated" /\ Status(hdcp) = "failure")
        ~> \/ told # "authenticated" \/ Status(hdcp) = "authenticated"
           \/ ~drmInitialized \/ ~drmRefreshAlive \/ Excused

=============================================================================
