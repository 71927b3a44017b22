------------------------- MODULE InputSelectProofs -------------------------
(* Theorems about InputSelect, for any number of threads, sources and calls. *)
EXTENDS InputSelect, TLAPS

(***************************************************************************)
(* Typing.  A caller that is inside a ds... function is in the function it *)
(* was asked to call; this is what gives call[t].arg its type there.       *)
(***************************************************************************)
CallInv ==
    /\ call \in [Callers -> Calls \cup {NoCall}]
    /\ \A t \in Callers :
         /\ pc[t] \in {"allocate", "publish"} => call[t].op = "init"
         /\ pc[t] = "copy" => call[t].op = "getStatus"
         /\ pc[t] \in {"termStop", "termClear", "termFree", "termNull"}
              => call[t].op = "term"

TypeInv == TypeOK /\ CallInv

\* The argument of an API call has the type of the call's parameter.
LEMMA CallArgument ==
    ASSUME NEW c \in ApiCalls
    PROVE  /\ c.op = "select" => c.arg \in MaybeSource
           /\ c.op \in {"init", "term", "getStatus"} => c.arg \in Kinds
           /\ c.op = "register" => c.arg \in CallbackNames
  BY DEF ApiCalls

\* A request is a source or SOURCE_INVALID.
LEMMA RequestType == \A p : RequestFor(p) \in MaybeSource
  BY InputSelectAssumption DEF RequestFor, MaybeSource, Sources

\* Changing isPresented keeps the type of the status blocks.
LEMMA PresentedType ==
    ASSUME TypeOK, NEW k, NEW b \in BOOLEAN
    PROVE  WithPresented(k, b) \in
             StatusBlocks
  BY DEF TypeOK, WithPresented, IsLive, StatusBlocks

\* What check...InPortStatus stores is a set of sources.
LEMMA DetectedType == ASSUME TypeOK, NEW k \in Kinds
                      PROVE  Detected(k) \subseteq Sources
  BY DEF TypeOK, Detected, Sources, StatusBlocks

\* A use of a status block is recorded as nothing, "null" or "freed".
LEMMA UseType ==
    ASSUME TypeOK
    PROVE  /\ \A k \in Kinds : UnguardedUse(k) \subseteq {"null", "freed"}
           /\ \A k : GuardedUse(k) \subseteq {"freed"}
  BY DEF TypeOK, UnguardedUse, GuardedUse, StatusBlocks

\* What ds...InInit writes into a block keeps the types.
LEMMA FreshBlock ==
    ASSUME NEW st \in StatusBlocks, NEW k \in Kinds, NEW c \in SUBSET Sources
    PROVE  [st EXCEPT ![k] = [@ EXCEPT !.presented = FALSE, !.active = NoSource,
                                       !.connected = c]] \in StatusBlocks
<1> DEFINE new == [st[k] EXCEPT !.presented = FALSE, !.active = NoSource,
                                !.connected = c]
<1>1. new \in [mem : {"null", "live", "freed"}, active : MaybeSource,
               presented : BOOLEAN, connected : SUBSET Sources]
  BY DEF StatusBlocks, MaybeSource
<1> HIDE DEF new
<1>2. [st EXCEPT ![k] = new] \in StatusBlocks
  BY <1>1 DEF StatusBlocks
<1> QED
  BY <1>2 DEF new

\* Refreshing the connected inputs of a block keeps the types.
LEMMA NewConnected ==
    ASSUME NEW st \in StatusBlocks, NEW k \in Kinds, NEW c \in SUBSET Sources
    PROVE  [st EXCEPT ![k].connected = c] \in StatusBlocks
  BY DEF StatusBlocks

\* So does the new active input.
LEMMA NewActive ==
    ASSUME NEW st \in StatusBlocks, NEW k \in Kinds, NEW s \in MaybeSource
    PROVE  [st EXCEPT ![k].active = s] \in StatusBlocks
  BY DEF StatusBlocks

\* Every state a process can start in, dsInputSelect.c's globals, is well typed.
LEMMA InitType == Init => TypeInv
<1> SUFFICES ASSUME Init PROVE TypeInv
  OBVIOUS
<1> USE InputSelectAssumption DEF Init
<1>1. status \in StatusBlocks
  BY DEF NoBlock, MaybeSource, StatusBlocks
<1>2. /\ pc \in [Threads -> {"idle"}]
      /\ \A t \in Threads : pc[t] = "idle"
  OBVIOUS
<1>3. CallInv
  BY <1>2 DEF CallInv, Threads
<1>4. /\ pc \in [Threads -> CallerLabels \cup SwitcherLabels \cup TvLabels]
      /\ \A t \in Callers : pc[t] \in CallerLabels
      /\ \A t \in Switchers : pc[t] \in SwitcherLabels
      /\ pc[TvThread] \in TvLabels
  BY <1>2 DEF Threads, CallerLabels, SwitcherLabels, TvLabels
<1>5. calls \in 0..MaxCalls /\ raised \in 0..MaxEvents /\ events \in Seq(Events)
  OBVIOUS
<1>6. TypeOK
  BY <1>1, <1>4, <1>5 DEF TypeOK, NoEvent, MaybeSource
<1> QED
  BY <1>3, <1>6 DEF TypeInv

\* No step of a caller, of a request's thread, of the TV client's thread or of the
\* world leaves the types: one step of the proof per action.
LEMMA NextType == TypeInv /\ [Next]_vars => TypeInv'
<1> SUFFICES ASSUME TypeInv, [Next]_vars PROVE TypeInv'
  OBVIOUS
<1> USE InputSelectAssumption
    DEF TypeInv, TypeOK, CallInv, vars, locks, sel, tv, client, local, world,
        Threads, At, Goto, Return, CallerLabels, SwitcherLabels, TvLabels
<1>1. ASSUME NEW t \in Callers, NEW c \in Calls, Call(t, c)
      PROVE  TypeInv'
  <2>1. TypeOK'
    BY <1>1 DEF Call
  <2>2. CallInv'
    BY <1>1 DEF Call
  <2> QED
    BY <2>1, <2>2
<1>2. ASSUME NEW t \in Callers, NEW c \in Calls, Register(t, c)
      PROVE  TypeInv'
  BY <1>2, CallArgument DEF Register
<1>3. ASSUME NEW t \in Callers, SelectPort(t)
      PROVE  TypeInv'
  <2>1. /\ UNCHANGED <<selectMutex, portMutex, selectedSource, isPresenting,
                       tvclient, observing, status, callbacks, ready, calls,
                       event, started, plugged, events, raised, badUse>>
        /\ call' = [call EXCEPT ![t] = NoCall]
    BY <1>3 DEF SelectPort
  <2>2. CASE /\ pc' = [pc EXCEPT ![t] = "idle"]
             /\ UNCHANGED req
    BY <1>3, <2>1, <2>2
  <2>3. ASSUME NEW s \in Switchers,
               req' = [req EXCEPT ![s] = RequestFor(call[t].arg)],
               pc' = [pc EXCEPT ![s] = "created", ![t] = "idle"]
        PROVE  TypeInv'
    <3>1. req' \in [Switchers -> MaybeSource]
      BY <2>3, RequestType
    <3>2. /\ pc' \in [Threads -> CallerLabels \cup SwitcherLabels \cup TvLabels]
          /\ \A o \in Threads :
               pc'[o] = IF o = t THEN "idle" ELSE IF o = s THEN "created"
                        ELSE pc[o]
      BY <2>3
    <3>3. CallInv'
      BY <2>1, <3>2
    <3>4. call' \in [Callers -> ApiCalls \cup {NoCall}]
      BY <2>1
    <3>5. /\ \A o \in Callers : pc'[o] \in CallerLabels
          /\ \A o \in Switchers : pc'[o] \in SwitcherLabels
          /\ pc'[TvThread] \in TvLabels
      BY <3>2
    <3>6. TypeOK'
      BY <2>1, <3>1, <3>2, <3>4, <3>5
    <3> QED
      BY <3>3, <3>6
  <2> QED
    BY <1>3, <2>2, <2>3 DEF SelectPort
<1>4. ASSUME NEW t \in Callers, InitEnter(t)
      PROVE  TypeInv'
  BY <1>4 DEF InitEnter
<1>5. ASSUME NEW t \in Callers, InitAllocate(t)
      PROVE  TypeInv'
  BY <1>5 DEF InitAllocate, StatusBlocks, Blocks, MaybeSource, Sources, SourcesOf
<1>6. ASSUME NEW t \in Callers, InitPublish(t)
      PROVE  TypeInv'
  <2> DEFINE k == call[t].arg
  <2>1. k \in Kinds
    BY <1>6, CallArgument DEF InitPublish, NoCall
  <2>2. status' \in StatusBlocks
    <3>1. Detected(k) \in SUBSET Sources
      BY <2>1, DetectedType
    <3>2. CASE UNCHANGED status
      BY <3>2
    <3>3. CASE status' = [status EXCEPT ![k] =
                 [@ EXCEPT !.presented = FALSE, !.active = NoSource,
                           !.connected = Detected(k)]]
      <4> HIDE DEF k
      <4> QED
        BY <2>1, <3>1, <3>3, FreshBlock
    <3> QED
      BY <1>6, <3>2, <3>3 DEF InitPublish
  <2>3. ready' \subseteq Kinds
    BY <1>6, <2>1 DEF InitPublish
  <2>4. badUse' \subseteq {"null", "freed"}
    BY <1>6, <2>1, UseType DEF InitPublish
  <2> QED
    BY <1>6, <2>2, <2>3, <2>4 DEF InitPublish
<1>7. ASSUME NEW t \in Callers, StatusEnter(t)
      PROVE  TypeInv'
  BY <1>7 DEF StatusEnter
<1>8. ASSUME NEW t \in Callers, StatusCopy(t)
      PROVE  TypeInv'
  <2> DEFINE k == call[t].arg
  <2>1. k \in Kinds
    BY <1>8, CallArgument DEF StatusCopy, NoCall
  <2>2. badUse' \subseteq {"null", "freed"}
    BY <1>8, <2>1, UseType DEF StatusCopy
  <2>3. status' \in StatusBlocks
    <3>1. Detected(k) \in SUBSET Sources
      BY <2>1, DetectedType
    <3>2. CASE UNCHANGED status
      BY <3>2
    <3>3. CASE status' = [status EXCEPT ![k].connected = Detected(k)]
      <4> HIDE DEF k
      <4>1. status \in StatusBlocks
        OBVIOUS
      <4> QED
        BY <2>1, <3>1, <3>3, <4>1, NewConnected
    <3> QED
      BY <1>8, <3>2, <3>3 DEF StatusCopy
  <2> QED
    BY <1>8, <2>2, <2>3 DEF StatusCopy
<1>9. ASSUME NEW t \in Callers, TermEnter(t)
      PROVE  TypeInv'
  BY <1>9 DEF TermEnter
<1>10. ASSUME NEW t \in Callers, TermStop(t)
       PROVE  TypeInv'
  BY <1>10 DEF TermStop, StopTv
<1>11. ASSUME NEW t \in Callers, TermClear(t)
       PROVE  TypeInv'
  BY <1>11 DEF TermClear, MaybeSource
<1>12. ASSUME NEW t \in Callers, TermFree(t)
       PROVE  TypeInv'
  <2>1. status' \in StatusBlocks
    BY <1>12 DEF TermFree, StatusBlocks, IsLive
  <2> QED
    BY <1>12, <2>1 DEF TermFree
<1>13. ASSUME NEW t \in Callers, TermNull(t)
       PROVE  TypeInv'
  BY <1>13 DEF TermNull, StatusBlocks, NoBlock, NoCall, MaybeSource
<1>14. ASSUME NEW t \in Switchers, SwitchLock(t)
       PROVE  TypeInv'
  BY <1>14 DEF SwitchLock
<1>15. ASSUME NEW t \in Switchers, SwitchStop(t)
       PROVE  TypeInv'
  BY <1>15 DEF SwitchStop, StopTv, AfterStop
<1>16. ASSUME NEW t \in Switchers, SwitchStopped(t)
       PROVE  TypeInv'
  BY <1>16, PresentedType DEF SwitchStopped, AfterStop, GuardedUse, MaybeSource
<1>17. ASSUME NEW t \in Switchers, SwitchStart(t)
       PROVE  TypeInv'
  BY <1>17 DEF SwitchStart, StartTv
<1>18. ASSUME NEW t \in Switchers, SwitchAssign(t)
       PROVE  TypeInv'
  <2>1. badUse' \subseteq {"null", "freed"}
    BY <1>18, UseType DEF SwitchAssign
  <2>2. status' \in StatusBlocks
    <3> DEFINE k == KindOf(req[t])
    <3>1. req[t] \in MaybeSource
      OBVIOUS
    <3>2. \/ UNCHANGED status
          \/ k \in Kinds /\ status' = [status EXCEPT ![k].active = req[t]]
      BY <1>18 DEF SwitchAssign, IsLive
    <3>3. status \in StatusBlocks
      OBVIOUS
    <3> HIDE DEF k
    <3> QED
      BY ONLY <3>1, <3>2, <3>3, NewActive
  <2> QED
    BY <1>18, <2>1, <2>2 DEF SwitchAssign
<1>19. ASSUME NEW t \in Switchers, SwitchUnlock(t)
       PROVE  TypeInv'
  BY <1>19 DEF SwitchUnlock, MaybeSource
<1>20. CASE TvTake
  <2>1. Head(events) \in Events /\ Tail(events) \in Seq(Events)
    BY <1>20 DEF TvTake
  <2> QED
    BY <1>20, <2>1 DEF TvTake, Events
<1>21. CASE TvSignal
  <2>1. badUse' \subseteq {"null", "freed"}
    BY <1>21, UseType DEF TvSignal, Kinds
  <2>2. status' \in StatusBlocks
    BY <1>21, PresentedType DEF TvSignal
  <2>3. isPresenting' \in BOOLEAN
    BY <1>21 DEF TvSignal
  <2> QED
    BY <1>21, <2>1, <2>2, <2>3 DEF TvSignal
<1>22. CASE TvConnectLock
  BY <1>22 DEF TvConnectLock
<1>23. CASE TvPause
  BY <1>23 DEF TvPause, StopTv
<1>24. CASE TvResume
  BY <1>24 DEF TvResume, StartTv
<1>25. CASE TvShow
  BY <1>25, PresentedType DEF TvShow, GuardedUse
<1>26. CASE TvTell
  <2>1. badUse' \subseteq {"null", "freed"}
    <3>1. UnguardedUse("hdmi") \cup UnguardedUse("av")
            \subseteq {"null", "freed"}
      BY UseType DEF Kinds
    <3> QED
      BY <1>26, <3>1 DEF TvTell
  <2>2. status' \in StatusBlocks
    BY <1>26 DEF TvTell, StatusBlocks, IsLive, Sources
  <2> QED
    BY <1>26, <2>1, <2>2 DEF TvTell
<1>27. ASSUME NEW s \in Sources, MoveCable(s)
       PROVE  TypeInv'
  BY <1>27 DEF MoveCable, Raise, Events
<1>28. ASSUME NEW s \in Sources, NEW stable \in BOOLEAN, DetectSignal(s, stable)
       PROVE  TypeInv'
  BY <1>28 DEF DetectSignal, Raise, Events
<1>29. CASE Finished
  BY <1>29 DEF Finished
<1>30. CASE UNCHANGED vars
  BY <1>30
<1> QED
  BY <1>1, <1>2, <1>3, <1>4, <1>5, <1>6, <1>7, <1>8, <1>9, <1>10, <1>11, <1>12,
     <1>13, <1>14, <1>15, <1>16, <1>17, <1>18, <1>19, <1>20, <1>21, <1>22,
     <1>23, <1>24, <1>25, <1>26, <1>27, <1>28, <1>29, <1>30
  DEF Next, ClientStep, CallerStep, SwitcherStep, TvStep, WorldStep

\* All variables keep their types, whatever the client calls, whatever fails
\* and however the threads interleave.
THEOREM TypeCorrect == Spec => []TypeOK
<1>1. TypeInv => TypeOK
  BY DEF TypeInv
<1>2. QED
  BY <1>1, InitType, NextType, PTL DEF Spec

-----------------------------------------------------------------------------
(***************************************************************************)
(* One source at a time.  The argument: whoever is past its lock step in   *)
(* input_switching_thread or in the connect branch of TvEventCallback      *)
(* holds inputPortMutex (PortInv), so what that thread has established     *)
(* about the TV path and selectedSource is not disturbed until it unlocks  *)
(* (PathInv).  Both need that no Term function runs, because those change  *)
(* selectedSource without inputPortMutex, and that StopTv works, because a *)
(* failed StopTv does not keep the next source from being started.         *)
(***************************************************************************)
NeverTerminated == \A c \in Calls : c.op # "term"
StopReliable == "StopTv" \notin Faulty

SwitcherCritical == {"stop", "stopped", "start", "assign", "unlock"}
TvCritical == {"pause", "resume", "show"}

PortInv ==
    /\ \A t \in Switchers : pc[t] \in SwitcherCritical <=> portMutex = t
    /\ pc[TvThread] \in TvCritical <=> portMutex = TvThread

PathInv ==
    /\ (\A t \in Switchers : pc[t] # "assign") => started \subseteq {selectedSource}
    /\ \A t \in Switchers :
         /\ pc[t] = "stopped" => started = {}
         /\ pc[t] = "start" =>
              req[t] # NoSource /\ selectedSource \in {NoSource, req[t]}
         /\ pc[t] = "assign" => req[t] # NoSource /\ started \subseteq {req[t]}
    /\ pc[TvThread] # "idle" => event \in Events
    /\ pc[TvThread] = "resume" => selectedSource \in Sources

SelectorInv == TypeInv /\ PortInv /\ PathInv

\* A process starts with no source started and nobody on the path of a switch.
LEMMA InitSelector == Init => SelectorInv
<1> SUFFICES ASSUME Init PROVE PortInv /\ PathInv
  BY InitType DEF SelectorInv
<1>1. \A t \in Threads : pc[t] = "idle"
  BY DEF Init
<1> QED
  BY <1>1, InputSelectAssumption
  DEF Init, PortInv, PathInv, Threads, SwitcherCritical, TvCritical

\* No Term function is ever entered by a client that does not call one.
LEMMA NoTermStep ==
    ASSUME TypeInv, NeverTerminated, NEW t \in Callers
    PROVE  /\ call[t].op # "term"
           /\ pc[t] \notin {"termStop", "termClear", "termFree", "termNull"}
  BY DEF TypeInv, CallInv, NeverTerminated, NoCall

\* While nothing is freed and stops succeed, each step keeps the strengthened
\* invariant: what is started, what is selected and where the lock's holder is.
LEMMA NextSelector ==
    ASSUME NeverTerminated, StopReliable
    PROVE  SelectorInv /\ [Next]_vars => SelectorInv'
<1> SUFFICES ASSUME SelectorInv, [Next]_vars PROVE PortInv' /\ PathInv'
  BY NextType DEF SelectorInv
<1>1. TypeInv /\ PortInv /\ PathInv
  BY DEF SelectorInv
<1>2. /\ pc \in [Threads -> CallerLabels \cup SwitcherLabels \cup TvLabels]
      /\ req \in [Switchers -> MaybeSource] /\ started \subseteq Sources
      /\ event \in Events \cup {NoEvent} /\ events \in Seq(Events)
  BY <1>1 DEF TypeInv, TypeOK
<1> USE <1>1, <1>2, InputSelectAssumption
    DEF PortInv, PathInv, Threads, At, Goto, SwitcherCritical, TvCritical
\* A step that leaves the TV path, the port mutex and their users alone.
<1>3. ASSUME UNCHANGED <<selectedSource, portMutex, started, req, event>>,
             \A t \in Switchers \cup {TvThread} : pc'[t] = pc[t]
      PROVE  PortInv' /\ PathInv'
  BY <1>3
<1>4. ASSUME NEW t \in Callers, ClientStep(t) \/ CallerStep(t)
      PROVE  PortInv' /\ PathInv'
  <2> USE <1>4 DEF Return, locks, sel, tv, client, local, world
  <2>1. CASE SelectPort(t)
    <3>1. UNCHANGED <<selectedSource, portMutex, started, event>>
      BY <2>1 DEF SelectPort
    <3>2. CASE pc' = [pc EXCEPT ![t] = "idle"] /\ UNCHANGED req
      BY <3>1, <3>2, <1>3
    <3>3. ASSUME NEW s \in Switchers, pc[s] = "idle",
                 req' = [req EXCEPT ![s] = RequestFor(call[t].arg)],
                 pc' = [pc EXCEPT ![s] = "created", ![t] = "idle"]
          PROVE  PortInv' /\ PathInv'
      <4>1. \A o \in Switchers \cup {TvThread} :
              pc'[o] = IF o = s THEN "created" ELSE pc[o]
        BY <3>3
      <4>2. \A o \in Switchers : o # s => req'[o] = req[o]
        BY <3>3
      <4> QED
        BY <3>1, <3>3, <4>1, <4>2
    <3> QED
      BY <2>1, <3>2, <3>3 DEF SelectPort
  <2>2. ASSUME NEW c \in Calls, Call(t, c) \/ Register(t, c)
        PROVE  PortInv' /\ PathInv'
    BY <2>2, <1>3 DEF Call, Register
  <2>3. CASE InitEnter(t) \/ InitAllocate(t) \/ InitPublish(t)
    BY <2>3, <1>3 DEF InitEnter, InitAllocate, InitPublish
  <2>4. CASE StatusEnter(t) \/ StatusCopy(t)
    BY <2>4, <1>3 DEF StatusEnter, StatusCopy
  <2>5. ~ (TermEnter(t) \/ TermStop(t) \/ TermClear(t) \/ TermFree(t)
             \/ TermNull(t))
    BY NoTermStep DEF TermEnter, TermStop, TermClear, TermFree, TermNull
  <2> QED
    BY <2>1, <2>2, <2>3, <2>4, <2>5 DEF ClientStep, CallerStep
<1>5. ASSUME NEW t \in Switchers, SwitcherStep(t)
      PROVE  PortInv' /\ PathInv'
  <2> USE <1>5 DEF locks, sel, tv, client, local, world
  <2>1. CASE SwitchLock(t)
    BY <2>1 DEF SwitchLock
  <2>2. CASE SwitchStop(t)
    <3>1. started \subseteq {selectedSource}
      BY <2>2 DEF SwitchStop
    <3>2. started' = {} /\ pc' = [pc EXCEPT ![t] = "stopped"]
      BY <2>2, <3>1 DEF SwitchStop, StopTv, CanFail, StopReliable
    <3> QED
      BY <2>2, <3>2 DEF SwitchStop
  <2>3. CASE SwitchStopped(t)
    BY <2>3 DEF SwitchStopped, AfterStop
  <2>4. CASE SwitchStart(t)
    <3>1. started \subseteq {req[t]} /\ portMutex = t
      BY <2>4 DEF SwitchStart, MaybeSource
    <3> QED
      BY <2>4, <3>1 DEF SwitchStart, StartTv
  <2>5. CASE SwitchAssign(t)
    BY <2>5 DEF SwitchAssign
  <2>6. CASE SwitchUnlock(t)
    BY <2>6 DEF SwitchUnlock
  <2> QED
    BY <2>1, <2>2, <2>3, <2>4, <2>5, <2>6 DEF SwitcherStep
<1>6. CASE TvStep
  <2> USE <1>6 DEF locks, sel, tv, client, local, world
  <2>1. CASE TvTake
    <3>1. Head(events) \in Events
      BY <2>1 DEF TvTake
    <3>2. /\ event' \in Events /\ pc' = [pc EXCEPT ![TvThread] = event'.type]
          /\ event'.type \in {"connect", "signal"}
      BY <2>1, <3>1 DEF TvTake, Events
    <3> QED
      BY <2>1, <3>2 DEF TvTake
  <2>2. CASE TvSignal
    BY <2>2 DEF TvSignal
  <2>3. CASE TvConnectLock
    BY <2>3 DEF TvConnectLock, Events
  <2>4. CASE TvPause
    BY <2>4 DEF TvPause, StopTv, CanFail, StopReliable
  <2>5. CASE TvResume
    BY <2>5 DEF TvResume, StartTv
  <2>6. CASE TvShow
    BY <2>6 DEF TvShow
  <2>7. CASE TvTell
    BY <2>7 DEF TvTell
  <2> QED
    BY <2>1, <2>2, <2>3, <2>4, <2>5, <2>6, <2>7 DEF TvStep
<1>7. CASE WorldStep \/ Finished \/ UNCHANGED vars
  BY <1>7, <1>3
  DEF WorldStep, MoveCable, DetectSignal, Raise, Finished, vars, locks, sel, tv,
      client, local, world
<1> QED
  BY <1>4, <1>5, <1>6, <1>7 DEF Next

\* As long as no Term function is called and StopTv works, two TV sources are
\* never on together, for any number of requests and events in flight.
THEOREM OneSourceAtATime ==
    ASSUME NeverTerminated, StopReliable
    PROVE  Spec => []OneSourceStarted
<1>1. SelectorInv => OneSourceStarted
  <2> SUFFICES ASSUME SelectorInv PROVE OneSourceStarted
    OBVIOUS
  <2>1. CASE \A t \in Switchers : pc[t] # "assign"
    BY <2>1 DEF SelectorInv, PathInv, OneSourceStarted
  <2>2. CASE \E t \in Switchers : pc[t] = "assign"
    BY <2>2 DEF SelectorInv, PathInv, OneSourceStarted
  <2> QED
    BY <2>1, <2>2
<1>2. QED
  BY <1>1, InitSelector, NextSelector, PTL DEF Spec

\* Under the same conditions the code's selectedSource is the source that is
\* on whenever inputPortMutex is free.
THEOREM SelectedIsRunning ==
    ASSUME NeverTerminated, StopReliable
    PROVE  Spec => []RunningIsSelected
<1>1. SelectorInv => RunningIsSelected
  BY InputSelectAssumption
  DEF SelectorInv, PortInv, PathInv, RunningIsSelected, SwitcherCritical,
      Threads
<1>2. QED
  BY <1>1, InitSelector, NextSelector, PTL DEF Spec

-----------------------------------------------------------------------------
(* The threads implement TvSelector under the same two conditions. *)

\* SelectedInEffect follows the request of the one thread that is between
\* StartTv and its bookkeeping, and selectedSource otherwise.
LEMMA EffectOfAssign ==
    ASSUME PortInv
    PROVE  /\ \A t \in Switchers : pc[t] = "assign" => SelectedInEffect = req[t]
           /\ (\A t \in Switchers : pc[t] # "assign")
                => SelectedInEffect = selectedSource
  BY DEF PortInv, SwitcherCritical, SelectedInEffect, Assigning, At

\* The same of the next state.
LEMMA EffectOfAssignNext ==
    ASSUME PortInv'
    PROVE  /\ \A t \in Switchers :
                pc'[t] = "assign" => SelectedInEffect' = req'[t]
           /\ (\A t \in Switchers : pc'[t] # "assign")
                => SelectedInEffect' = selectedSource'
  BY DEF PortInv, SwitcherCritical, SelectedInEffect, Assigning, At

\* Every step of the detailed model is a step of the abstract selector or leaves
\* its two variables alone.
LEMMA SelectorStep ==
    ASSUME NeverTerminated, StopReliable
    PROVE  SelectorInv /\ SelectorInv' /\ [Next]_vars
             => [Selector!Next]_(Selector!vars)
<1> SUFFICES ASSUME SelectorInv, SelectorInv', [Next]_vars
             PROVE  Selector!Next \/ UNCHANGED <<SelectedInEffect, started>>
  BY DEF Selector!vars
<1>1. TypeInv /\ PortInv /\ PathInv /\ PortInv'
  BY DEF SelectorInv
<1>2. /\ pc \in [Threads -> CallerLabels \cup SwitcherLabels \cup TvLabels]
      /\ req \in [Switchers -> MaybeSource] /\ started \subseteq Sources
  BY <1>1 DEF TypeInv, TypeOK
<1> USE <1>1, <1>2, InputSelectAssumption DEF Threads, At, Goto
\* A step that leaves selectedSource and the requests alone and brings no
\* thread to or from its bookkeeping leaves SelectedInEffect alone.
<1>3. ASSUME UNCHANGED selectedSource,
             \A t \in Switchers : pc[t] = "assign" <=> pc'[t] = "assign",
             \A t \in Switchers : pc[t] = "assign" => req'[t] = req[t]
      PROVE  UNCHANGED SelectedInEffect
  BY <1>3, EffectOfAssign, EffectOfAssignNext
<1>4. ASSUME NEW t \in Callers, ClientStep(t) \/ CallerStep(t)
      PROVE  UNCHANGED <<SelectedInEffect, started>>
  <2> USE <1>4 DEF Return, locks, sel, tv, client, local, world
  <2>1. CASE SelectPort(t)
    <3>1. \A s \in Switchers :
            /\ pc[s] = "assign" <=> pc'[s] = "assign"
            /\ pc[s] = "assign" => req'[s] = req[s]
      BY <2>1 DEF SelectPort
    <3> QED
      BY <2>1, <3>1, <1>3 DEF SelectPort
  <2>2. ASSUME NEW c \in Calls, Call(t, c) \/ Register(t, c)
        PROVE  UNCHANGED <<SelectedInEffect, started>>
    BY <2>2, <1>3 DEF Call, Register
  <2>3. CASE InitEnter(t) \/ InitAllocate(t) \/ InitPublish(t)
    BY <2>3, <1>3 DEF InitEnter, InitAllocate, InitPublish
  <2>4. CASE StatusEnter(t) \/ StatusCopy(t)
    BY <2>4, <1>3 DEF StatusEnter, StatusCopy
  <2>5. ~ (TermEnter(t) \/ TermStop(t) \/ TermClear(t) \/ TermFree(t)
             \/ TermNull(t))
    BY NoTermStep DEF TermEnter, TermStop, TermClear, TermFree, TermNull
  <2> QED
    BY <2>1, <2>2, <2>3, <2>4, <2>5 DEF ClientStep, CallerStep
<1>5. ASSUME NEW t \in Switchers, SwitcherStep(t)
      PROVE  Selector!Next \/ UNCHANGED <<SelectedInEffect, started>>
  <2> USE <1>5 DEF locks, sel, tv, client, local, world
  <2>1. CASE SwitchLock(t)
    BY <2>1, <1>3 DEF SwitchLock
  \* The bookkeeping of a thread that holds inputPortMutex is its own.
  <2>2. ASSUME pc[t] \in SwitcherCritical
        PROVE  \A s \in Switchers : s # t => pc[s] # "assign"
    BY <2>2 DEF PortInv, SwitcherCritical
  <2>3. CASE SwitchStop(t)
    <3>1. UNCHANGED SelectedInEffect
      BY <2>3, <1>3 DEF SwitchStop, AfterStop
    <3>2. started' = {}
      BY <2>3, <2>2 DEF SwitchStop, StopTv, CanFail, StopReliable, PathInv,
         SwitcherCritical
    <3> QED
      BY <3>1, <3>2 DEF Selector!Next, Selector!Pause
  <2>4. CASE SwitchStopped(t)
    <3>1. started = {} /\ started' = {} /\ selectedSource' = NoSource
      BY <2>4 DEF SwitchStopped, PathInv
    <3>2. \A s \in Switchers : pc'[s] # "assign"
      BY <2>2, <2>4 DEF SwitchStopped, AfterStop, SwitcherCritical
    <3> QED
      BY <3>1, <3>2, EffectOfAssignNext DEF Selector!Next, Selector!Release
  <2>5. CASE SwitchStart(t)
    <3>1. /\ selectedSource \in {NoSource, req[t]} /\ req[t] \in Sources
          /\ started \subseteq {selectedSource}
      BY <2>2, <2>5 DEF SwitchStart, PathInv, SwitcherCritical, MaybeSource
    <3>2. SelectedInEffect = selectedSource
      BY <2>2, <2>5, EffectOfAssign DEF SwitchStart, SwitcherCritical
    <3>3. CASE StartTv(req[t]) /\ Goto(t, "assign")
      <4>1. SelectedInEffect' = req[t] /\ started' = {req[t]}
        BY <2>5, <3>1, <3>3, EffectOfAssignNext DEF SwitchStart, StartTv
      <4>2. CASE selectedSource = NoSource
        BY <3>1, <4>1, <4>2 DEF Selector!Next, Selector!Choose
      <4>3. CASE selectedSource = req[t]
        BY <3>1, <3>2, <4>1, <4>3 DEF Selector!Next, Selector!Resume
      <4> QED
        BY <3>1, <4>2, <4>3
    <3>4. CASE Goto(t, "unlock") /\ UNCHANGED started
      BY <2>5, <3>4, <1>3 DEF SwitchStart
    <3> QED
      BY <2>5, <3>3, <3>4 DEF SwitchStart
  <2>6. CASE SwitchAssign(t)
    <3>1. SelectedInEffect = req[t]
      BY <2>6, EffectOfAssign DEF SwitchAssign
    <3>2. \A s \in Switchers : pc'[s] # "assign"
      BY <2>2, <2>6 DEF SwitchAssign, SwitcherCritical
    <3> QED
      BY <2>6, <3>1, <3>2, EffectOfAssignNext DEF SwitchAssign
  <2>7. CASE SwitchUnlock(t)
    BY <2>7, <1>3 DEF SwitchUnlock
  <2> QED
    BY <2>1, <2>3, <2>4, <2>5, <2>6, <2>7 DEF SwitcherStep
<1>6. CASE TvStep
  <2> USE <1>6 DEF locks, sel, tv, client, local, world
  <2>1. ASSUME pc[TvThread] \in TvCritical
        PROVE  /\ SelectedInEffect = selectedSource
               /\ started \subseteq {selectedSource}
    <3>1. \A s \in Switchers : pc[s] # "assign"
      BY <2>1 DEF PortInv, SwitcherCritical
    <3> QED
      BY <3>1, EffectOfAssign DEF PathInv
  <2>2. CASE TvTake \/ TvSignal \/ TvConnectLock \/ TvShow \/ TvTell
    BY <2>2, <1>3 DEF TvTake, TvSignal, TvConnectLock, TvShow, TvTell
  <2>3. CASE TvPause
    <3>1. UNCHANGED SelectedInEffect
      BY <2>3, <1>3 DEF TvPause
    <3>2. started' = {}
      BY <2>1, <2>3 DEF TvPause, StopTv, CanFail, StopReliable, TvCritical
    <3> QED
      BY <3>1, <3>2 DEF Selector!Next, Selector!Pause
  <2>4. CASE TvResume
    <3>1. UNCHANGED SelectedInEffect
      BY <2>4, <1>3 DEF TvResume
    <3>2. /\ SelectedInEffect = selectedSource /\ selectedSource \in Sources
          /\ started' = {selectedSource} \/ UNCHANGED started
      BY <2>1, <2>4 DEF TvResume, StartTv, TvCritical, PathInv
    <3> QED
      BY <3>1, <3>2 DEF Selector!Next, Selector!Resume
  <2> QED
    BY <2>2, <2>3, <2>4 DEF TvStep
<1>7. CASE WorldStep \/ Finished \/ UNCHANGED vars
  BY <1>7, <1>3
  DEF WorldStep, MoveCable, DetectSignal, Raise, Finished, vars, locks, sel, tv,
      client, local, world
<1> QED
  BY <1>4, <1>5, <1>6, <1>7 DEF Next

\* The threads behave as one selector that stops a source before it starts
\* another one, and that keeps an unplugged source selected.
THEOREM SelectorImplemented ==
    ASSUME NeverTerminated, StopReliable
    PROVE  Spec => ImplementsSelector
<1>1. Init => Selector!Init
  BY InputSelectAssumption
  DEF Init, Selector!Init, SelectedInEffect, Assigning, At, Threads
<1>2. QED
  BY <1>1, InitSelector, NextSelector, SelectorStep, PTL
  DEF Spec, ImplementsSelector, Selector!Spec

-----------------------------------------------------------------------------
(***************************************************************************)
(* Status blocks.  A client that initialises every module it uses, once    *)
(* and first, selects, reads and registers only when all of Init is over   *)
(* (AllReady); so a block that is written by Init belongs to a module that *)
(* nothing is selected in, and a block that is used is there.              *)
(***************************************************************************)
Disciplined == {"initFirst", "initOnce"} \subseteq Discipline

InitCallOf(k) == [op |-> "init", arg |-> k]
InitsWhatItUses ==
    \A c \in Calls :
        /\ c.op = "getStatus" => InitCallOf(c.arg) \in Calls
        /\ c.op = "register" /\ c.arg = "status" => InitCallOf("hdmi") \in Calls
        /\ c.op = "register" /\ c.arg = "connectAv" => InitCallOf("av") \in Calls

AllReady == \A i \in Calls : i.op = "init" => i.arg \in ready

UseInv ==
    /\ callbacks # {} => AllReady
    /\ selectedSource # NoSource => AllReady
    /\ \A t \in Callers : call[t].op \in {"select", "getStatus"} => AllReady
    /\ \A t \in Switchers : pc[t] # "idle" => AllReady
    /\ "status" \in callbacks => InitCallOf("hdmi") \in Calls
    /\ "connectAv" \in callbacks => InitCallOf("av") \in Calls

OnceInv ==
    /\ \A t \in Callers : pc[t] = "idle" => call[t] = NoCall
    /\ \A t \in Callers : call[t].op = "init" => call[t].arg \notin ready
    /\ \A t, o \in Callers : call[t].op = "init" /\ call[o] = call[t] => t = o

BlockInv ==
    /\ \A k \in Kinds : status[k].mem # "freed"
    /\ \A k \in ready : status[k].mem = "live"
    /\ \A t \in Callers : pc[t] = "publish" => status[call[t].arg].mem = "live"
    /\ KindOf(selectedSource) \in Kinds /\ IsLive(KindOf(selectedSource))
         => status[KindOf(selectedSource)].active = selectedSource
    /\ badUse = {}

StatusInv == TypeInv /\ UseInv /\ OnceInv /\ BlockInv

\* Before the first call no block exists, nothing is selected, nothing is used.
LEMMA InitStatus == Init => StatusInv
<1> SUFFICES ASSUME Init PROVE UseInv /\ OnceInv /\ BlockInv
  BY InitType DEF StatusInv
<1>1. \A t \in Threads : pc[t] = "idle"
  BY DEF Init
<1>2. UseInv
  BY <1>1 DEF Init, UseInv, NoCall, Threads
<1>3. OnceInv
  BY <1>1 DEF Init, OnceInv, NoCall, Threads
<1>4. KindOf(selectedSource) = "none"
  BY InputSelectAssumption DEF Init, KindOf, Sources
<1>5. BlockInv
  BY <1>1, <1>4 DEF Init, BlockInv, NoBlock, Kinds, Threads
<1> QED
  BY <1>2, <1>3, <1>5

\* Nothing is freed when no Term function runs, and a block in use is there.
LEMMA NoBadUse ==
    ASSUME StatusInv
    PROVE  /\ \A k : GuardedUse(k) = {}
           /\ \A k \in ready : UnguardedUse(k) = {}
  BY DEF StatusInv, BlockInv, GuardedUse, UnguardedUse

\* Presenting or not, or a refresh of the connected inputs, changes neither the
\* existence nor the activePort of a block.
SameBlocks(new, old) ==
    \A j \in Kinds : new[j].mem = old[j].mem /\ new[j].active = old[j].active

LEMMA SameKeeps == \A st : SameBlocks(st, st)
  BY DEF SameBlocks

LEMMA PresentedKeeps ==
    ASSUME status \in StatusBlocks, NEW k, NEW b \in BOOLEAN
    PROVE  SameBlocks(WithPresented(k, b), status)
  BY DEF WithPresented, IsLive, StatusBlocks, SameBlocks

LEMMA ConnectedKeeps ==
    ASSUME NEW st \in StatusBlocks, NEW k, NEW c, NEW new,
           new = [st EXCEPT ![k].connected = c]
    PROVE  SameBlocks(new, st)
  BY DEF StatusBlocks, SameBlocks

\* A new activePort changes the existence of no block.
LEMMA ActiveKeeps ==
    ASSUME NEW st \in StatusBlocks, NEW k, NEW s, NEW new,
           new = [st EXCEPT ![k].active = s]
    PROVE  /\ \A j \in Kinds : new[j].mem = st[j].mem
           /\ k \in Kinds => new[k].active = s
  BY DEF StatusBlocks

\* Each step keeps the invariant: a step of Init happens while its module is not
\* ready, so that nothing is selected; every other use of a block finds it there.
LEMMA NextStatus ==
    ASSUME NeverTerminated, Disciplined, InitsWhatItUses
    PROVE  StatusInv /\ [Next]_vars => StatusInv'
<1> SUFFICES ASSUME StatusInv, [Next]_vars
             PROVE  UseInv' /\ OnceInv' /\ BlockInv'
  BY NextType DEF StatusInv
<1>1. TypeInv /\ UseInv /\ OnceInv /\ BlockInv
  BY DEF StatusInv
<1>2. /\ pc \in [Threads -> CallerLabels \cup SwitcherLabels \cup TvLabels]
      /\ call \in [Callers -> Calls \cup {NoCall}]
      /\ req \in [Switchers -> MaybeSource] /\ status \in StatusBlocks
      /\ ready \subseteq Kinds /\ selectedSource \in MaybeSource
      /\ TypeOK /\ CallInv
  BY <1>1 DEF TypeInv, TypeOK, CallInv
<1>3. Callers \cap Switchers = {} /\ TvThread \notin Callers \cup Switchers
  BY InputSelectAssumption
<1>4. /\ \A k : GuardedUse(k) = {}
      /\ \A k \in ready : UnguardedUse(k) = {}
  BY NoBadUse
<1>5. KindOf(NoSource) = "none" /\ "none" \notin Kinds
  BY InputSelectAssumption DEF KindOf, Sources, Kinds
<1> USE <1>1, <1>2, <1>3 DEF At, Goto, Threads
\* A step that leaves the client, the selection and who is inside a call alone.
<1>6. ASSUME UNCHANGED <<callbacks, selectedSource, ready, call>>,
             \A t \in Callers : pc'[t] = "idle" => pc[t] = "idle",
             \A t \in Switchers : pc'[t] # "idle" => pc[t] # "idle"
      PROVE  UseInv' /\ OnceInv'
  BY <1>6 DEF UseInv, OnceInv, AllReady
\* A step that changes no block as far as this invariant can tell.
<1>7. ASSUME UNCHANGED <<selectedSource, ready, call, badUse>>,
             \A t \in Callers : pc'[t] = "publish" => pc[t] = "publish",
             SameBlocks(status', status)
      PROVE  BlockInv'
  <2>1. \A t \in Callers : pc[t] = "publish" => call[t].arg \in Kinds
    BY CallArgument, InputSelectAssumption DEF CallInv, NoCall
  <2>2. UNCHANGED KindOf(selectedSource)
    BY <1>7 DEF KindOf
  <2> QED
    BY <1>7, <2>1, <2>2 DEF BlockInv, IsLive, SameBlocks
<1>8. ASSUME NEW t \in Callers, ClientStep(t) \/ CallerStep(t)
      PROVE  UseInv' /\ OnceInv' /\ BlockInv'
  <2> USE <1>8 DEF Return, locks, sel, tv, client, local, world
  <2>1. ASSUME NEW c \in Calls, Call(t, c)
        PROVE  UseInv' /\ OnceInv' /\ BlockInv'
    <3>1. c.op # "term"
      BY DEF NeverTerminated
    <3>2. /\ pc[t] = "idle" /\ pc' = [pc EXCEPT ![t] = "entered"]
          /\ call' = [call EXCEPT ![t] = c] /\ ready' = ready
          /\ UNCHANGED <<callbacks, selectedSource, status, badUse>>
      BY <2>1, <3>1 DEF Call
    <3>3. c.op # "init" => AllReady
      BY <2>1 DEF Call, Obeys, Disciplined, AllReady
    <3>4. c.op = "init" => /\ c.arg \notin ready
                           /\ \A o \in Callers : pc[o] # "idle" => call[o] # c
      BY <2>1 DEF Call, Obeys, Disciplined
    <3>5. UseInv'
      BY <3>2, <3>3 DEF UseInv, AllReady
    <3>6. OnceInv'
      <4>1. \A o \in Callers : call[o] = c => c.op # "init"
        BY <3>4 DEF OnceInv, NoCall
      <4> QED
        BY <3>2, <3>4, <4>1 DEF OnceInv
    <3>7. BlockInv'
      BY <3>2 DEF BlockInv, IsLive, KindOf
    <3> QED
      BY <3>5, <3>6, <3>7
  <2>2. ASSUME NEW c \in Calls, Register(t, c)
        PROVE  UseInv' /\ OnceInv' /\ BlockInv'
    <3>1. AllReady /\ callbacks' = callbacks \cup {c.arg} /\ c.op = "register"
      BY <2>2 DEF Register, Obeys, Disciplined, AllReady
    <3>2. UNCHANGED <<pc, call, ready, selectedSource, status, badUse>>
      BY <2>2 DEF Register
    <3>3. UseInv'
      BY <3>1, <3>2 DEF UseInv, AllReady, InitsWhatItUses
    <3>4. OnceInv'
      BY <3>2 DEF OnceInv
    <3> QED
      BY <3>2, <3>3, <3>4, <1>7 DEF SameBlocks
  <2>3. CASE SelectPort(t)
    <3>1. AllReady
      BY <2>3 DEF SelectPort, UseInv
    <3>2. /\ UNCHANGED <<callbacks, selectedSource, ready, status, badUse>>
          /\ call' = [call EXCEPT ![t] = NoCall]
          /\ \A o \in Callers : o # t => pc'[o] = pc[o]
          /\ pc'[t] = "idle"
      BY <2>3 DEF SelectPort
    <3>3. UseInv'
      BY <3>1, <3>2 DEF UseInv, AllReady, NoCall
    <3>4. OnceInv'
      BY <3>2 DEF OnceInv, NoCall
    <3>5. BlockInv'
      BY <3>2 DEF BlockInv, IsLive, KindOf
    <3> QED
      BY <3>3, <3>4, <3>5
  <2>4. CASE InitEnter(t)
    BY <2>4, <1>6, <1>7 DEF InitEnter, SameBlocks
  <2>5. CASE InitAllocate(t)
    <3> DEFINE k == call[t].arg
    <3>1. call[t].op = "init" /\ k \in Kinds /\ k \notin ready /\ ~AllReady
      BY <2>5, CallArgument, InputSelectAssumption
      DEF InitAllocate, OnceInv, CallInv, AllReady, NoCall
    <3>2. selectedSource = NoSource
      BY <3>1 DEF UseInv
    <3>3. /\ UNCHANGED <<callbacks, selectedSource, ready, call, badUse>>
          /\ pc' = [pc EXCEPT ![t] = "publish"] /\ pc[t] = "allocate"
      BY <2>5 DEF InitAllocate
    <3>4. /\ \A j \in Kinds : j # k => status'[j] = status[j]
          /\ status'[k].mem = "live"
      <4>1. CASE status[k].mem = "null"
        BY <2>5, <3>1, <4>1 DEF InitAllocate, StatusBlocks
      <4>2. CASE status[k].mem # "null"
        <5>1. status[k].mem = "live"
          BY <3>1, <4>2 DEF StatusBlocks, BlockInv
        <5> QED
          BY <2>5, <4>2, <5>1 DEF InitAllocate
      <4> QED
        BY <4>1, <4>2
    <3>5. \A o \in Callers : pc[o] = "publish" => call[o].arg \in Kinds
      BY CallArgument, InputSelectAssumption DEF CallInv, NoCall
    <3>6. BlockInv'
      <4> HIDE DEF k
      <4>1. call[t].arg = k
        BY DEF k
      <4>2. /\ \A j \in Kinds : status'[j].mem # "freed"
            /\ \A j \in ready' : status'[j].mem = "live"
        BY <3>1, <3>3, <3>4 DEF BlockInv
      <4>3. \A o \in Callers :
              pc'[o] = "publish" => status'[call'[o].arg].mem = "live"
        BY <3>3, <3>4, <3>5, <4>1 DEF BlockInv
      <4>4. KindOf(selectedSource)' \notin Kinds
        BY <1>5, <3>2, <3>3 DEF KindOf
      <4> QED
        BY <3>3, <4>2, <4>3, <4>4 DEF BlockInv
    <3> QED
      BY <3>3, <3>6, <1>6
  <2>6. CASE InitPublish(t)
    <3> DEFINE k == call[t].arg
    <3>1. call[t].op = "init" /\ k \in Kinds /\ k \notin ready /\ ~AllReady
      BY <2>6, CallArgument, InputSelectAssumption
      DEF InitPublish, OnceInv, CallInv, AllReady, NoCall
    <3>2. /\ selectedSource = NoSource /\ callbacks = {}
          /\ \A o \in Callers : call[o].op \notin {"select", "getStatus"}
          /\ \A s \in Switchers : pc[s] = "idle"
      BY <3>1 DEF UseInv
    <3>8. badUse' = badUse
      <4>1. status[k].mem = "live"
        BY <2>6 DEF InitPublish, BlockInv
      <4>2. UnguardedUse(k) = {}
        BY <4>1 DEF UnguardedUse
      <4> QED
        BY <2>6, <4>2 DEF InitPublish
    <3>3. /\ UNCHANGED <<callbacks, selectedSource, badUse>>
          /\ pc' = [pc EXCEPT ![t] = "idle"] /\ pc[t] = "publish"
          /\ call' = [call EXCEPT ![t] = NoCall]
          /\ ready' \in {ready, ready \cup {k}}
      BY <2>6, <3>8 DEF InitPublish
    <3>4. \A j \in Kinds : status'[j].mem = status[j].mem
      <4> DEFINE b == [status[k] EXCEPT !.presented = FALSE, !.active = NoSource,
                                        !.connected = Detected(k)]
      <4>1. b.mem = status[k].mem
        BY <3>1 DEF StatusBlocks
      <4> HIDE DEF b
      <4>2. UNCHANGED status \/ status' = [status EXCEPT ![k] = b]
        BY <2>6 DEF InitPublish, b
      <4> HIDE DEF k
      <4> QED
        BY ONLY <1>2, <3>1, <4>1, <4>2 DEF StatusBlocks
    <3>5. UseInv'
      BY <3>2, <3>3 DEF UseInv, NoCall
    <3>6. OnceInv'
      <4>1. \A o \in Callers : o # t /\ call[o].op = "init" => call[o].arg # k
        <5> SUFFICES ASSUME NEW o \in Callers, o # t, call[o].op = "init",
                            call[o].arg = k
                     PROVE  FALSE
          OBVIOUS
        <5>1. call[o] = call[t]
          BY <3>1 DEF ApiCalls, NoCall, TypeOK
        <5> QED
          BY <3>1, <5>1 DEF OnceInv
      <4> QED
        BY <3>3, <4>1 DEF OnceInv, NoCall
    <3>7. BlockInv'
      <4> HIDE DEF k
      <4>1. call[t].arg = k /\ status[k].mem = "live"
        BY <3>3 DEF BlockInv, k
      <4>2. \A o \in Callers : pc[o] = "publish" => call[o].arg \in Kinds
        BY CallArgument, InputSelectAssumption DEF CallInv, NoCall
      <4>3. /\ \A j \in Kinds : status'[j].mem # "freed"
            /\ \A j \in ready' : status'[j].mem = "live"
        BY <3>1, <3>3, <3>4, <4>1 DEF BlockInv
      <4>4. \A o \in Callers :
              pc'[o] = "publish" => status'[call'[o].arg].mem = "live"
        BY <3>3, <3>4, <4>2 DEF BlockInv
      <4>5. KindOf(selectedSource)' \notin Kinds
        BY <1>5, <3>2, <3>3 DEF KindOf
      <4> QED
        BY <3>3, <4>3, <4>4, <4>5 DEF BlockInv
    <3> QED
      BY <3>5, <3>6, <3>7
  <2>7. CASE StatusEnter(t)
    BY <2>7, <1>6, <1>7 DEF StatusEnter, SameBlocks
  <2>8. CASE StatusCopy(t)
    <3> DEFINE k == call[t].arg
    <3>1. call[t] \in Calls /\ call[t].op = "getStatus" /\ k \in Kinds
      BY <2>8, CallArgument, InputSelectAssumption DEF StatusCopy, CallInv, NoCall
    <3>2. k \in ready
      BY <3>1 DEF UseInv, AllReady, InitsWhatItUses, InitCallOf
    <3>3. badUse' = badUse
      BY <2>8, <3>2, <1>4 DEF StatusCopy, BlockInv
    <3>4. \/ UNCHANGED status
          \/ status' = [status EXCEPT ![k].connected = Detected(k)]
      BY <2>8 DEF StatusCopy
    <3>5. SameBlocks(status', status)
      BY ONLY <1>2, <3>4, SameKeeps, ConnectedKeeps
    <3>6. /\ UNCHANGED <<callbacks, selectedSource, ready>>
          /\ pc' = [pc EXCEPT ![t] = "idle"]
          /\ call' = [call EXCEPT ![t] = NoCall]
      BY <2>8 DEF StatusCopy
    <3>7. UseInv'
      BY <3>6 DEF UseInv, AllReady, NoCall
    <3>8. OnceInv'
      BY <3>6 DEF OnceInv, NoCall
    <3>9. \A o \in Callers : pc[o] = "publish" => call[o].arg \in Kinds
      BY CallArgument, InputSelectAssumption DEF CallInv, NoCall
    <3>10. BlockInv'
      BY <3>3, <3>5, <3>6, <3>9 DEF BlockInv, IsLive, KindOf, SameBlocks
    <3> QED
      BY <3>7, <3>8, <3>10
  <2>9. ~ (TermEnter(t) \/ TermStop(t) \/ TermClear(t) \/ TermFree(t)
             \/ TermNull(t))
    BY NoTermStep DEF TermEnter, TermStop, TermClear, TermFree, TermNull
  <2> QED
    BY <2>1, <2>2, <2>3, <2>4, <2>5, <2>6, <2>7, <2>8, <2>9
    DEF ClientStep, CallerStep
<1>9. ASSUME NEW t \in Switchers, SwitcherStep(t)
      PROVE  UseInv' /\ OnceInv' /\ BlockInv'
  <2> USE <1>9 DEF locks, sel, tv, client, local, world
  <2>1. CASE SwitchLock(t)
    BY <2>1, <1>6, <1>7 DEF SwitchLock, SameBlocks
  <2>2. CASE SwitchStop(t)
    BY <2>2, <1>6, <1>7 DEF SwitchStop, AfterStop, SameBlocks
  <2>3. CASE SwitchStopped(t)
    <3>1. /\ selectedSource' = NoSource /\ badUse' = badUse
          /\ UNCHANGED <<callbacks, ready, call>>
          /\ \A o \in Callers : pc'[o] = pc[o]
          /\ \A s \in Switchers : pc'[s] # "idle" => pc[s] # "idle"
          /\ status' = WithPresented(KindOf(req[t]), FALSE)
      BY <2>3, <1>4 DEF SwitchStopped, AfterStop
    <3>2. SameBlocks(status', status)
      BY <3>1, PresentedKeeps, Zenon
    <3>3. UseInv' /\ OnceInv'
      BY <3>1 DEF UseInv, OnceInv, AllReady
    <3>4. KindOf(selectedSource)' \notin Kinds
      BY <1>5, <3>1 DEF KindOf
    <3>5. \A o \in Callers : pc[o] = "publish" => call[o].arg \in Kinds
      BY CallArgument, InputSelectAssumption DEF CallInv, NoCall
    <3>6. BlockInv'
      BY <3>1, <3>2, <3>4, <3>5 DEF BlockInv, SameBlocks
    <3> QED
      BY <3>3, <3>6
  <2>4. CASE SwitchStart(t)
    BY <2>4, <1>6, <1>7 DEF SwitchStart, SameBlocks
  <2>5. CASE SwitchAssign(t)
    <3> DEFINE k == KindOf(req[t])
    <3>1. /\ selectedSource' = req[t] /\ badUse' = badUse
          /\ UNCHANGED <<callbacks, ready, call>>
          /\ pc' = [pc EXCEPT ![t] = "unlock"] /\ pc[t] = "assign"
          /\ status' = IF IsLive(k) THEN [status EXCEPT ![k].active = req[t]]
                                    ELSE status
      BY <2>5, <1>4 DEF SwitchAssign
    <3>2. AllReady
      BY <3>1 DEF UseInv
    <3>3. UseInv' /\ OnceInv'
      BY <3>1, <3>2 DEF UseInv, OnceInv, AllReady
    <3>4. KindOf(selectedSource)' = k
      BY <3>1 DEF KindOf
    <3> HIDE DEF k
    <3>5. \A j \in Kinds : status'[j].mem = status[j].mem
      BY ONLY <1>2, <3>1, ActiveKeeps
    <3>6. k \in Kinds /\ status[k].mem = "live" => status'[k].active = req[t]
      <4> SUFFICES ASSUME k \in Kinds, status[k].mem = "live"
                   PROVE  status'[k].active = req[t]
        OBVIOUS
      <4>1. IsLive(k)
        BY DEF IsLive
      <4>2. status' = [status EXCEPT ![k].active = req[t]] /\ k \in Kinds
        BY <3>1, <4>1
      <4> QED
        BY ONLY <1>2, <4>2 DEF StatusBlocks
    <3>7. \A o \in Callers : pc[o] = "publish" => call[o].arg \in Kinds
      BY CallArgument, InputSelectAssumption DEF CallInv, NoCall
    <3>8. BlockInv'
      BY <3>1, <3>4, <3>5, <3>6, <3>7 DEF BlockInv, IsLive
    <3> QED
      BY <3>3, <3>8
  <2>6. CASE SwitchUnlock(t)
    BY <2>6, <1>6, <1>7 DEF SwitchUnlock, SameBlocks
  <2> QED
    BY <2>1, <2>2, <2>3, <2>4, <2>5, <2>6 DEF SwitcherStep
<1>10. CASE TvStep
  <2> USE <1>10 DEF locks, sel, tv, client, local, world
  <2>1. CASE TvTake \/ TvConnectLock \/ TvPause \/ TvResume
    BY <2>1, <1>6, <1>7
    DEF TvTake, TvConnectLock, TvPause, TvResume, SameBlocks
  <2>2. "status" \in callbacks => UnguardedUse("hdmi") = {}
    BY <1>4 DEF UseInv, AllReady, InitCallOf
  <2>3. "connectAv" \in callbacks => UnguardedUse("av") = {}
    BY <1>4 DEF UseInv, AllReady, InitCallOf
  <2>4. CASE TvSignal
    <3>1. badUse' = badUse
      BY <2>2, <2>4, <1>4 DEF TvSignal, BlockInv
    <3>2. \/ UNCHANGED status
          \/ status' = WithPresented(KindOf(event.src), TRUE)
      BY <2>4 DEF TvSignal
    <3>3. SameBlocks(status', status)
      BY <3>2, SameKeeps, PresentedKeeps, Zenon
    <3> QED
      BY <2>4, <3>1, <3>3, <1>6, <1>7 DEF TvSignal
  <2>5. CASE TvShow
    <3>1. badUse' = badUse
      BY <2>5, <1>4 DEF TvShow, BlockInv
    <3>2. /\ status' = WithPresented(KindOf(event.src), isPresenting)
          /\ isPresenting \in BOOLEAN
      BY <2>5 DEF TvShow, TypeOK
    <3>3. SameBlocks(status', status)
      BY <3>2, SameKeeps, PresentedKeeps, Zenon
    <3> QED
      BY <2>5, <3>1, <3>3, <1>6, <1>7 DEF TvShow
  <2>6. CASE TvTell
    <3>1. badUse' = badUse
      BY <2>2, <2>3, <2>6 DEF TvTell, BlockInv
    <3>2. \/ UNCHANGED status
          \/ \E c : status' = [status EXCEPT !["av"].connected = c]
      BY <2>6 DEF TvTell, StatusBlocks, Kinds
    <3>3. SameBlocks(status', status)
      BY ONLY <1>2, <3>2, SameKeeps, ConnectedKeeps
    <3> QED
      BY <2>6, <3>1, <3>3, <1>6, <1>7 DEF TvTell
  <2> QED
    BY <2>1, <2>4, <2>5, <2>6 DEF TvStep
<1>11. CASE WorldStep \/ Finished \/ UNCHANGED vars
  BY <1>11, <1>6, <1>7
  DEF SameBlocks, WorldStep, MoveCable, DetectSignal, Raise, Finished, vars, locks, sel, tv,
      client, local, world
<1> QED
  BY <1>8, <1>9, <1>10, <1>11 DEF Next

\* For a client that initialises each module once, before it uses it, and never
\* terminates it, no thread ever uses a status block that is not there.
THEOREM BlocksAllocated ==
    ASSUME NeverTerminated, Disciplined, InitsWhatItUses
    PROVE  Spec => []StatusBlocksAllocated
<1>1. StatusInv => StatusBlocksAllocated
  BY DEF StatusInv, BlockInv, StatusBlocksAllocated
<1>2. QED
  BY <1>1, InitStatus, NextStatus, PTL DEF Spec

\* For such a client the activePort of the selected source's status block is that
\* source.
THEOREM SelectedIsActive ==
    ASSUME NeverTerminated, Disciplined, InitsWhatItUses
    PROVE  Spec => []ActivePortIsSelected
<1>1. StatusInv => ActivePortIsSelected
  BY DEF StatusInv, BlockInv, ActivePortIsSelected
<1>2. QED
  BY <1>1, InitStatus, NextStatus, PTL DEF Spec
=============================================================================
