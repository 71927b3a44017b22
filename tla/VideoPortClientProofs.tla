------------------------- MODULE VideoPortClientProofs -------------------------
(* What the client of VideoPort knows: the HDCP status it was told last and what   *)
(* dsIsVideoPortEnabled answers, for any number of threads, calls and events.      *)
EXTENDS VideoPortProofs

(***************************************************************************)
(* The HDCP status.  The port is on when it is initialised and no          *)
(* dsVideoPortTerm has begun.  While it is on and HDCP is lost, a client   *)
(* that was told AUTHENTICATED is owed the news: an event waits in the     *)
(* monitor of a refresh thread, or that thread is on its way to read the   *)
(* status again, or about to tell the failure it has read.                 *)
(***************************************************************************)
On == drmInitialized /\ drmRefreshAlive

Reading == {"check", "wait", "asleep", "refresh", "refreshed", "handle", "status"}

Owed(r) ==
    \/ pending[r] > 0
    \/ pc[r] \in Reading
    \/ pc[r] \in {"tell", "invoke"} /\ seen[r] = "failure"

\* Between the two steps of dsVideoPortTerm that clear them, and only there, the port
\* is initialised without a refresh thread that goes on.
SwitchInv ==
    /\ drmInitialized /\ ~drmRefreshAlive => \E t \in Callers : pc[t] = "termClear"
    /\ \A t \in Callers : pc[t] \in {"notify", "publish"} => drmRefreshAlive

\* What was told before dsVideoPortInit is forgotten, and nothing is told until the
\* port is initialised.
FreshInv ==
    /\ ~drmInitialized /\ (\E t \in Callers : call[t].op = "init") => told = "nothing"
    /\ ~drmInitialized /\ (\E t \in Callers : call[t].op = "init")
         => \A r \in Refreshers : pc[r] \notin Delivering

Current == Status(hdcp) = "authenticated"

NewsInv ==
    /\ \A r \in Refreshers : pc[r] \in {"tell", "invoke"} /\ seen[r] = "authenticated"
         => Current \/ unheard \/ pending[r] > 0
    /\ On /\ told = "authenticated" =>
         /\ hdcpStatusCallback
         /\ Current \/ Excused \/ \E r \in Refreshers : Owed(r)

ToldInv == SwitchInv /\ FreshInv /\ NewsInv

Dormant == {"idle", "created", "exited"}

\* The steps of the client wake no refresh thread and move no event.  What its own
\* registration tells holds when it is told, or is marked.
LEMMA CallersKeepNews ==
    ASSUME ManagedAlone, TypeInv, CallbackInv, NEW t \in Callers,
           CallerStep(t) \/ \E c \in Calls : Call(t, c)
    PROVE  /\ UNCHANGED <<hdcp, unheard, pending>>
           /\ \A r \in Refreshers :
                /\ seen'[r] = seen[r]
                /\ pc'[r] = pc[r] \/ (pc[r] \in Dormant /\ pc'[r] \in Dormant)
           /\ \/ UNCHANGED <<told, overtaken>>
              \/ told' = "nothing" /\ \E c \in Calls : Call(t, c)
              \/ /\ drmInitialized /\ hdcpStatusCallback
                 /\ UNCHANGED <<flags, hdcpStatusCallback>>
                 /\ told' = "authenticated" => Current \/ overtaken'
<1>1. /\ pc \in [Threads -> AllLabels] /\ t \in Threads /\ t \notin Refreshers
      /\ \A r \in Refreshers : r \in Threads /\ r # t
      /\ Notifiers = {} /\ seen \in [Threads -> Statuses]
  BY Kinds DEF TypeInv, TypeOK, AllLabels, ManagedAlone
<1>2. CASE Common(t) \/ OwnStep(t) \/ \E c \in Calls : Call(t, c)
  <2>1. /\ \E l \in AllLabels : Goto(t, l)
        /\ UNCHANGED <<hdcp, unheard, pending>>
        /\ \A r \in Refreshers : seen'[r] = seen[r]
        /\ \/ UNCHANGED <<told, overtaken>>
           \/ told' = "nothing" /\ \E c \in Calls : Call(t, c)
           \/ /\ drmInitialized /\ hdcpStatusCallback
              /\ UNCHANGED <<flags, hdcpStatusCallback>>
              /\ told' = "authenticated" => Current \/ overtaken'
    <3>1. CASE Common(t)
      <4>1. /\ \E l \in AllLabels : Goto(t, l)
            /\ UNCHANGED <<hdcp, unheard, pending, flags, hdcpStatusCallback>>
        BY <1>1, <3>1, CommonPlaces, PlaceLabels DEF world
      <4>2. CASE CheckFlag(t) \/ CheckLock(t) \/ CheckWake(t) \/ GetHandle(t)
        BY <4>1, <4>2 DEF CheckFlag, CheckLock, CheckWake, GetHandle, local, client
      <4>3. CASE ReadStatus(t) \/ TestCallback(t)
        <5>1. UNCHANGED <<told, overtaken>>
          BY <4>3 DEF ReadStatus, TestCallback, client
        <5>2. \A r \in Refreshers : seen'[r] = seen[r]
          BY <1>1, <4>3 DEF ReadStatus, TestCallback
        <5> QED
          BY <4>1, <5>1, <5>2
      <4>4. CASE Invoke(t)
        <5>1. drmInitialized /\ hdcpStatusCallback
          BY <4>4 DEF Invoke, At, CallbackInv, Delivering
        <5>2. \A r \in Refreshers : seen'[r] = seen[r]
          BY <1>1, <4>4 DEF Invoke
        <5>3. told' = seen[t]
              /\ overtaken' = (seen[t] = "authenticated" /\ Status(hdcp) = "failure")
          BY <1>1, <4>4, <5>1 DEF Invoke
        <5> QED
          BY <4>1, <5>1, <5>2, <5>3 DEF Current, Status
      <4> QED
        BY <3>1, <4>2, <4>3, <4>4 DEF Common
    <3>2. CASE OwnStep(t)
      <4>1. \E l \in {"check", "enabled", "idle", "initLock", "create", "termClear", "join",
                      "joining"} : Goto(t, l)
        BY <3>2 DEF OwnStep, Register, EnableDisplay, EnableFlag, InitEnter, InitLock,
           InitPublish, TermEnter, TermClear, TermJoin, CheckThen, Return
      <4>2. UNCHANGED <<hdcp, unheard, pending, seen, told, overtaken>>
        BY <3>2 DEF OwnStep, Register, EnableDisplay, EnableFlag, InitEnter, InitLock,
           InitPublish, TermEnter, TermClear, TermJoin, world, local, client
      <4> QED
        BY <4>1, <4>2 DEF AllLabels, CallerLabels, CheckLabels
    <3>3. CASE \E c \in Calls : Call(t, c)
      BY <3>3 DEF Call, CheckThen, world, AllLabels, CallerLabels, CheckLabels
    <3> QED
      BY <1>2, <3>1, <3>2, <3>3
  <2> QED
    BY <1>1, <2>1 DEF Goto
<1>3. CASE InitCreate(t) \/ InitNotify(t) \/ TermJoined(t)
  <2>1. UNCHANGED <<hdcp, unheard, pending, seen, told, overtaken>>
    BY <1>3 DEF InitCreate, InitNotify, TermJoined, world, local, client
  <2>2. CASE \E l \in {"notify", "publish"} : Goto(t, l)
    BY <1>1, <2>1, <2>2 DEF Goto
  <2>3. ASSUME NEW u \in Refreshers, pc[u] \in Dormant, NEW m \in {"created", "idle"},
               NEW l \in {"notify", "idle"}, pc' = [pc EXCEPT ![u] = m, ![t] = l]
        PROVE  \A r \in Refreshers :
                 pc'[r] = pc[r] \/ (pc[r] \in Dormant /\ pc'[r] \in Dormant)
    <3>1. u \in Threads /\ u # t /\ m \in AllLabels /\ l \in AllLabels /\ m \in Dormant
      BY <1>1 DEF AllLabels, RefreshLabels, CallerLabels, Dormant
    <3>2. pc'[u] = m /\ \A o \in Threads : o # u /\ o # t => pc'[o] = pc[o]
      BY ONLY <1>1, <2>3, <3>1, TwoPlaces
    <3> QED
      BY <1>1, <2>3, <3>1, <3>2
  <2>4. CASE InitCreate(t) \/ InitNotify(t)
    BY <1>1, <2>1, <2>2, <2>3, <2>4 DEF InitCreate, InitNotify, At, Dormant
  <2>5. CASE TermJoined(t)
    <3>1. joining[t] \in Refreshers
      BY <1>1, <2>5 DEF TypeInv, PlaceInv, Place, TermJoined, At
    <3>2. pc[joining[t]] \in Dormant
      BY <2>5 DEF TermJoined, Dormant
    <3> QED
      BY <2>1, <2>3, <2>5, <3>1, <3>2 DEF TermJoined
  <2> QED
    BY <1>3, <2>4, <2>5
<1> QED
  BY <1>2, <1>3 DEF CallerStep, OwnStep

\* How the flags, the callback and the calls change when a caller takes a step.
LEMMA SwitchMoves ==
    ASSUME ManagedAlone, TypeInv, CallInv, CallbackInv, NEW t \in Callers, CallerStep(t)
    PROVE  \/ /\ InitCreate(t) /\ pc[t] = "create" /\ drmRefreshAlive'
              /\ drmInitialized' = drmInitialized /\ hdcpStatusCallback' = hdcpStatusCallback
           \/ /\ InitPublish(t) /\ pc[t] = "publish" /\ drmRefreshAlive' = drmRefreshAlive
              /\ drmInitialized' /\ hdcpStatusCallback' = hdcpStatusCallback
           \/ /\ TermEnter(t) /\ pc'[t] = "termClear" /\ ~drmRefreshAlive'
              /\ drmInitialized /\ drmInitialized' /\ hdcpStatusCallback' = hdcpStatusCallback
              /\ call[t].op = "term"
           \/ /\ TermClear(t) /\ pc[t] = "termClear" /\ ~drmInitialized'
              /\ drmRefreshAlive' = drmRefreshAlive
              /\ hdcpStatusCallback' = hdcpStatusCallback
           \/ /\ Register(t) /\ (drmInitialized => hdcpStatusCallback')
              /\ UNCHANGED <<drmInitialized, drmRefreshAlive>> /\ pc[t] = "entered"
              /\ pc'[t] = "check"
           \/ /\ pc[t] # "termClear" /\ (pc'[t] \in {"notify", "publish"} => pc[t] = "notify")
              /\ UNCHANGED <<drmInitialized, drmRefreshAlive, hdcpStatusCallback>>
<1>1. pc \in [Threads -> AllLabels] /\ t \in Threads
  BY Kinds DEF TypeInv, TypeOK, AllLabels
<1>2. CASE Common(t)
  <2>1. PICK l \in Places(t) \cap CommonGoals : Goto(t, l)
    BY <1>1, <1>2, CommonPlaces
  <2>2. UNCHANGED <<drmInitialized, drmRefreshAlive, hdcpStatusCallback>>
        /\ pc[t] \in CheckLabels
    BY <1>1, <1>2, CommonPlaces DEF flags
  <2> QED
    BY <1>1, <2>1, <2>2 DEF Goto, CommonGoals, CheckLabels
<1>3. CASE Register(t) \/ EnableDisplay(t) \/ EnableFlag(t) \/ InitEnter(t)
  <2>1. Register(t) => (drmInitialized => call[t].arg)
    BY DEF Register, CallbackInv, Clearing
  <2> QED
    BY <1>1, <1>3, <2>1 DEF Register, EnableDisplay, EnableFlag, InitEnter, CheckThen, Return,
       Goto, At, flags
<1>4. CASE InitLock(t) \/ InitPublish(t) \/ TermJoin(t)
  BY <1>1, <1>4 DEF InitLock, InitPublish, TermJoin, Return, Goto, At, flags
<1>5. CASE TermEnter(t) \/ TermClear(t)
  BY <1>1, <1>5 DEF TermEnter, TermClear, Return, Goto, At, flags
<1>6. CASE InitCreate(t)
  BY <1>6 DEF InitCreate, At
<1>7. CASE InitNotify(t) \/ TermJoined(t)
  <2>1. pc[t] \in {"notify", "joining"}
        /\ UNCHANGED <<drmInitialized, drmRefreshAlive, hdcpStatusCallback>>
    BY <1>7 DEF InitNotify, TermJoined, At, flags
  <2>2. pc[t] = "joining" => pc'[t] \notin {"notify", "publish"}
    BY <1>1, CallerMoves DEF CheckLabels, InInit, InTerm
  <2> QED
    BY <2>1, <2>2
<1> QED
  BY <1>2, <1>3, <1>4, <1>5, <1>6, <1>7 DEF CallerStep

\* While a call of dsVideoPortInit is under way no other caller switches the port.
LEMMA InitAlone ==
    ASSUME ManagedAlone, CallInv, NEW t \in Callers, NEW u \in Callers,
           call[t].op = "init", call[u].op \in {"init", "term"}
    PROVE  t = u
BY OneSwitches, ManagedSwitch

\* A call begins only for a caller that is idle.
LEMMA CallerStarts ==
    ASSUME NEW t \in Callers, CallerStep(t)
    PROVE  ~\E c \in Calls : Call(t, c)
<1>1. pc[t] # "idle"
  BY DEF CallerStep, Common, CheckFlag, CheckLock, CheckWake, GetHandle, ReadStatus,
     TestCallback, Invoke, Register, EnableDisplay, EnableFlag, InitEnter, InitLock,
     InitCreate, InitNotify, InitPublish, TermEnter, TermClear, TermJoin, TermJoined, At
<1> QED
  BY <1>1 DEF Call, At

LEMMA CallerSwitch ==
    ASSUME ManagedAlone, TypeInv, CallInv, CallbackInv, SwitchInv, NEW t \in Callers,
           CallerStep(t)
    PROVE  SwitchInv'
<1>1. \A o \in Callers : o # t => pc'[o] = pc[o]
  BY CallerMoves
<1>2. CASE InitCreate(t) /\ drmRefreshAlive'
  BY <1>2 DEF SwitchInv
<1>3. CASE /\ pc[t] = "publish" /\ drmRefreshAlive' = drmRefreshAlive
  <2>1. drmRefreshAlive
    BY <1>3 DEF SwitchInv
  <2> QED
    BY <1>3, <2>1 DEF SwitchInv
<1>4. CASE TermEnter(t) /\ pc'[t] = "termClear" /\ call[t].op = "term"
  <2>1. \A o \in Callers : pc[o] \notin {"notify", "publish"}
    <3> SUFFICES ASSUME NEW o \in Callers, pc[o] \in {"notify", "publish"} PROVE FALSE
      OBVIOUS
    <3>1. call[o].op = "init"
      BY DEF CallInv, OfItsCall, InInit
    <3> QED
      BY <1>4, <3>1, InitAlone
  <2> QED
    BY <1>1, <1>4, <2>1 DEF SwitchInv
<1>5. CASE TermClear(t) /\ ~drmInitialized' /\ drmRefreshAlive' = drmRefreshAlive
           /\ pc[t] = "termClear"
  <2>1. pc'[t] \notin {"notify", "publish"}
    BY <1>5, CallerMoves DEF CheckLabels, InInit, InTerm
  <2> QED
    BY <1>1, <1>5, <2>1 DEF SwitchInv
<1>6. CASE /\ pc[t] # "termClear" /\ (pc'[t] \in {"notify", "publish"} => pc[t] = "notify")
           /\ UNCHANGED <<drmInitialized, drmRefreshAlive>>
  BY <1>1, <1>6 DEF SwitchInv
<1> QED
  BY <1>2, <1>3, <1>4, <1>5, <1>6, SwitchMoves

LEMMA CallerFresh ==
    ASSUME ManagedAlone, TypeInv, CallInv, CallbackInv, FreshInv, NEW t \in Callers,
           CallerStep(t)
    PROVE  FreshInv'
<1>1. /\ \/ told' = told
         \/ drmInitialized /\ UNCHANGED flags
         \/ \E c \in Calls : Call(t, c)
      /\ \A r \in Refreshers : pc'[r] \in Delivering => pc[r] \in Delivering
  BY CallersKeepNews DEF Dormant, Delivering
<1>2. \A o \in Callers : call'[o] = call[o] \/ call'[o] = NoCall
  BY CallerMoves DEF TypeInv, TypeOK
<1>3. told' = told \/ drmInitialized'
  <2>1. ~\E c \in Calls : Call(t, c)
    BY CallerStarts
  <2> QED
    BY <1>1, <2>1 DEF flags
<1>4. CASE drmInitialized' = drmInitialized \/ drmInitialized'
  BY <1>1, <1>2, <1>3, <1>4 DEF FreshInv, NoCall
<1>5. CASE pc[t] = "termClear"
  <2>1. call[t].op = "term"
    BY <1>5 DEF CallInv, OfItsCall, InTerm
  <2>2. \A o \in Callers : call[o].op # "init"
    BY <2>1, InitAlone
  <2>3. \A o \in Callers : call'[o].op # "init"
    BY <1>2, <2>2 DEF NoCall
  <2> QED
    BY <2>3 DEF FreshInv
<1> QED
  BY <1>4, <1>5, SwitchMoves

\* What is owed stays owed when no refresh thread moves.
LEMMA OwedKept ==
    ASSUME UNCHANGED pending,
           \A r \in Refreshers :
               /\ seen'[r] = seen[r]
               /\ pc'[r] = pc[r] \/ (pc[r] \in Dormant /\ pc'[r] \in Dormant)
    PROVE  \A r \in Refreshers :
               /\ Owed(r)' <=> Owed(r)
               /\ pc'[r] \in {"tell", "invoke"} <=> pc[r] \in {"tell", "invoke"}
BY DEF Owed, Reading, Dormant

LEMMA CallerNews ==
    ASSUME ManagedAlone, TypeInv, ReadyInv, CallInv, CallbackInv, FreshInv, NewsInv,
           NEW t \in Callers, CallerStep(t)
    PROVE  NewsInv'
<1>1. /\ UNCHANGED <<hdcp, unheard, pending>>
      /\ \A r \in Refreshers :
           /\ seen'[r] = seen[r]
           /\ pc'[r] = pc[r] \/ (pc[r] \in Dormant /\ pc'[r] \in Dormant)
      /\ \/ UNCHANGED <<told, overtaken>>
         \/ /\ drmInitialized /\ hdcpStatusCallback /\ UNCHANGED <<flags, hdcpStatusCallback>>
            /\ told' = "authenticated" => Current \/ overtaken'
  BY CallersKeepNews, CallerStarts
<1>2. \A r \in Refreshers :
          /\ Owed(r)' <=> Owed(r)
          /\ pc'[r] \in {"tell", "invoke"} <=> pc[r] \in {"tell", "invoke"}
  BY <1>1, OwedKept
<1>3. Current' <=> Current
  BY <1>1 DEF Current
<1>4. \A r \in Refreshers : pc'[r] \in {"tell", "invoke"} /\ seen'[r] = "authenticated"
         => Current' \/ unheard' \/ pending'[r] > 0
  BY <1>1, <1>2, <1>3 DEF NewsInv
<1>5. ASSUME UNCHANGED <<told, overtaken>>, On', told' = "authenticated"
      PROVE  /\ hdcpStatusCallback'
             /\ Current' \/ Excused' \/ \E r \in Refreshers : Owed(r)'
  <2>1. pc[t] \in {"create", "publish"} => ~drmInitialized /\ call[t].op = "init"
    BY Kinds DEF ReadyInv, Locked, CallInv, OfItsCall, InInit
  <2>2. pc[t] = "publish" => told = "nothing"
    BY <2>1 DEF FreshInv
  <2>3. On /\ (hdcpStatusCallback => hdcpStatusCallback')
    BY <1>5, <2>1, <2>2, SwitchMoves DEF On
  <2>4. hdcpStatusCallback /\ (Current \/ Excused \/ \E r \in Refreshers : Owed(r))
    BY <1>5, <2>3 DEF NewsInv
  <2> QED
    BY <1>1, <1>2, <1>3, <1>5, <2>3, <2>4 DEF Excused
<1>6. ASSUME ~UNCHANGED <<told, overtaken>>, told' = "authenticated"
      PROVE  hdcpStatusCallback' /\ (Current' \/ Excused')
  BY <1>1, <1>3, <1>6 DEF Excused
<1> QED
  BY <1>4, <1>5, <1>6 DEF NewsInv

\* A call that begins: what was told before dsVideoPortInit is forgotten, and without
\* an initialised port no refresh thread is left to tell anything.
LEMMA CallTold ==
    ASSUME ManagedAlone, TypeInv, CallInv, AliveInv, CallbackInv, ToldInv,
           NEW t \in Callers, NEW c \in Calls, Call(t, c)
    PROVE  ToldInv'
<1>1. /\ pc \in [Threads -> AllLabels] /\ call \in [Callers -> ApiCalls \cup {NoCall}]
      /\ \A o \in Callers : o \in Threads /\ o \notin Refreshers
      /\ \A r \in Refreshers : r \in Threads /\ r \notin Callers
  BY Kinds DEF TypeInv, TypeOK, AllLabels
<1>2. PICK l \in {"check", "entered"} : Goto(t, l)
  BY DEF Call, CheckThen
<1>3. /\ pc[t] = "idle" /\ pc'[t] = l
      /\ \A o \in Threads : o # t => pc'[o] = pc[o]
  BY <1>1, <1>2 DEF Goto, Call, At
<1>4. /\ UNCHANGED <<drmInitialized, drmRefreshAlive, hdcpStatusCallback, hdcp, unheard,
                     overtaken, pending, seen>>
      /\ told' = IF c.op = "init" THEN "nothing" ELSE told
      /\ call' = [call EXCEPT ![t] = c]
  BY DEF Call, flags, world
<1>5. SwitchInv'
  BY <1>1, <1>3, <1>4 DEF ToldInv, SwitchInv
<1>6. c.op = "init" /\ ~drmInitialized => \A r \in Refreshers : pc[r] \notin Delivering
  <2> SUFFICES ASSUME c.op = "init", ~drmInitialized, NEW r \in Refreshers,
                      pc[r] \in Delivering
               PROVE  FALSE
    OBVIOUS
  <2>1. PICK o \in Callers : pc[o] \in Busy
    BY DEF AliveInv, Alive, Running, Delivering
  <2>2. call[o].op \in {"init", "term"} /\ pc[o] # "idle"
    BY <2>1 DEF CallInv, OfItsCall, Busy, InInit, InTerm
  <2> QED
    BY <2>2 DEF ManagedAlone, Overlaps, Call, At
<1>7. FreshInv'
  <2>1. \A r \in Refreshers : pc'[r] = pc[r]
    BY <1>1, <1>3
  <2>2. \A o \in Callers : o # t => call'[o] = call[o]
    BY <1>1, <1>4
  <2>3. call'[t] = c
    BY <1>1, <1>4
  <2>4. c.op # "init" => ((\E o \in Callers : call'[o].op = "init")
                             => \E o \in Callers : call[o].op = "init")
    BY <2>2, <2>3
  <2> QED
    BY <1>4, <1>6, <2>1, <2>4 DEF ToldInv, FreshInv
<1>8. NewsInv'
  <2>1. \A r \in Refreshers : pc'[r] = pc[r] /\ seen'[r] = seen[r]
    BY <1>1, <1>3, <1>4
  <2>2. UNCHANGED pending
    BY <1>4
  <2>3. \A r \in Refreshers :
            /\ Owed(r)' <=> Owed(r)
            /\ pc'[r] \in {"tell", "invoke"} <=> pc[r] \in {"tell", "invoke"}
    BY <2>1, <2>2, OwedKept
  <2> QED
    BY <1>4, <2>1, <2>3 DEF ToldInv, NewsInv, On, Current, Excused
<1> QED
  BY <1>5, <1>7, <1>8 DEF ToldInv

\* The cable moves, HDCP changes its mind: a loss is an event for every thread that
\* listens, or it is marked.
LEMMA WorldTold ==
    ASSUME TypeInv, ToldInv, WorldStep
    PROVE  ToldInv'
<1>1. /\ UNCHANGED <<drmInitialized, drmRefreshAlive, hdcpStatusCallback, told, overtaken,
                     pc, seen, call>>
      /\ pending \in [Refreshers -> 0..MaxEvents]
  BY DEF WorldStep, MoveCable, Negotiate, flags, client, local, TypeInv, TypeOK
<1>2. SwitchInv' /\ FreshInv'
  BY <1>1 DEF ToldInv, SwitchInv, FreshInv
<1>3. /\ Raise \/ UNCHANGED <<raised, pending>>
      /\ unheard' = (Status(hdcp') = "failure" /\ ~Heard /\ (unheard \/ Lost))
  BY DEF WorldStep, MoveCable, Negotiate
<1>4. Raise => \A r \in Refreshers :
          /\ pending[r] > 0 => pending'[r] > 0
          /\ Listening(r) => pending'[r] > 0
  BY <1>1, Bounds DEF Raise
<1>5. \A r \in Refreshers : /\ pending[r] > 0 => pending'[r] > 0
                            /\ Owed(r) => Owed(r)'
                            /\ Listening(r) /\ Heard => pending'[r] > 0
  BY <1>1, <1>3, <1>4 DEF Owed, Heard
<1>6. (Current \/ unheard) /\ ~Current' => Heard \/ unheard'
  BY <1>3 DEF Current, Lost, Status
<1>7. ASSUME NEW r \in Refreshers, pc[r] \in {"tell", "invoke"}, seen[r] = "authenticated"
      PROVE  Current' \/ unheard' \/ pending'[r] > 0
  <2>1. Listening(r) /\ (Current \/ unheard \/ pending[r] > 0)
    BY <1>7 DEF ToldInv, NewsInv, Listening
  <2> QED
    BY <1>5, <1>6, <2>1
<1>8. ASSUME On, told = "authenticated"
      PROVE  /\ hdcpStatusCallback
             /\ Current' \/ unheard' \/ overtaken \/ \E r \in Refreshers : Owed(r)'
  <2>1. hdcpStatusCallback /\ (Current \/ Excused \/ \E r \in Refreshers : Owed(r))
    BY <1>8 DEF ToldInv, NewsInv
  <2>2. Heard => \E r \in Refreshers : Owed(r)'
    BY <1>5 DEF Heard, Owed
  <2> QED
    BY <1>5, <1>6, <2>1, <2>2 DEF Excused
<1> QED
  BY <1>1, <1>2, <1>7, <1>8 DEF ToldInv, NewsInv, On, Excused

\* A refresh thread at work.  It moves nobody else; while the port is on it forgets no
\* event, and what it tells it has read.
Works(r) ==
    /\ \A x \in Refreshers : x # r =>
         pc'[x] = pc[x] /\ seen'[x] = seen[x] /\ pending'[x] = pending[x]
    /\ pc'[r] \in Delivering => pc[r] \in Delivering \/ drmInitialized
    /\ pc'[r] \in {"tell", "invoke"} /\ seen'[r] = "authenticated"
         => Current \/ unheard \/ pending'[r] > 0
    /\ \/ /\ UNCHANGED <<told, overtaken>>
          /\ On /\ hdcpStatusCallback /\ Owed(r) => Current \/ Owed(r)'
       \/ /\ pc[r] = "invoke" /\ told' = seen[r]
          /\ seen[r] = "authenticated" => Current \/ unheard \/ Owed(r)'

LEMMA RefreshWorks ==
    ASSUME TypeInv, CallbackInv, NewsInv, NEW r \in Refreshers, RefreshStep(r)
    PROVE  /\ UNCHANGED <<flags, hdcpStatusCallback, hdcp, unheard>>
           /\ Works(r)
<1>1. /\ pc \in [Threads -> AllLabels] /\ r \in Threads /\ r \notin Callers
      /\ r \notin Notifiers
      /\ \A x \in Refreshers : x \in Threads
      /\ seen \in [Threads -> Statuses]
      /\ pending \in [Refreshers -> 0..MaxEvents] /\ MaxEvents \in Nat
  BY Kinds, Bounds DEF TypeInv, TypeOK, AllLabels
<1>2. pc[r] \in {"tell", "invoke"} /\ seen[r] = "authenticated"
         => Current \/ unheard \/ pending[r] > 0
  BY DEF NewsInv
<1> USE DEF At, Goto
<1>3. CASE CheckFlag(r) \/ CheckLock(r) \/ CheckWake(r)
  <2>1. /\ UNCHANGED <<flags, hdcpStatusCallback, unheard, hdcp, seen, pending, told, overtaken>>
        /\ pc[r] \in Waiting
        /\ \E l \in {next[r], "wait", "asleep"} : Goto(r, l)
    BY <1>3 DEF CheckFlag, CheckLock, CheckWake, local, world, client, Waiting
  <2>2. next[r] \in {"handle", "refresh"}
    BY <1>1, <2>1 DEF TypeInv, PlaceInv, Place, Nexts
  <2>3. pc'[r] \in {"handle", "refresh", "wait", "asleep"}
        /\ \A x \in Threads : x # r => pc'[x] = pc[x]
    BY <1>1, <2>1, <2>2
  <2> QED
    BY <1>1, <2>1, <2>3 DEF Works, Delivering, Owed, Reading
<1>4. CASE GetHandle(r)
  <2>1. /\ UNCHANGED <<flags, hdcpStatusCallback, unheard, hdcp, seen, pending, told, overtaken>>
        /\ pc[r] = "handle"
        /\ IF drmInitialized THEN Goto(r, "status") ELSE Goto(r, "loop")
    BY <1>1, <1>4 DEF GetHandle, Leave, WithoutHandle, local, world
  <2>2. pc'[r] = (IF drmInitialized THEN "status" ELSE "loop")
        /\ \A x \in Threads : x # r => pc'[x] = pc[x]
    BY <1>1, <2>1
  <2> QED
    BY <1>1, <2>1, <2>2 DEF Works, Delivering, Owed, Reading, On
<1>5. CASE ReadStatus(r)
  <2>1. /\ UNCHANGED <<flags, hdcpStatusCallback, unheard, hdcp, pending, told, overtaken>>
        /\ pc[r] = "status" /\ Goto(r, "tell") /\ seen' = [seen EXCEPT ![r] = Status(hdcp)]
    BY <1>1, <1>5 DEF ReadStatus, client, world
  <2>2. pc'[r] = "tell" /\ seen'[r] = Status(hdcp)
        /\ \A x \in Threads : x # r => pc'[x] = pc[x] /\ seen'[x] = seen[x]
    BY <1>1, <2>1
  <2>3. Current \/ Status(hdcp) = "failure"
    BY DEF Current, Status
  <2> QED
    BY <1>1, <2>1, <2>2, <2>3 DEF Works, Delivering, Owed, Current
<1>6. CASE TestCallback(r)
  <2>1. /\ UNCHANGED <<flags, hdcpStatusCallback, unheard, hdcp, pending, told, overtaken>>
        /\ pc[r] = "tell"
        /\ IF hdcpStatusCallback THEN Goto(r, "invoke") /\ seen' = seen
           ELSE Goto(r, "loop") /\ seen' = [seen EXCEPT ![r] = "failure"]
    BY <1>1, <1>6 DEF TestCallback, Leave, AfterDelivery, client, world
  <2>2. /\ pc'[r] = (IF hdcpStatusCallback THEN "invoke" ELSE "loop")
        /\ hdcpStatusCallback => seen'[r] = seen[r]
        /\ \A x \in Threads : x # r => pc'[x] = pc[x] /\ seen'[x] = seen[x]
    BY <1>1, <2>1
  <2> QED
    BY <1>1, <1>2, <2>1, <2>2 DEF Works, Delivering, Owed, Reading
<1>7. CASE Invoke(r)
  <2>1. /\ UNCHANGED <<flags, hdcpStatusCallback, unheard, hdcp, pending>>
        /\ pc[r] = "invoke" /\ Goto(r, "loop") /\ seen' = [seen EXCEPT ![r] = "failure"]
        /\ told' = IF hdcpStatusCallback THEN seen[r] ELSE told
    BY <1>1, <1>7 DEF Invoke, Leave, AfterDelivery, world
  <2>2. hdcpStatusCallback
    BY <2>1 DEF CallbackInv
  <2>3. pc'[r] = "loop" /\ \A x \in Threads : x # r => pc'[x] = pc[x] /\ seen'[x] = seen[x]
    BY <1>1, <2>1
  <2> QED
    BY <1>1, <1>2, <2>1, <2>2, <2>3 DEF Works, Delivering, Owed
<1>8. CASE RefreshBegin(r) \/ RefreshLoop(r) \/ RefreshSelect(r)
  <2>1. /\ UNCHANGED <<flags, hdcpStatusCallback, unheard, hdcp, seen, told, overtaken>>
        /\ pc[r] \in {"created", "loop", "select"}
    BY <1>8 DEF RefreshBegin, RefreshLoop, RefreshSelect, local, world, client
  <2>2. \E l \in {"loop", "exited", "select", "check"} :
            /\ Goto(r, l)
            /\ l = "exited" => pc[r] = "created" \/ ~drmRefreshAlive
            /\ \/ pending' = pending
               \/ pending' = [pending EXCEPT ![r] = 0] /\ ~drmRefreshAlive
               \/ pending' = [pending EXCEPT ![r] = @ - 1] /\ l = "check"
    BY <1>8 DEF RefreshBegin, RefreshLoop, RefreshSelect, CheckThen, world
  <2>3. PICK l \in {"loop", "exited", "select", "check"} :
            /\ Goto(r, l)
            /\ l = "exited" => pc[r] = "created" \/ ~drmRefreshAlive
            /\ \/ pending' = pending
               \/ pending' = [pending EXCEPT ![r] = 0] /\ ~drmRefreshAlive
               \/ pending' = [pending EXCEPT ![r] = @ - 1] /\ l = "check"
    BY <2>2
  <2>4. pc'[r] = l /\ \A x \in Threads : x # r => pc'[x] = pc[x]
    BY <1>1, <2>3
  <2>5. \A x \in Refreshers : x # r => pending'[x] = pending[x]
    BY <1>1, <2>3
  <2> QED
    BY <1>1, <2>1, <2>3, <2>4, <2>5 DEF Works, Delivering, Owed, Reading, On
<1>9. CASE RefreshConnector(r) \/ RefreshDone(r)
  <2>1. /\ UNCHANGED <<flags, hdcpStatusCallback, unheard, hdcp, seen, told, overtaken, pending>>
        /\ pc[r] \in {"refresh", "refreshed"}
        /\ \E l \in {"refreshed", "check"} : Goto(r, l)
    BY <1>9 DEF RefreshConnector, RefreshDone, CheckThen, world, client
  <2>2. pc'[r] \in {"refreshed", "check"} /\ \A x \in Threads : x # r => pc'[x] = pc[x]
    BY <1>1, <2>1
  <2> QED
    BY <1>1, <2>1, <2>2 DEF Works, Delivering, Owed, Reading
<1> QED
  BY <1>3, <1>4, <1>5, <1>6, <1>7, <1>8, <1>9 DEF RefreshStep, Common

LEMMA RefreshTold ==
    ASSUME TypeInv, CallbackInv, ToldInv, NEW r \in Refreshers, RefreshStep(r)
    PROVE  ToldInv'
<1>1. /\ UNCHANGED <<drmInitialized, drmRefreshAlive, hdcpStatusCallback, hdcp, unheard>>
      /\ Works(r)
  BY RefreshWorks DEF ToldInv, flags
<1>2. (\A o \in Callers : pc'[o] = pc[o]) /\ call' = call
  BY OthersMoves
<1>3. SwitchInv'
  BY <1>1, <1>2 DEF ToldInv, SwitchInv
<1>4. /\ \A x \in Refreshers : x # r => (Owed(x)' <=> Owed(x))
      /\ Current' <=> Current
      /\ On' <=> On
  BY <1>1 DEF Works, Owed, Current, On
<1>5. FreshInv'
  BY <1>1, <1>2 DEF ToldInv, FreshInv, Works, Delivering
<1>6. \A x \in Refreshers : pc'[x] \in {"tell", "invoke"} /\ seen'[x] = "authenticated"
            => Current \/ unheard \/ pending'[x] > 0
  BY <1>1 DEF ToldInv, NewsInv, Works
<1>7. ASSUME On, told' = "authenticated", UNCHANGED <<told, overtaken>>,
             hdcpStatusCallback /\ Owed(r) => Current \/ Owed(r)'
      PROVE  /\ hdcpStatusCallback
             /\ Current \/ Excused' \/ \E x \in Refreshers : Owed(x)'
  <2>1. hdcpStatusCallback /\ (Current \/ Excused \/ \E x \in Refreshers : Owed(x))
    BY <1>7 DEF ToldInv, NewsInv
  <2> QED
    BY <1>1, <1>4, <1>7, <2>1 DEF Excused
<1>8. ASSUME told' = "authenticated", pc[r] = "invoke", told' = seen[r],
             Current \/ unheard \/ Owed(r)'
      PROVE  /\ hdcpStatusCallback
             /\ Current \/ Excused' \/ \E x \in Refreshers : Owed(x)'
  BY <1>1, <1>8 DEF CallbackInv, Excused
<1>9. On /\ told' = "authenticated" =>
         /\ hdcpStatusCallback
         /\ Current \/ Excused' \/ \E x \in Refreshers : Owed(x)'
  BY <1>1, <1>7, <1>8 DEF Works
<1> QED
  BY <1>1, <1>3, <1>4, <1>5, <1>6, <1>9 DEF ToldInv, NewsInv

LEMMA ToldStep ==
    /\ ManagedAlone /\ TypeInv /\ ReadyInv /\ CallInv /\ AliveInv /\ CallbackInv
    /\ ToldInv /\ [Next]_vars
    => ToldInv'
<1> SUFFICES ASSUME ManagedAlone, TypeInv, ReadyInv, CallInv, AliveInv, CallbackInv,
                    ToldInv, [Next]_vars
             PROVE  ToldInv'
  OBVIOUS
<1>1. ASSUME NEW t \in Callers, CallerStep(t) PROVE ToldInv'
  BY <1>1, CallerSwitch, CallerFresh, CallerNews DEF ToldInv
<1>2. CASE UNCHANGED vars
  BY <1>2 DEF vars, flags, client, world, local, ToldInv, SwitchInv, FreshInv, NewsInv, On,
     Owed, Current, Excused
<1>3. Notifiers = {}
  BY DEF ManagedAlone
<1> QED
  BY <1>1, <1>2, <1>3, CallTold, RefreshTold, WorldTold DEF Next, Finished

LEMMA InitTold == Init => ToldInv
<1> SUFFICES ASSUME Init PROVE ToldInv
  OBVIOUS
<1>1. /\ \A t \in Threads : pc[t] = "idle"
      /\ \A t \in Callers : call[t] = NoCall
      /\ told = "nothing" /\ drmInitialized = FALSE
  BY DEF Init
<1> QED
  BY <1>1, Kinds DEF ToldInv, SwitchInv, FreshInv, NewsInv, On, NoCall, Delivering

\* Once everything has settled a client that was last told AUTHENTICATED is told what
\* dsGetHDCPStatus still answers, for any number of threads, calls, initialisations and
\* events and whatever fails: no loss that raised an event is forgotten, whatever the
\* refresh thread was busy with.  The client is ManagedAlone: it never overlaps calls
\* that initialise or terminate the port or register a callback, it may register at any
\* time but clears its callback only while the port is off, and there is no boot-time
\* notifier.  A loss without an event that a monitor heard, and a status that
\* dsRegisterHdcpStatusCallback told after it had been lost, are excepted.
THEOREM LastToldIsCurrent ==
    ASSUME ManagedAlone
    PROVE  Spec => []ToldAuthenticatedIsCurrent
<1>1. ASSUME ToldInv PROVE ToldAuthenticatedIsCurrent
  <2> SUFFICES ASSUME Settled, told = "authenticated", ~Excused PROVE Current
    BY DEF ToldAuthenticatedIsCurrent, Current
  <2>1. \A t \in Callers : pc[t] = "idle"
    BY DEF Settled, At
  <2>2. On
    BY <1>1, <2>1 DEF ToldInv, SwitchInv, Settled, On
  <2>3. \A r \in Refreshers : ~Owed(r)
    BY DEF Settled, Owed, Reading
  <2> QED
    BY <1>1, <2>2, <2>3 DEF ToldInv, NewsInv
<1>2. Spec => [](TypeInv /\ CallInv /\ AliveInv /\ CallbackInv)
  BY Managed
<1>3. Spec => []ReadyInv
  BY InitAlive, InitTypes, NextTypes, ReadyStep, PTL DEF Spec
<1> QED
  BY <1>1, <1>2, <1>3, InitTold, ToldStep, PTL DEF Spec

(***************************************************************************)
(* dsIsVideoPortEnabled.  dsVideoPortInit sets IsEnabled whatever the      *)
(* display does, so the client here initialises the port once; it has no   *)
(* handle to enable or disable the port with before that is done, and it   *)
(* does not overlap two calls that enable it.                              *)
(***************************************************************************)
InitialisedOnce == MaxInits = 1 /\ <<"enable", "enable">> \in Conflicts

EnableInv ==
    /\ inits = 0 => ~drmInitialized /\ ~hasHandle /\ \A t \in Callers : call[t].op # "init"
    /\ \A t, u \in Callers : call[t].op = "init" /\ call[u].op = "init" => t = u
    /\ drmInitialized \/ hasHandle => \A t \in Callers : call[t].op # "init"
    /\ \A t \in Callers : call[t].op = "enable" => hasHandle
    /\ \A t \in Callers : pc[t] = "enabled" =>
         call[t].op = "enable" /\ call[t].arg = displayOn /\ ~unanswered
    /\ \A t \in Callers : pc[t] \in InInit => IsEnabled
    /\ ~hasHandle => displayOn /\ (drmInitialized => IsEnabled)
    /\ hasHandle /\ ~unanswered /\ (\A t \in Callers : pc[t] # "enabled")
         => IsEnabled = displayOn

\* The threads of the module and the world touch nothing of this.
LEMMA OthersEnable ==
    ASSUME TypeInv, EnableInv, \/ \E r \in Refreshers : RefreshStep(r)
                               \/ \E n \in Notifiers : NotifyStep(n)
                               \/ WorldStep \/ UNCHANGED vars
    PROVE  EnableInv'
<1>1. (\A o \in Callers : pc'[o] = pc[o]) /\ call' = call
  BY OthersMoves
<1>2. ASSUME NEW t \in Refreshers \cup Notifiers, Common(t)
      PROVE  UNCHANGED <<drmInitialized, hasHandle, IsEnabled, displayOn, unanswered, inits>>
  <2>1. t \in Threads /\ t \notin Callers /\ hasHandle \in BOOLEAN
    BY Kinds DEF TypeInv, TypeOK
  <2>2. UNCHANGED <<drmInitialized, IsEnabled, displayOn, unanswered, inits>>
    BY <1>2, <2>1, CommonPlaces DEF flags, port
  <2>3. hasHandle' = hasHandle
    BY <1>2, <2>1 DEF Common, CheckFlag, CheckLock, CheckWake, GetHandle, ReadStatus,
       TestCallback, Invoke, client
  <2> QED
    BY <2>2, <2>3
<1>3. ASSUME \/ \E r \in Refreshers : \/ RefreshBegin(r) \/ RefreshLoop(r) \/ RefreshSelect(r)
                                     \/ RefreshConnector(r) \/ RefreshDone(r)
             \/ \E n \in Notifiers : NotifySample(n) \/ NotifyPoll(n) \/ NotifyRound(n)
             \/ WorldStep \/ UNCHANGED vars
      PROVE  UNCHANGED <<drmInitialized, hasHandle, IsEnabled, displayOn, unanswered, inits>>
  BY <1>3 DEF RefreshBegin, RefreshLoop, RefreshSelect, RefreshConnector, RefreshDone,
     NotifySample, NotifyPoll, NotifyRound, WorldStep, MoveCable, Negotiate, vars,
     flags, client, port
<1>4. UNCHANGED <<drmInitialized, hasHandle, IsEnabled, displayOn, unanswered, inits>>
  <2>1. CASE \E r \in Refreshers : RefreshStep(r)
    BY <1>2, <1>3, <2>1 DEF RefreshStep
  <2>2. CASE \E n \in Notifiers : NotifyStep(n)
    BY <1>2, <1>3, <2>2 DEF NotifyStep
  <2> QED
    BY <1>3, <2>1, <2>2
<1> QED
  BY <1>1, <1>4 DEF EnableInv

\* A call begins: dsVideoPortInit for the first time, or dsEnableVideoPort with a handle.
LEMMA CallEnable ==
    ASSUME InitialisedOnce, TypeInv, EnableInv, NEW t \in Callers, NEW c \in Calls, Call(t, c)
    PROVE  EnableInv'
<1>1. /\ pc \in [Threads -> AllLabels] /\ call \in [Callers -> ApiCalls \cup {NoCall}]
      /\ \A o \in Callers : o \in Threads
      /\ inits \in Nat
  BY Kinds, Bounds DEF TypeInv, TypeOK, AllLabels
<1>2. PICK l \in {"check", "entered"} : Goto(t, l)
  BY DEF Call, CheckThen
<1>3. pc'[t] = l /\ \A o \in Callers : o # t => pc'[o] = pc[o] /\ call'[o] = call[o]
  BY <1>1, <1>2 DEF Goto, Call
<1>4. /\ UNCHANGED <<drmInitialized, hasHandle, IsEnabled, displayOn, unanswered>>
      /\ call'[t] = c /\ pc[t] = "idle"
      /\ c.op = "enable" => hasHandle
      /\ c.op = "init" => inits = 0 /\ inits' = 1
      /\ c.op # "init" => inits' = inits
  BY <1>1 DEF Call, At, flags, port, InitialisedOnce
<1>5. pc'[t] \notin InInit /\ pc'[t] # "enabled" /\ pc[t] # "enabled"
  BY <1>3, <1>4 DEF InInit
<1>6. CASE c.op = "init"
  <2>1. ~drmInitialized /\ ~hasHandle /\ \A o \in Callers : call[o].op # "init"
    BY <1>4, <1>6 DEF EnableInv
  <2>2. \A o \in Callers : pc'[o] # "enabled" /\ (pc'[o] \in InInit => pc[o] \in InInit)
    BY <1>3, <1>5, <2>1 DEF EnableInv
  <2>3. \A o \in Callers : call'[o].op # "enable" /\ (call'[o].op = "init" => o = t)
    BY <1>3, <1>4, <1>6, <2>1 DEF EnableInv
  <2>4. inits' # 0 /\ ~drmInitialized' /\ ~hasHandle' /\ displayOn'
    BY <1>4, <1>6, <2>1 DEF EnableInv
  <2>5. \A o \in Callers : pc'[o] \in InInit => IsEnabled'
    BY <1>4, <2>2 DEF EnableInv
  <2> QED
    BY <2>2, <2>3, <2>4, <2>5 DEF EnableInv
<1>7. CASE c.op # "init"
  <2>1. (\A o \in Callers : pc'[o] # "enabled") <=> \A o \in Callers : pc[o] # "enabled"
    BY <1>3, <1>5
  <2>2. \A o \in Callers : call'[o].op = "init" => call[o].op = "init" /\ o # t
    BY <1>3, <1>4, <1>7
  <2> QED
    BY <1>3, <1>4, <1>5, <1>7, <2>1, <2>2 DEF EnableInv
<1> QED
  BY <1>6, <1>7

\* A step of a caller.  The handle is given once the port is initialised.
LEMMA CallerEnable ==
    ASSUME InitialisedOnce, TypeInv, CallInv, EnableInv, NEW t \in Callers, CallerStep(t)
    PROVE  EnableInv'
<1>1. /\ pc \in [Threads -> AllLabels] /\ call \in [Callers -> ApiCalls \cup {NoCall}]
      /\ t \in Threads /\ hasHandle \in BOOLEAN /\ drmInitialized \in BOOLEAN
  BY Kinds DEF TypeInv, TypeOK, AllLabels
<1>2. \A o \in Callers : o # t => pc'[o] = pc[o] /\ call'[o] = call[o]
  BY <1>1, CallerMoves
<1>3. call'[t] = (IF pc'[t] = "idle" THEN NoCall ELSE call[t])
  BY <1>1, CallerMoves
<1>4. inits' = inits
  BY DEF CallerStep, Common, CheckFlag, CheckLock, CheckWake, GetHandle, ReadStatus,
     TestCallback, Invoke, Register, EnableDisplay, EnableFlag, InitEnter, InitLock,
     InitCreate, InitNotify, InitPublish, TermEnter, TermClear, TermJoin, TermJoined, client
<1>5. \A o \in Callers : call'[o].op \in {"init", "enable"} => call'[o] = call[o]
  BY <1>2, <1>3 DEF NoCall
<1>6. CASE Common(t)
  <2>1. /\ UNCHANGED <<drmInitialized, IsEnabled, displayOn, unanswered>>
        /\ pc[t] \in CheckLabels /\ pc'[t] \in CommonGoals
    BY <1>1, <1>6, CommonPlaces DEF flags, port, Goto
  <2>2. call[t].op \in {"get", "register"}
    BY <2>1 DEF CallInv, OfItsCall
  <2>3. hasHandle' = hasHandle \/ (hasHandle' = TRUE /\ drmInitialized)
    BY <1>1, <1>6 DEF Common, CheckFlag, CheckLock, CheckWake, GetHandle, ReadStatus,
       TestCallback, Invoke, client
  <2>4. pc'[t] \notin InInit /\ pc'[t] # "enabled" /\ pc[t] # "enabled"
    BY <2>1 DEF CommonGoals, CheckLabels, InInit
  <2>5. (\A o \in Callers : pc'[o] # "enabled") <=> \A o \in Callers : pc[o] # "enabled"
    BY <1>2, <2>4
  <2>6. CASE hasHandle' = hasHandle
    BY <1>2, <1>4, <1>5, <2>1, <2>4, <2>5, <2>6 DEF EnableInv
  <2>7. CASE hasHandle' = TRUE /\ drmInitialized /\ ~hasHandle
    <3>1. inits # 0 /\ displayOn /\ IsEnabled /\ \A o \in Callers : call[o].op # "init"
      BY <2>7 DEF EnableInv
    <3>2. \A o \in Callers : pc[o] # "enabled" /\ pc[o] \notin InInit
      BY <2>7, <3>1 DEF EnableInv, CallInv, OfItsCall
    <3>3. displayOn \in BOOLEAN /\ IsEnabled \in BOOLEAN
      BY DEF TypeInv, TypeOK
    <3> QED
      BY <1>2, <1>4, <1>5, <2>1, <2>4, <2>7, <3>1, <3>2, <3>3 DEF EnableInv
  <2> QED
    BY <2>3, <2>6, <2>7
<1>7. CASE EnableDisplay(t)
  <2>1. /\ UNCHANGED <<drmInitialized, hasHandle, IsEnabled>>
        /\ pc[t] = "entered" /\ call[t].op = "enable"
        /\ \/ pc'[t] = "enabled" /\ displayOn' = call[t].arg /\ unanswered' = FALSE
           \/ pc'[t] = "idle" /\ UNCHANGED <<displayOn, unanswered>>
           \/ pc'[t] = "idle" /\ unanswered' = TRUE
    BY <1>1, <1>7 DEF EnableDisplay, flags, client, Goto, Return, At
  <2>2. hasHandle
    BY <2>1 DEF EnableInv
  <2>3. \A o \in Callers : o # t => pc[o] # "enabled"
    <3> SUFFICES ASSUME NEW o \in Callers, o # t, pc[o] = "enabled" PROVE FALSE
      OBVIOUS
    <3>1. call[o].op = "enable"
      BY DEF EnableInv
    <3> QED
      BY <2>1, <3>1 DEF InitialisedOnce, CallInv, Apart, Overlaps
  <2>4. pc'[t] \notin InInit
    BY <2>1 DEF InInit
  <2> QED
    BY <1>2, <1>3, <1>4, <1>5, <2>1, <2>2, <2>3, <2>4 DEF EnableInv
<1>8. CASE EnableFlag(t)
  <2>1. /\ UNCHANGED <<drmInitialized, hasHandle, displayOn, unanswered>>
        /\ pc[t] = "enabled" /\ pc'[t] = "idle" /\ IsEnabled' = call[t].arg
    BY <1>1, <1>8 DEF EnableFlag, flags, client, Goto, Return, At
  <2>2. call[t].op = "enable" /\ call[t].arg = displayOn /\ hasHandle /\ ~unanswered
    BY <2>1 DEF EnableInv
  <2>3. \A o \in Callers : call[o].op # "init" /\ pc[o] \notin InInit
    BY <2>2 DEF EnableInv, CallInv, OfItsCall
  <2> QED
    BY <1>2, <1>3, <1>4, <1>5, <2>1, <2>2, <2>3 DEF EnableInv, InInit
<1>9. CASE InitEnter(t)
  <2>1. /\ UNCHANGED <<drmInitialized, hasHandle, displayOn, unanswered>>
        /\ pc[t] = "entered" /\ pc'[t] = "initLock" /\ IsEnabled' /\ call[t].op = "init"
    BY <1>1, <1>9 DEF InitEnter, flags, client, Goto, At
  <2>2. ~hasHandle /\ ~drmInitialized /\ displayOn /\ inits # 0
    BY <2>1 DEF EnableInv
  <2>3. \A o \in Callers : pc[o] # "enabled" /\ call[o].op # "enable"
    BY <2>2 DEF EnableInv
  <2>4. \A o \in Callers : pc'[o] # "enabled" /\ call'[o].op # "enable"
    BY <1>2, <1>5, <2>1, <2>3
  <2>5. \A o, u \in Callers : call'[o].op = "init" /\ call'[u].op = "init" => o = u
    BY <1>5 DEF EnableInv
  <2> QED
    BY <1>4, <2>1, <2>2, <2>4, <2>5 DEF EnableInv
<1>10. CASE InitPublish(t)
  <2>1. /\ UNCHANGED <<IsEnabled, hasHandle, displayOn, unanswered>> /\ drmInitialized'
        /\ pc[t] = "publish" /\ pc'[t] = "idle" /\ call[t].op = "init"
    BY <1>1, <1>10 DEF InitPublish, port, client, Goto, Return, At, CallInv, OfItsCall, InInit
  <2>2. IsEnabled /\ inits # 0 /\ ~hasHandle /\ \A o \in Callers : o # t => call[o].op # "init"
    BY <2>1 DEF EnableInv, InInit
  <2>3. \A o \in Callers : call'[o].op # "init"
    BY <1>2, <1>3, <2>1, <2>2 DEF NoCall
  <2> QED
    BY <1>2, <1>3, <1>4, <1>5, <2>1, <2>2, <2>3 DEF EnableInv, InInit
<1>11. CASE \/ Register(t) \/ InitLock(t) \/ InitCreate(t) \/ InitNotify(t)
            \/ TermEnter(t) \/ TermClear(t) \/ TermJoin(t) \/ TermJoined(t)
  <2>1. UNCHANGED <<IsEnabled, hasHandle, displayOn, unanswered>> /\ (drmInitialized' => drmInitialized)
    BY <1>11 DEF Register, InitLock, InitCreate, InitNotify, TermEnter, TermClear, TermJoin,
       TermJoined, flags, client, port
  <2>2. pc[t] \in {"entered"} \cup InInit \cup InTerm
    BY <1>11 DEF Register, InitLock, InitCreate, InitNotify, TermEnter, TermClear, TermJoin,
       TermJoined, At, InInit, InTerm
  <2>3. pc'[t] # "enabled" /\ (pc'[t] \in InInit => pc[t] \in InInit)
    <3>1. CASE InitCreate(t) \/ InitNotify(t)
      <4>1. pc[t] \in InInit /\ pc[t] # "enabled"
        BY <3>1 DEF InitNotify, InitCreate, At, InInit
      <4>2. CASE \E l \in {"notify", "publish"} : Goto(t, l)
        BY <1>1, <4>1, <4>2 DEF Goto
      <4>3. ASSUME NEW u \in Refreshers \cup Notifiers, NEW m \in {"created", "check"},
                   NEW l \in {"notify", "publish"}, pc' = [pc EXCEPT ![u] = m, ![t] = l]
            PROVE  pc'[t] = l
        <5>1. u \in Threads /\ u # t /\ m \in AllLabels /\ l \in AllLabels
          BY Kinds DEF AllLabels, RefreshLabels, CallerLabels, CheckLabels
        <5> QED
          BY ONLY <1>1, <4>3, <5>1, TwoPlaces
      <4> QED
        BY <3>1, <4>1, <4>2, <4>3 DEF InitNotify, InitCreate
    <3>2. CASE Register(t) \/ InitLock(t) \/ TermEnter(t) \/ TermClear(t) \/ TermJoin(t)
      BY <1>1, <3>2 DEF Register, InitLock, TermEnter, TermClear, TermJoin, CheckThen, Return,
         Goto, At, InInit
    <3>3. CASE TermJoined(t)
      <4>1. pc' = [pc EXCEPT ![joining[t]] = "idle", ![t] = "idle"] /\ "idle" \in AllLabels
        BY <3>3 DEF TermJoined, AllLabels, CallerLabels
      <4>2. pc'[t] = "idle"
        BY <1>1, <4>1
      <4> QED
        BY <4>2 DEF InInit
    <3> QED
      BY <1>11, <3>1, <3>2, <3>3
  <2>4. pc[t] # "enabled"
    BY <2>2 DEF InInit, InTerm
  <2>5. (\A o \in Callers : pc'[o] # "enabled") <=> \A o \in Callers : pc[o] # "enabled"
    BY <1>2, <2>3, <2>4
  <2> QED
    BY <1>2, <1>3, <1>4, <1>5, <2>1, <2>3, <2>4, <2>5 DEF EnableInv
<1> QED
  BY <1>6, <1>7, <1>8, <1>9, <1>10, <1>11 DEF CallerStep

LEMMA InitEnable == Init => EnableInv
<1> SUFFICES ASSUME Init PROVE EnableInv
  OBVIOUS
<1>1. /\ \A t \in Callers : pc[t] = "idle" /\ call[t] = NoCall
      /\ ~drmInitialized /\ ~hasHandle /\ displayOn
  BY Kinds DEF Init
<1>2. \A t \in Callers : call[t].op = "none"
  BY <1>1 DEF NoCall
<1>3. \A t \in Callers : call[t].op # "init" /\ call[t].op # "enable"
  BY <1>2
<1>4. \A t \in Callers : pc[t] # "enabled" /\ pc[t] \notin InInit
  BY <1>1 DEF InInit
<1> QED
  BY <1>1, <1>3, <1>4 DEF EnableInv

\* What dsIsVideoPortEnabled answers is the state of the display, for any number of
\* threads and calls, and when the compositor refuses, if the port is initialised once
\* and no two calls of dsEnableVideoPort overlap; unless the compositor left the last
\* of them without an answer.
THEOREM AnswerIsDisplayed ==
    ASSUME InitialisedOnce
    PROVE  Spec => []EnabledIsDisplayed
<1>1. TypeInv /\ CallInv /\ EnableInv /\ [Next]_vars => EnableInv'
  BY OthersEnable, CallEnable, CallerEnable DEF Next, Finished
<1>2. ASSUME TypeInv, EnableInv PROVE EnabledIsDisplayed
  <2> SUFFICES ASSUME hasHandle, ~unanswered, \A t \in Callers : call[t].op \notin {"init", "enable"}
               PROVE  IsEnabled = displayOn
    BY DEF EnabledIsDisplayed
  <2>1. \A t \in Callers : pc[t] # "enabled"
    BY <1>2 DEF EnableInv
  <2> QED
    BY <1>2, <2>1 DEF EnableInv
<1> QED
  BY <1>1, <1>2, InitTypes, InitAlive, InitEnable, NextTypes, CallInvStep, PTL DEF Spec

(***************************************************************************)
(* What dsVideoPortTerm waits for in pthread_join.  The refresh thread     *)
(* ends at its next turn, and on its way there it may have to take         *)
(* initLock: nobody may hold it.  That fails only when dsVideoPortInit     *)
(* cannot open DRM (run port_leak).                                        *)
(***************************************************************************)
NoLeak == SwitchedAlone /\ "initOpen" \notin Faulty

JoinInv ==
    /\ initLock # Nobody => pc[initLock] \in Locked
    /\ \A t \in Callers : pc[t] \in InTerm => ~drmRefreshAlive

JoinIsServed ==
    \A t \in Callers : pc[t] = "joining" => initLock = Nobody /\ ~drmRefreshAlive

\* The steps that neither take nor leave initLock and let no thread go on.
LEMMA JoinKept ==
    ASSUME TypeInv, JoinInv, initLock' = initLock, drmRefreshAlive' = drmRefreshAlive,
           \A o \in Callers : pc'[o] = pc[o]
                              \/ (pc[o] \notin Locked /\ (pc'[o] \in InTerm => pc[o] \in InTerm))
    PROVE  JoinInv'
BY DEF TypeInv, TypeOK, JoinInv, Locked, InTerm

LEMMA CallerJoin ==
    ASSUME NoLeak, TypeInv, ReadyInv, CallInv, JoinInv, NEW t \in Callers, CallerStep(t)
    PROVE  JoinInv'
<1>1. /\ pc \in [Threads -> AllLabels] /\ t \in Threads /\ t # Nobody
      /\ initLock \in Callers \cup {Nobody}
  BY Kinds DEF TypeInv, TypeOK, AllLabels
<1>2. \A o \in Callers : o # t => pc'[o] = pc[o]
  BY CallerMoves
<1>3. pc[t] \in Locked => initLock = t /\ call[t].op = "init"
  BY DEF ReadyInv, CallInv, OfItsCall, Locked, InInit
<1>4. CASE Common(t) \/ Register(t) \/ EnableDisplay(t) \/ EnableFlag(t) \/ InitEnter(t)
           \/ TermClear(t) \/ TermJoin(t)
  <2>1. initLock' = initLock /\ drmRefreshAlive' = drmRefreshAlive
    <3>1. CASE Common(t)
      BY <1>1, <3>1, CommonPlaces DEF flags, locks
    <3> QED
      BY <1>4, <3>1 DEF Register, EnableDisplay, EnableFlag, InitEnter, TermClear, TermJoin,
         flags, locks
  <2>2. pc[t] \notin Locked /\ (pc'[t] \in InTerm => pc[t] \in InTerm)
    <3>1. CASE Common(t)
      <4>1. PICK l \in Places(t) \cap CommonGoals : Goto(t, l)
        BY <1>1, <3>1, CommonPlaces
      <4>2. pc[t] \in CheckLabels
        BY <1>1, <3>1, CommonPlaces
      <4> QED
        BY <1>1, <4>1, <4>2 DEF Goto, CommonGoals, CheckLabels, InTerm, Locked
    <3>2. CASE TermClear(t) \/ TermJoin(t)
      BY <1>1, <3>2 DEF TermClear, TermJoin, At, InTerm, Locked
    <3>3. CASE Register(t) \/ EnableDisplay(t) \/ EnableFlag(t) \/ InitEnter(t)
      BY <1>1, <3>3 DEF Register, EnableDisplay, EnableFlag, InitEnter, CheckThen, Return,
         Goto, At, InTerm, Locked
    <3> QED
      BY <1>4, <3>1, <3>2, <3>3
  <2> QED
    BY <1>2, <2>1, <2>2, JoinKept
<1>5. CASE InitLock(t)
  <2>1. /\ pc[t] = "initLock" /\ initLock = Nobody /\ drmRefreshAlive' = drmRefreshAlive
        /\ \/ initLock' = initLock /\ pc'[t] = "idle"
           \/ initLock' = t /\ pc'[t] = "create"
    BY <1>1, <1>5 DEF InitLock, NoLeak, CanFail, Return, Goto, At, flags
  <2> QED
    BY <1>1, <1>2, <2>1 DEF JoinInv, Locked, InTerm
<1>6. CASE InitCreate(t) \/ InitNotify(t)
  <2>1. /\ initLock' = initLock /\ pc[t] \in {"create", "notify"}
        /\ InitNotify(t) => drmRefreshAlive' = drmRefreshAlive
    BY <1>6 DEF InitCreate, InitNotify, At, flags, locks
  <2>2. pc'[t] \in Locked
    <3>1. CASE \E l \in {"notify", "publish"} : Goto(t, l)
      BY <1>1, <3>1 DEF Goto, Locked
    <3>2. ASSUME NEW u \in Refreshers \cup Notifiers, NEW m \in {"created", "check"},
                 NEW l \in {"notify", "publish"}, pc' = [pc EXCEPT ![u] = m, ![t] = l]
          PROVE  pc'[t] = l
      <4>1. u \in Threads /\ u # t /\ m \in AllLabels /\ l \in AllLabels
        BY Kinds DEF AllLabels, RefreshLabels, CallerLabels, CheckLabels
      <4> QED
        BY ONLY <1>1, <3>2, <4>1, TwoPlaces
    <3> QED
      BY <1>6, <3>1, <3>2 DEF InitNotify, InitCreate, Locked
  <2>3. call[t].op = "init" /\ initLock = t
    BY <1>3, <2>1 DEF Locked
  <2>4. \A o \in Callers : pc[o] \notin InTerm
    <3> SUFFICES ASSUME NEW o \in Callers, pc[o] \in InTerm PROVE FALSE
      OBVIOUS
    <3>1. call[o].op = "term"
      BY DEF CallInv, OfItsCall
    <3> QED
      BY <2>3, <3>1, OneSwitches DEF NoLeak
  <2> QED
    BY <1>2, <2>1, <2>2, <2>3, <2>4 DEF JoinInv, Locked, InTerm
<1>7. CASE InitPublish(t)
  BY <1>1, <1>2, <1>7 DEF InitPublish, Return, Goto, flags, JoinInv, InTerm
<1>8. CASE TermEnter(t)
  <2>1. /\ initLock' = initLock /\ pc[t] = "entered"
        /\ \/ ~drmRefreshAlive'
           \/ drmRefreshAlive' = drmRefreshAlive /\ pc'[t] = "idle"
    BY <1>1, <1>8 DEF TermEnter, Return, Goto, At, locks
  <2> QED
    BY <1>1, <1>2, <2>1 DEF JoinInv, Locked, InTerm
<1>9. CASE TermJoined(t)
  <2>1. /\ pc' = [pc EXCEPT ![joining[t]] = "idle", ![t] = "idle"] /\ pc[t] = "joining"
        /\ initLock' = initLock /\ drmRefreshAlive' = drmRefreshAlive
    BY <1>9 DEF TermJoined, At, flags, locks
  <2>2. pc'[t] = "idle"
    BY <1>1, <2>1 DEF AllLabels, CallerLabels
  <2> QED
    BY <1>1, <1>2, <2>1, <2>2 DEF JoinInv, Locked, InTerm
<1> QED
  BY <1>4, <1>5, <1>6, <1>7, <1>8, <1>9 DEF CallerStep

LEMMA OthersJoin ==
    ASSUME TypeInv, JoinInv, \/ \E r \in Refreshers : RefreshStep(r)
                             \/ \E n \in Notifiers : NotifyStep(n)
                             \/ WorldStep \/ UNCHANGED vars
    PROVE  JoinInv'
<1>1. \A o \in Callers : pc'[o] = pc[o]
  BY OthersMoves
<1>2. initLock' = initLock
  BY OthersQuiet DEF Quiet
<1>3. drmRefreshAlive' = drmRefreshAlive
  <2>1. ASSUME NEW t \in Refreshers \cup Notifiers, Common(t)
        PROVE  drmRefreshAlive' = drmRefreshAlive
    BY <2>1, CommonPlaces, Kinds DEF flags
  <2> QED
    BY <2>1 DEF RefreshStep, NotifyStep, RefreshBegin, RefreshLoop, RefreshSelect,
       RefreshConnector, RefreshDone, NotifySample, NotifyPoll, NotifyRound, WorldStep,
       MoveCable, Negotiate, vars, flags
<1> QED
  BY <1>1, <1>2, <1>3, JoinKept

LEMMA CallJoin ==
    ASSUME TypeInv, JoinInv, NEW t \in Callers, NEW c \in Calls, Call(t, c)
    PROVE  JoinInv'
<1>1. PICK l \in {"check", "entered"} : Goto(t, l)
  BY DEF Call, CheckThen
<1>2. /\ pc'[t] = l /\ pc[t] = "idle"
      /\ \A o \in Callers : o # t => pc'[o] = pc[o]
  BY <1>1, Kinds DEF Goto, Call, At, TypeInv, TypeOK
<1>3. initLock' = initLock /\ drmRefreshAlive' = drmRefreshAlive
  BY DEF Call, flags, locks
<1> QED
  BY <1>2, <1>3, JoinKept DEF Locked, InTerm

\* While dsVideoPortTerm waits for the refresh thread, that thread finds initLock free
\* and is told to end: what the liveness property CallsReturn of the runs needs in every
\* state, for any number of threads and calls.
THEOREM TermWaitsForTheWilling ==
    ASSUME NoLeak
    PROVE  Spec => []JoinIsServed
<1>1. TypeInv /\ ReadyInv /\ CallInv /\ JoinInv /\ [Next]_vars => JoinInv'
  BY CallerJoin, OthersJoin, CallJoin DEF Next, Finished
<1>2. Init => JoinInv
  BY Kinds DEF Init, JoinInv, InTerm
<1>3. ASSUME TypeInv, CallInv, JoinInv PROVE JoinIsServed
  <2> SUFFICES ASSUME NEW t \in Callers, pc[t] = "joining"
               PROVE  initLock = Nobody /\ ~drmRefreshAlive
    BY DEF JoinIsServed
  <2>1. call[t].op = "term" /\ ~drmRefreshAlive
    BY <1>3 DEF CallInv, OfItsCall, JoinInv, InTerm
  <2>2. ASSUME initLock # Nobody PROVE FALSE
    <3>1. initLock \in Callers /\ pc[initLock] \in Locked
      BY <1>3, <2>2 DEF TypeInv, TypeOK, JoinInv
    <3>2. call[initLock].op = "init"
      BY <1>3, <3>1 DEF CallInv, OfItsCall, Locked, InInit
    <3> QED
      BY <1>3, <2>1, <3>1, <3>2, OneSwitches DEF NoLeak
  <2> QED
    BY <2>1, <2>2
<1> QED
  BY <1>1, <1>2, <1>3, InitTypes, InitAlive, NextTypes, ReadyStep, CallInvStep, PTL DEF Spec
=============================================================================
