-------------------------- MODULE ResolutionProofs --------------------------
(* Theorems about Resolution, for any displays, callers and calls. *)
EXTENDS Resolution, TLAPS, FiniteSetTheorems

(***************************************************************************)
(* The invariant: a call runs the code of its operation (RunsItsOp); what  *)
(* is on the screen now is among what was seen since the call began, and a *)
(* search of the CRTC without an encoder began in the dark (SeesItAll).    *)
(***************************************************************************)
LocalTypes ==
    /\ DOMAIN first = Callers /\ DOMAIN answer = Callers
    /\ DOMAIN seen = Callers /\ DOMAIN sinks = Callers

RunsItsOp ==
    \A t \in Callers :
        /\ pc[t] \in {"set", "ask"} => call[t].op = "set"
        /\ pc[t] = "setrate" => call[t].op = "setrate"
        /\ pc[t] \in {"get", "crtc"} => call[t].op = "get"
        /\ pc[t] = "getrate" => call[t].op = "getrate"
        /\ pc[t] = "tv" => call[t].op = "tv"
        /\ pc[t] \in {"edid", "modes"} => call[t].op = "edid"

SeesItAll ==
    \A t \in Callers :
        /\ pc[t] # "idle" => shown \in seen[t] /\ sink \in sinks[t]
        /\ pc[t] = "crtc" /\ first[t] = {} => Dark \in seen[t]

ModeInv == TypeOK /\ LocalTypes /\ RunsItsOp /\ SeesItAll

\* The bounds are numbers.
LEMMA Bounds == MaxCalls \in Nat /\ MaxMoves \in Nat
BY ResolutionAssumption, Zenon

\* The client may ask for nothing but calls of the API.
LEMMA CallOps ==
    ASSUME NEW c \in Calls
    PROVE  /\ c \in ApiCalls
           /\ c.op \in {"set", "setrate", "get", "getrate", "edid", "tv"}
BY ResolutionAssumption DEF ApiCalls

\* A request for a mode is answered, and either the display shows one of its own
\* modes now or it shows what it did.
LEMMA Requests ==
    ASSUME NEW t \in Callers, SetAsk(t) \/ SetDisplayframerate(t)
    PROVE  /\ pc[t] \in {"ask", "setrate"}
           /\ \E r \in {"none", "error"} : Answer(t, r, {})
           /\ UNCHANGED <<call, first, calls, moves>>
           /\ UNCHANGED silent \/ silent' = [silent EXCEPT ![t] = TRUE]
           /\ \/ \E m \in sink : Device(sink, m)
              \/ UNCHANGED <<sink, shown, seen, sinks>>
<1>1. CASE SetAsk(t)
  BY <1>1 DEF SetAsk, At
<1>2. CASE SetDisplayframerate(t)
  BY <1>2 DEF SetDisplayframerate, At
<1> QED
  BY <1>1, <1>2

\* The types of what an answer writes.
LEMMA Answers ==
    ASSUME TypeOK, LocalTypes, NEW t \in Callers,
           \E r \in {"none", "error"} : \E a : Answer(t, r, a)
    PROVE  /\ pc' \in [Callers -> Labels]
           /\ ret' \in [Callers -> {"none", "error"}]
           /\ DOMAIN answer' = Callers
BY DEF TypeOK, LocalTypes, Answer, Goto, Labels

\* At the start no display is plugged and no call is under way.
LEMMA InitModes == Init => ModeInv
<1> SUFFICES ASSUME Init PROVE ModeInv
  OBVIOUS
<1>1. pc = [t \in Callers |-> "idle"] /\ call = [t \in Callers |-> NoCall]
  BY DEF Init
<1>2. TypeOK
  <2>1. pc \in [Callers -> Labels] /\ call \in [Callers -> ApiCalls \cup {NoCall}]
    BY <1>1 DEF Labels
  <2>2. ret \in [Callers -> {"none", "error"}]
    BY DEF Init
  <2>3. sink \in Sinks \cup {{}} /\ shown \in sink \cup {Dark}
    BY DEF Init
  <2>4. calls \in 0..MaxCalls /\ moves \in 0..MaxMoves
    BY Bounds DEF Init
  <2>5. silent \in [Callers -> BOOLEAN]
    BY DEF Init
  <2> QED
    BY <2>1, <2>2, <2>3, <2>4, <2>5 DEF TypeOK
<1>3. LocalTypes
  BY DEF Init, LocalTypes
<1>4. RunsItsOp /\ SeesItAll
  BY <1>1 DEF RunsItsOp, SeesItAll
<1> QED
  BY <1>2, <1>3, <1>4 DEF ModeInv

\* The world and the bounds keep their types.
LEMMA NextTypes == ModeInv /\ [Next]_vars => TypeOK' /\ LocalTypes'
<1> SUFFICES ASSUME TypeOK, LocalTypes, [Next]_vars PROVE TypeOK' /\ LocalTypes'
  BY DEF ModeInv
<1> USE ResolutionAssumption DEF vars, locals, At, Goto
<1>1. ASSUME NEW t \in Callers, NEW c \in Calls, Call(t, c)
      PROVE  TypeOK' /\ LocalTypes'
  <2>1. pc' \in [Callers -> Labels] /\ call' \in [Callers -> ApiCalls \cup {NoCall}]
    BY <1>1, CallOps DEF Call, TypeOK, Labels
  <2>2. calls' \in 0..MaxCalls
    <3>1. calls \in 0..MaxCalls
      BY DEF TypeOK
    <3>2. calls < MaxCalls /\ calls' = calls + 1
      BY <1>1 DEF Call
    <3> QED
      BY ONLY <3>1, <3>2, Bounds
  <2>3. DOMAIN seen' = Callers /\ DOMAIN sinks' = Callers
    BY <1>1 DEF Call, LocalTypes
  <2>4. UNCHANGED <<sink, shown, first, ret, answer, silent, moves>>
    BY <1>1 DEF Call
  <2> QED
    BY <2>1, <2>2, <2>3, <2>4 DEF TypeOK, LocalTypes
<1>2. ASSUME NEW t \in Callers, Step(t)
      PROVE  TypeOK' /\ LocalTypes'
  <2>1. CASE Return(t)
    <3>1. pc' \in [Callers -> Labels] /\ call' \in [Callers -> ApiCalls \cup {NoCall}]
      BY <2>1 DEF Return, TypeOK, Labels
    <3>2. ret' \in [Callers -> {"none", "error"}] /\ silent' \in [Callers -> BOOLEAN]
      BY <2>1 DEF Return, TypeOK
    <3>3. LocalTypes' /\ UNCHANGED <<sink, shown, calls, moves>>
      BY <2>1 DEF Return, LocalTypes
    <3> QED
      BY <3>1, <3>2, <3>3 DEF TypeOK
  <2>2. CASE SetAsk(t) \/ SetDisplayframerate(t)
    <3>1. UNCHANGED <<call, first, calls, moves>>
      BY <2>2, Requests
    <3>2. sink' \in Sinks \cup {{}} /\ shown' \in sink' \cup {Dark}
      BY <2>2, Requests DEF Device, TypeOK
    <3>3. DOMAIN seen' = Callers /\ DOMAIN sinks' = Callers
      BY <2>2, Requests DEF Device, LocalTypes
    <3>4. /\ pc' \in [Callers -> Labels] /\ ret' \in [Callers -> {"none", "error"}]
          /\ DOMAIN answer' = Callers
      BY <2>2, Requests, Answers
    <3>5. silent' \in [Callers -> BOOLEAN]
      BY <2>2, Requests DEF TypeOK
    <3> QED
      BY <3>1, <3>2, <3>3, <3>4, <3>5 DEF TypeOK, LocalTypes
  <2>3. CASE \/ SetMatch(t) \/ GetConnector(t) \/ GetCrtc(t) \/ GetEDID(t)
             \/ GetSupported(t) \/ GetCurrentDisplayframerate(t)
             \/ SupportedTvResolutions(t)
    <3>1. UNCHANGED <<sink, shown, seen, sinks, silent, calls, moves, call>>
      BY <2>3 DEF SetMatch, GetConnector, GetCrtc, GetEDID, GetSupported,
         GetCurrentDisplayframerate, SupportedTvResolutions, Hold
    <3>2. DOMAIN first' = Callers
      BY <2>3 DEF SetMatch, GetConnector, GetCrtc, GetEDID, GetSupported,
         GetCurrentDisplayframerate, SupportedTvResolutions, LocalTypes
    <3>3. \/ \E r \in {"none", "error"} : \E a : Answer(t, r, a)
          \/ \E l \in Labels : Goto(t, l) /\ UNCHANGED <<ret, answer>>
      <4>1. CASE SetMatch(t)
        BY <4>1 DEF SetMatch, Labels
      <4>2. CASE GetConnector(t)
        BY <4>2 DEF GetConnector, Labels
      <4>3. CASE GetCrtc(t)
        BY <4>3 DEF GetCrtc
      <4>4. CASE GetEDID(t)
        BY <4>4 DEF GetEDID, Crash, Labels
      <4>5. CASE GetCurrentDisplayframerate(t) \/ SupportedTvResolutions(t)
                   \/ GetSupported(t)
        BY <4>5 DEF GetCurrentDisplayframerate, SupportedTvResolutions,
           GetSupported, Crash, Labels
      <4> QED
        BY <2>3, <4>1, <4>2, <4>3, <4>4, <4>5
    <3>4. /\ pc' \in [Callers -> Labels] /\ ret' \in [Callers -> {"none", "error"}]
          /\ DOMAIN answer' = Callers
      <4>1. CASE \E r \in {"none", "error"} : \E a : Answer(t, r, a)
        BY <4>1, Answers
      <4>2. CASE \E l \in Labels : Goto(t, l) /\ UNCHANGED <<ret, answer>>
        BY <4>2 DEF TypeOK, LocalTypes
      <4> QED
        BY <3>3, <4>1, <4>2
    <3> QED
      BY <3>1, <3>2, <3>4 DEF TypeOK, LocalTypes
  <2> QED
    BY <1>2, <2>1, <2>2, <2>3 DEF Step
<1>3. ASSUME \/ \E s \in Sinks \cup {{}} : MoveCable(s)
             \/ \E m \in sink : Light(m)
      PROVE  TypeOK' /\ LocalTypes'
  <2>1. sink' \in Sinks \cup {{}} /\ shown' \in sink' \cup {Dark}
    BY <1>3 DEF MoveCable, Light, Device, TypeOK
  <2>2. moves' \in 0..MaxMoves
    <3>1. moves \in 0..MaxMoves
      BY DEF TypeOK
    <3>2. moves < MaxMoves /\ moves' = moves + 1
      BY <1>3 DEF MoveCable, Light
    <3> QED
      BY ONLY <3>1, <3>2, Bounds
  <2>3. DOMAIN seen' = Callers /\ DOMAIN sinks' = Callers
    BY <1>3 DEF MoveCable, Light, Device
  <2>4. UNCHANGED <<pc, call, first, ret, answer, silent, calls>>
    BY <1>3 DEF MoveCable, Light
  <2> QED
    BY <2>1, <2>2, <2>3, <2>4 DEF TypeOK, LocalTypes
<1>4. CASE Finished \/ UNCHANGED vars
  <2>1. UNCHANGED vars
    BY <1>4 DEF Finished
  <2> QED
    BY <2>1 DEF TypeOK, LocalTypes
<1> QED
  BY <1>1, <1>2, <1>3, <1>4 DEF Next

\* Every step keeps each call in the code of its operation.
LEMMA NextRuns == ModeInv /\ [Next]_vars => RunsItsOp'
<1> SUFFICES ASSUME TypeOK, RunsItsOp, [Next]_vars PROVE RunsItsOp'
  BY DEF ModeInv
<1>1. pc \in [Callers -> Labels] /\ DOMAIN call = Callers
  BY DEF TypeOK
<1> USE <1>1 DEF Labels, RunsItsOp, vars, locals, At, Goto, Answer, Hold, Device
<1>2. ASSUME NEW t \in Callers, NEW c \in Calls, Call(t, c)
      PROVE  RunsItsOp'
  BY <1>2, CallOps DEF Call
<1>3. ASSUME NEW t \in Callers, Step(t)
      PROVE  RunsItsOp'
  <2>1. CASE Return(t)
    BY <2>1 DEF Return
  <2>2. CASE SetMatch(t)
    BY <2>2 DEF SetMatch
  <2>3. CASE GetConnector(t) \/ GetCrtc(t)
    BY <2>3 DEF GetConnector, GetCrtc
  <2>5. CASE SetAsk(t) \/ SetDisplayframerate(t)
    <3>1. UNCHANGED call /\ pc' = [pc EXCEPT ![t] = "done"]
      BY <2>5, Requests
    <3> QED
      BY <3>1
  <2>6. CASE GetCurrentDisplayframerate(t)
    <3>1. UNCHANGED call /\ pc' = [pc EXCEPT ![t] = "done"]
      BY <2>6 DEF GetCurrentDisplayframerate
    <3> QED
      BY <3>1
  <2>4. CASE SupportedTvResolutions(t) \/ GetEDID(t) \/ GetSupported(t)
    BY <2>4 DEF SupportedTvResolutions, GetEDID, GetSupported, Crash
  <2> QED
    BY <1>3, <2>1, <2>2, <2>3, <2>4, <2>5, <2>6 DEF Step
<1>4. CASE \/ \E s \in Sinks \cup {{}} : MoveCable(s)
           \/ \E m \in sink : Light(m)
           \/ Finished \/ UNCHANGED vars
  BY <1>4 DEF MoveCable, Light, Finished
<1> QED
  BY <1>2, <1>3, <1>4 DEF Next

\* Every step keeps the present screen and display among those a call has seen.
LEMMA NextSees == ModeInv /\ [Next]_vars => SeesItAll'
<1> SUFFICES ASSUME TypeOK, LocalTypes, RunsItsOp, SeesItAll, [Next]_vars
             PROVE  SeesItAll'
  BY DEF ModeInv
<1>1. pc \in [Callers -> Labels]
  BY DEF TypeOK
<1> USE <1>1 DEF Labels, LocalTypes, SeesItAll, vars, locals, At, Goto, Answer, Hold, Device
<1>2. ASSUME NEW t \in Callers, NEW c \in Calls, Call(t, c)
      PROVE  SeesItAll'
  BY <1>2, CallOps DEF Call
<1>3. ASSUME NEW t \in Callers, Step(t)
      PROVE  SeesItAll'
  <2>1. CASE Return(t)
    BY <2>1 DEF Return
  <2>2. CASE SetMatch(t)
    BY <2>2 DEF SetMatch
  <2>3. CASE SetAsk(t) \/ SetDisplayframerate(t)
    <3>1. pc[t] # "idle" /\ UNCHANGED first /\ pc' = [pc EXCEPT ![t] = "done"]
      BY <2>3, Requests
    <3>2. CASE \E m \in sink : Device(sink, m)
      BY <3>1, <3>2
    <3>3. CASE UNCHANGED <<sink, shown, seen, sinks>>
      BY <3>1, <3>3
    <3> QED
      BY <2>3, <3>2, <3>3, Requests
  <2>5. CASE GetConnector(t)
    BY <2>5 DEF GetConnector, Lit
  <2>6. CASE GetCrtc(t) \/ GetCurrentDisplayframerate(t)
    BY <2>6 DEF GetCrtc, GetCurrentDisplayframerate
  <2>7. CASE SupportedTvResolutions(t) \/ GetEDID(t) \/ GetSupported(t)
    BY <2>7 DEF SupportedTvResolutions, GetEDID, GetSupported, Crash
  <2> QED
    BY <1>3, <2>1, <2>2, <2>3, <2>5, <2>6, <2>7 DEF Step
<1>4. CASE \/ \E s \in Sinks \cup {{}} : MoveCable(s)
           \/ \E m \in sink : Light(m)
  BY <1>4 DEF MoveCable, Light
<1>5. CASE Finished \/ UNCHANGED vars
  BY <1>5 DEF Finished
<1> QED
  BY <1>2, <1>3, <1>4, <1>5 DEF Next

\* The parts together are an invariant.
LEMMA ModeInvariant == Spec => []ModeInv
<1>1. ModeInv /\ [Next]_vars => ModeInv'
  BY NextTypes, NextRuns, NextSees DEF ModeInv
<1> QED
  BY InitModes, <1>1, PTL DEF Spec

\* The variables of the device and of the calls have their types: what is shown is
\* a mode of the display that is plugged.
THEOREM ModeTypes == Spec => []TypeOK
<1>1. ModeInv => TypeOK
  BY DEF ModeInv
<1> QED
  BY <1>1, ModeInvariant, PTL

-----------------------------------------------------------------------------
(* What the calls answer *)

\* The steps that do not end a call leave what is answered alone.
LEMMA NewCall ==
    ASSUME ModeInv, NEW t \in Callers, NEW c \in Calls, Call(t, c)
    PROVE  /\ pc'[t] # "done"
           /\ \A o \in Callers \ {t} :
                /\ pc'[o] = pc[o] /\ call'[o] = call[o]
                /\ seen'[o] = seen[o] /\ sinks'[o] = sinks[o]
           /\ UNCHANGED <<ret, answer, silent, sink>>
<1>1. /\ pc \in [Callers -> Labels] /\ DOMAIN call = Callers
      /\ DOMAIN seen = Callers /\ DOMAIN sinks = Callers
  BY DEF ModeInv, TypeOK, LocalTypes
<1>2. /\ pc' = [pc EXCEPT ![t] = c.op] /\ call' = [call EXCEPT ![t] = c]
      /\ seen' = [seen EXCEPT ![t] = {shown}]
      /\ sinks' = [sinks EXCEPT ![t] = {sink}]
      /\ UNCHANGED <<ret, answer, silent, sink>>
  BY DEF Call, Goto
<1> QED
  BY <1>1, <1>2, CallOps

\* A step of a call leaves the answers of the other calls alone, and only adds to
\* what they have seen.
LEMMA OtherAnswers ==
    ASSUME ModeInv, NEW t \in Callers, Step(t), NEW o \in Callers, o # t
    PROVE  /\ UNCHANGED <<pc[o], call[o], ret[o], answer[o], silent[o]>>
           /\ seen[o] \subseteq seen'[o]
<1> USE DEF ModeInv, TypeOK, LocalTypes
<1>1. CASE SetAsk(t) \/ SetDisplayframerate(t)
  <2>1. /\ UNCHANGED <<call>> /\ \E r \in {"none", "error"} : Answer(t, r, {})
        /\ UNCHANGED silent \/ silent' = [silent EXCEPT ![t] = TRUE]
        /\ \/ \E m \in sink : Device(sink, m)
           \/ UNCHANGED <<sink, shown, seen, sinks>>
    BY <1>1, Requests
  <2> QED
    BY <2>1 DEF Answer, Goto, Device
<1>2. CASE Return(t)
  BY <1>2 DEF Return, Goto
<1>3. CASE \/ SetMatch(t) \/ GetConnector(t) \/ GetCrtc(t) \/ GetEDID(t)
           \/ GetSupported(t) \/ GetCurrentDisplayframerate(t)
           \/ SupportedTvResolutions(t)
  <2>1. UNCHANGED <<seen, call, silent>>
    BY <1>3 DEF SetMatch, GetConnector, GetCrtc, GetEDID, GetSupported,
       GetCurrentDisplayframerate, SupportedTvResolutions, Hold
  <2>2. \/ \E r, a : Answer(t, r, a)
        \/ \E l : Goto(t, l) /\ UNCHANGED <<ret, answer>>
    <3>1. CASE SetMatch(t) \/ GetConnector(t) \/ GetEDID(t)
      BY <3>1 DEF SetMatch, GetConnector, GetEDID, Crash
    <3>2. CASE GetCrtc(t)
      BY <3>2 DEF GetCrtc
    <3>3. CASE GetCurrentDisplayframerate(t) \/ SupportedTvResolutions(t)
                 \/ GetSupported(t)
      BY <3>3 DEF GetCurrentDisplayframerate, SupportedTvResolutions,
         GetSupported, Crash
    <3> QED
      BY <1>3, <3>1, <3>2, <3>3
  <2> QED
    BY <2>1, <2>2 DEF Answer, Goto
<1> QED
  BY <1>1, <1>2, <1>3 DEF Step

\* Cable and compositor leave the answers alone and only add to what was seen.
LEMMA WorldAnswers ==
    ASSUME ModeInv, \/ \E s \in Sinks \cup {{}} : MoveCable(s)
                    \/ \E m \in sink : Light(m)
    PROVE  /\ UNCHANGED <<pc, call, ret, answer, silent>>
           /\ \A o \in Callers : seen[o] \subseteq seen'[o]
BY DEF MoveCable, Light, Device, locals, ModeInv, TypeOK, LocalTypes

\* What SetIsShown says of one call.
SetOf(t) ==
    /\ Done(t, "setrate") => call[t].res \in seen[t]
    /\ Done(t, "set") => call[t].res \in seen[t] \/ silent[t]

\* A request succeeds only with the mode on the screen, or unheard: whatever the
\* compositor answers and however cable, compositor and other callers move the mode.
THEOREM SuccessIsShown == Spec => []SetIsShown
<1>1. Init => SetIsShown
  BY DEF Init, SetIsShown, Done, At
<1>2. ModeInv /\ SetIsShown /\ [Next]_vars => SetIsShown'
  <2> SUFFICES ASSUME ModeInv, SetIsShown, [Next]_vars PROVE SetIsShown'
    OBVIOUS
  <2>1. ASSUME NEW t \in Callers, NEW c \in Calls, Call(t, c)
        PROVE  SetIsShown'
    BY <2>1, NewCall DEF SetIsShown, Done, At
  <2>2. ASSUME NEW t \in Callers, Step(t)
        PROVE  SetIsShown'
    <3>1. \A o \in Callers : o # t => SetOf(o)'
      BY <2>2, OtherAnswers DEF SetIsShown, SetOf, Done, At
    <3>2. SetOf(t)'
      <4> USE DEF ModeInv, TypeOK, LocalTypes
      <4>1. CASE SetAsk(t)
        <5>0. call' = call /\ call[t].op = "set"
          BY <4>1 DEF SetAsk, RunsItsOp, At
        <5>1. CASE call[t].res \in sink /\ Device(sink, call[t].res)
          BY <5>0, <5>1 DEF Device, SetOf, Done
        <5>2. CASE Answer(t, "error", {})
          BY <5>2 DEF Answer, SetOf, Done
        <5>3. CASE silent' = [silent EXCEPT ![t] = TRUE]
          BY <5>0, <5>3 DEF SetOf, Done
        <5> QED
          BY <4>1, <5>1, <5>2, <5>3 DEF SetAsk
      <4>2. CASE SetDisplayframerate(t)
        <5>0. call' = call /\ call[t].op = "setrate"
          BY <4>2 DEF SetDisplayframerate, RunsItsOp, At
        <5>1. CASE call[t].res \in sink /\ Device(sink, call[t].res)
          BY <5>0, <5>1 DEF Device, SetOf, Done
        <5>2. CASE Answer(t, "error", {})
          BY <5>2 DEF Answer, SetOf, Done
        <5> QED
          BY <4>2, <5>1, <5>2 DEF SetDisplayframerate
      <4>3. CASE Return(t)
        BY <4>3 DEF Return, Goto, SetOf, Done, At
      <4>4. CASE SetMatch(t)
        BY <4>4 DEF SetMatch, Answer, Goto, SetOf, Done, At
      <4>5. CASE \/ GetConnector(t) \/ GetCrtc(t) \/ GetEDID(t) \/ GetSupported(t)
                 \/ GetCurrentDisplayframerate(t) \/ SupportedTvResolutions(t)
        <5>1. call' = call
          BY <4>5 DEF GetConnector, GetCrtc, GetEDID, GetSupported,
             GetCurrentDisplayframerate, SupportedTvResolutions
        <5>2. pc[t] \in {"get", "crtc", "edid", "modes", "getrate", "tv"}
          BY <4>5 DEF GetConnector, GetCrtc, GetEDID, GetSupported,
             GetCurrentDisplayframerate, SupportedTvResolutions, At
        <5> QED
          BY <5>1, <5>2 DEF RunsItsOp, SetOf, Done
      <4> QED
        BY <2>2, <4>1, <4>2, <4>3, <4>4, <4>5 DEF Step
    <3> QED
      BY <3>1, <3>2 DEF SetIsShown, SetOf
  <2>3. CASE \/ \E s \in Sinks \cup {{}} : MoveCable(s)
             \/ \E m \in sink : Light(m)
    BY <2>3, WorldAnswers DEF SetIsShown, Done, At
  <2>4. CASE Finished \/ UNCHANGED vars
    BY <2>4 DEF Finished, vars, SetIsShown, Done, At
  <2> QED
    BY <2>1, <2>2, <2>3, <2>4 DEF Next
<1> QED
  BY <1>1, <1>2, ModeInvariant, PTL DEF Spec

\* What NamedIsShown says of one call.
NamedOf(t) ==
    (Done(t, "get") \/ Done(t, "getrate"))
        /\ (\A m \in seen[t] : m # Dark /\ Recognised(m))
      => \E m \in seen[t] : answer[t] = {m}

\* The driver knows the interlaced modes of 1080 lines at 50 and at 60 Hz only.
InterlacedRates ==
    \A s \in Sinks : \A m \in s :
        m.size = "1080" /\ m.scan = "i" => m.rate \in {50, 60}

\* A mode of the display is named as itself.
LEMMA OwnName ==
    ASSUME TypeOK, InterlacedRates, Lit
    PROVE  NameOf(shown) = shown
<1>1. PICK s \in Sinks : shown \in s
  BY DEF TypeOK, Lit
<1>2. /\ shown \in Modes
      /\ shown.size = "1080" /\ shown.scan = "i" => shown.rate \in {50, 60}
  BY <1>1, ResolutionAssumption DEF InterlacedRates
<1>3. CASE shown.size = "1080" /\ shown.scan = "i" /\ shown.rate # 50
  BY <1>2, <1>3 DEF NameOf, Modes, Mode
<1>4. CASE ~(shown.size = "1080" /\ shown.scan = "i" /\ shown.rate # 50)
  BY <1>4 DEF NameOf
<1> QED
  BY <1>3, <1>4

\* dsGetResolution and dsGetCurrentDisplayframerate name a mode that was on the
\* screen during the call, however cable and compositor move, if the encoder of
\* HDMI is the first one of the device.
THEOREM NamedWasShown ==
    ASSUME HdmiEncoder = 1, InterlacedRates
    PROVE  Spec => []NamedIsShown
<1>1. Init => NamedIsShown
  BY DEF Init, NamedIsShown, Done, At
<1>2. ModeInv /\ NamedIsShown /\ [Next]_vars => NamedIsShown'
  <2> SUFFICES ASSUME ModeInv, NamedIsShown, [Next]_vars PROVE NamedIsShown'
    OBVIOUS
  <2>0. /\ NamedIsShown <=> \A t \in Callers : NamedOf(t)
        /\ NamedIsShown' <=> \A t \in Callers : NamedOf(t)'
    BY DEF NamedIsShown, NamedOf
  <2>1. ASSUME NEW t \in Callers, NEW c \in Calls, Call(t, c)
        PROVE  NamedIsShown'
    BY <2>0, <2>1, NewCall DEF NamedOf, Done, At
  <2>2. ASSUME NEW t \in Callers, Step(t)
        PROVE  NamedIsShown'
    <3>1. ASSUME NEW o \in Callers, o # t
          PROVE  NamedOf(o)'
      BY <2>0, <2>2, <3>1, OtherAnswers DEF NamedOf, Done, At
    <3>2. NamedOf(t)'
      <4> USE DEF ModeInv, TypeOK, LocalTypes
      <4>1. CASE GetCrtc(t)
        <5>1. UNCHANGED <<seen, call, shown>> /\ shown \in seen[t]
          BY <4>1 DEF GetCrtc, Hold, SeesItAll, At
        <5>2. CASE first[t] # {} /\ Lit /\ Recognised(shown)
          <6>1. Answer(t, "none", {NameOf(shown)})
            BY <4>1, <5>2 DEF GetCrtc
          <6>2. answer'[t] = {shown}
            BY <5>2, <6>1, OwnName DEF Answer
          <6> QED
            BY <5>1, <6>2 DEF NamedOf
        <5>3. CASE first[t] = {}
          <6>1. Dark \in seen'[t]
            BY <4>1, <5>1, <5>3 DEF GetCrtc, SeesItAll, At
          <6> QED
            BY <6>1 DEF NamedOf
        <5>4. CASE ~Lit \/ ~Recognised(shown)
          <6>1. shown \in seen'[t] /\ (shown = Dark \/ ~Recognised(shown))
            BY <5>1, <5>4 DEF Lit
          <6> QED
            BY <6>1 DEF NamedOf
        <5> QED
          BY <5>2, <5>3, <5>4
      <4>2. CASE GetCurrentDisplayframerate(t)
        <5>1. UNCHANGED <<seen, call, shown>> /\ shown \in seen[t]
          BY <4>2 DEF GetCurrentDisplayframerate, Hold, SeesItAll, At
        <5>2. CASE Answer(t, "none", {shown})
          BY <5>1, <5>2 DEF NamedOf, Answer
        <5>3. CASE Answer(t, "error", {})
          BY <5>3 DEF NamedOf, Answer, Done
        <5> QED
          BY <4>2, <5>2, <5>3 DEF GetCurrentDisplayframerate
      <4>3. CASE SetAsk(t) \/ SetDisplayframerate(t)
        <5>1. UNCHANGED call /\ call[t].op \in {"set", "setrate"}
          BY <4>3, Requests DEF SetAsk, SetDisplayframerate, RunsItsOp, At
        <5> QED
          BY <5>1 DEF NamedOf, Done
      <4>4. CASE Return(t)
        BY <4>4 DEF Return, Goto, NamedOf, Done, At
      <4>5. CASE SetMatch(t) \/ GetEDID(t) \/ GetSupported(t)
                 \/ SupportedTvResolutions(t)
        <5>1. call' = call
          BY <4>5 DEF SetMatch, GetEDID, GetSupported, SupportedTvResolutions
        <5>2. pc[t] \in {"set", "edid", "modes", "tv"}
          BY <4>5 DEF SetMatch, GetEDID, GetSupported, SupportedTvResolutions, At
        <5> QED
          BY <5>1, <5>2 DEF RunsItsOp, NamedOf, Done
      <4>6. CASE GetConnector(t)
        <5>1. pc' = [pc EXCEPT ![t] = "crtc"] \/ ret' = [ret EXCEPT ![t] = "error"]
          BY <4>6 DEF GetConnector, Answer, Goto
        <5> QED
          BY <5>1 DEF NamedOf, Done, At
      <4> QED
        BY <2>2, <4>1, <4>2, <4>3, <4>4, <4>5, <4>6 DEF Step
    <3> QED
      BY <2>0, <3>1, <3>2
  <2>3. CASE \/ \E s \in Sinks \cup {{}} : MoveCable(s)
             \/ \E m \in sink : Light(m)
    BY <2>0, <2>3, WorldAnswers DEF NamedOf, Done, At
  <2>4. CASE Finished \/ UNCHANGED vars
    BY <2>0, <2>4 DEF Finished, vars, NamedOf, Done, At
  <2> QED
    BY <2>1, <2>2, <2>3, <2>4 DEF Next
<1> QED
  BY <1>1, <1>2, ModeInvariant, PTL DEF Spec

-----------------------------------------------------------------------------
(* The lists of dsGetEDID and of dsSupportedTvResolutions *)

\* The translation into names of RDK and back is exact on the progressive modes.
LEMMA ExactTables ==
    ASSUME NEW modes, NEW r \in kResolutions, r.scan = "p"
    PROVE  r \in HDMISupportedResolutions(modes) <=> r \in modes
<1>1. ModeInfo(r) = r
  BY DEF ModeInfo
<1>2. \/ r.size = "480" /\ r.rate = 60
      \/ r.size = "576" /\ r.rate = 50
      \/ r.size \in {"720", "1080", "2160"} /\ r.rate \in Rates
  BY DEF kResolutions, Mode
<1>3. r \in SupportedModes(modes) <=> r \in modes
  BY <1>2 DEF SupportedModes
<1> QED
  BY <1>1, <1>3 DEF HDMISupportedResolutions

\* Each list is that of one display which was plugged during the call.
ListOf(t) ==
    /\ IsFiniteSet(sinks[t])
    /\ Done(t, "edid") =>
         \E s \in sinks[t] : answer[t] = HDMISupportedResolutions(s)
    /\ Done(t, "tv") =>
         \E s \in sinks[t] : answer[t] = Own(call[t]) \cup TvResolutions(s)

ListsOne == \A t \in Callers : ListOf(t)

LEMMA NextLists == ModeInv /\ ListsOne /\ [Next]_vars => ListsOne'
<1> SUFFICES ASSUME ModeInv, ListsOne, [Next]_vars PROVE ListsOne'
  OBVIOUS
<1> USE DEF ModeInv, TypeOK, LocalTypes
<1>1. ASSUME NEW t \in Callers, NEW c \in Calls, Call(t, c)
      PROVE  ListsOne'
  <2>1. sinks'[t] = {sink} /\ pc'[t] # "done"
    BY <1>1, NewCall DEF Call
  <2>0. IsFiniteSet({sink})
    BY FS_Singleton
  <2>2. ListOf(t)'
    BY <2>0, <2>1 DEF ListOf, Done, At
  <2>3. ASSUME NEW o \in Callers \ {t}
        PROVE  ListOf(o)'
    BY <1>1, NewCall DEF ListsOne, ListOf, Done, At
  <2> QED
    BY <2>2, <2>3 DEF ListsOne
<1>2. ASSUME NEW o \in Callers, NEW s, sinks'[o] = sinks[o] \cup {s},
             UNCHANGED <<pc[o], call[o], ret[o], answer[o]>>
      PROVE  ListOf(o)'
  <2>1. IsFiniteSet(sinks'[o])
    BY <1>2, FS_AddElement DEF ListsOne, ListOf
  <2> QED
    BY <1>2, <2>1 DEF ListsOne, ListOf, Done, At
<1>3. ASSUME NEW t \in Callers, Step(t)
      PROVE  ListsOne'
  <2>1. CASE SetAsk(t) \/ SetDisplayframerate(t)
    <3>1. /\ UNCHANGED call /\ call[t].op \in {"set", "setrate"}
          /\ \E r \in {"none", "error"} : Answer(t, r, {})
      BY <2>1, Requests DEF SetAsk, SetDisplayframerate, RunsItsOp, At
    <3>2. CASE UNCHANGED sinks
      BY <3>1, <3>2 DEF ListsOne, ListOf, Done, At, Answer, Goto
    <3>3. CASE \E m \in sink : Device(sink, m)
      <4>1. \A o \in Callers : sinks'[o] = sinks[o] \cup {sink}
        BY <3>3 DEF Device
      <4>2. \A o \in Callers : IsFiniteSet(sinks'[o])
        <5>1. TAKE o \in Callers
        <5>2. IsFiniteSet(sinks[o]) /\ sinks'[o] = sinks[o] \cup {sink}
          BY <4>1 DEF ListsOne, ListOf
        <5> QED
          BY <5>2, FS_AddElement
      <4>3. ListOf(t)'
        BY <3>1, <4>2 DEF ListOf, Done
      <4>4. \A o \in Callers : o # t => ListOf(o)'
        BY <3>1, <4>1, <1>2 DEF Answer, Goto
      <4> QED
        BY <4>3, <4>4 DEF ListsOne
    <3> QED
      BY <2>1, <3>2, <3>3, Requests
  <2>2. CASE Return(t)
    <3>1. /\ pc'[t] = "idle" /\ sinks'[t] = {}
          /\ \A o \in Callers : o # t => sinks'[o] = sinks[o]
      BY <2>2 DEF Return, Goto
    <3>2. ListOf(t)'
      BY <3>1, FS_EmptySet DEF ListOf, Done, At
    <3>3. \A o \in Callers : o # t => ListOf(o)'
      BY <1>3, <3>1, OtherAnswers DEF ListsOne, ListOf, Done, At
    <3> QED
      BY <3>2, <3>3 DEF ListsOne
  <2>3. CASE \/ SetMatch(t) \/ GetConnector(t) \/ GetCrtc(t) \/ GetEDID(t)
             \/ GetSupported(t) \/ GetCurrentDisplayframerate(t)
             \/ SupportedTvResolutions(t)
    <3>1. UNCHANGED <<sink, sinks, call>>
      BY <2>3 DEF SetMatch, GetConnector, GetCrtc, GetEDID, GetSupported,
         GetCurrentDisplayframerate, SupportedTvResolutions, Hold
    <3>2. \A o \in Callers : o # t => ListOf(o)'
      BY <1>3, <3>1, OtherAnswers DEF ListsOne, ListOf, Done, At
    <3>3. CASE GetSupported(t)
      <4>1. Done(t, "edid")' => answer'[t] = HDMISupportedResolutions(sink)
        BY <3>3 DEF GetSupported, Answer, Crash, Goto, Done, At
      <4>2. sink \in sinks'[t] /\ ~Done(t, "tv")'
        BY <3>1, <3>3 DEF GetSupported, SeesItAll, RunsItsOp, Done, At
      <4> QED
        BY <3>1, <3>2, <4>1, <4>2 DEF ListsOne, ListOf
    <3>4. CASE GetEDID(t)
      <4>1. ~Done(t, "edid")' /\ ~Done(t, "tv")'
        BY <3>1, <3>4 DEF GetEDID, Answer, Crash, Goto, RunsItsOp, Done, At
      <4> QED
        BY <3>1, <3>2, <4>1 DEF ListsOne, ListOf
    <3>5. CASE \/ SetMatch(t) \/ GetConnector(t) \/ GetCrtc(t)
               \/ GetCurrentDisplayframerate(t)
      <4>1. pc[t] \in {"set", "get", "crtc", "getrate"}
        BY <3>5 DEF SetMatch, GetConnector, GetCrtc, GetCurrentDisplayframerate, At
      <4>2. ~Done(t, "edid")' /\ ~Done(t, "tv")'
        BY <3>1, <4>1 DEF RunsItsOp, Done
      <4> QED
        BY <3>1, <3>2, <4>2 DEF ListsOne, ListOf
    <3>6. CASE SupportedTvResolutions(t)
      <4>1. Done(t, "tv")' => answer'[t] = Own(call'[t]) \cup TvResolutions(sink)
        BY <3>1, <3>6 DEF SupportedTvResolutions, Answer, Done
      <4>3. sink \in sinks'[t]
        BY <3>1, <3>6 DEF SupportedTvResolutions, SeesItAll, At
      <4>2. ~Done(t, "edid")'
        BY <3>1, <3>6 DEF SupportedTvResolutions, RunsItsOp, Done, At
      <4> QED
        BY <3>1, <3>2, <4>1, <4>2, <4>3 DEF ListsOne, ListOf
    <3> QED
      BY <2>3, <3>3, <3>4, <3>5, <3>6
  <2> QED
    BY <1>3, <2>1, <2>2, <2>3 DEF Step
<1>4. CASE \/ \E s \in Sinks \cup {{}} : MoveCable(s)
           \/ \E m \in sink : Light(m)
  <2>1. UNCHANGED <<pc, call, ret, answer>>
    BY <1>4, WorldAnswers
  <2>2. PICK s : \A o \in Callers : sinks'[o] = sinks[o] \cup {s}
    BY <1>4 DEF MoveCable, Light, Device
  <2> QED
    BY <1>2, <2>1, <2>2 DEF ListsOne
<1>5. CASE Finished \/ UNCHANGED vars
  BY <1>5 DEF Finished, vars, ListsOne, ListOf, Done, At
<1> QED
  BY <1>1, <1>3, <1>4, <1>5 DEF Next

\* At the start no call is under way.
LEMMA InitLists == Init => ListsOne
BY FS_EmptySet DEF Init, ListsOne, ListOf, Done, At

\* A call that saw one display saw the one that is plugged now.
LEMMA OneDisplay ==
    ASSUME ModeInv, ListsOne, NEW t \in Callers, At(t, "done"),
           Cardinality(sinks[t]) = 1
    PROVE  sinks[t] = {sink}
<1>1. PICK s : sinks[t] = {s}
  BY FS_Singleton DEF ListsOne, ListOf
<1>2. sink = s
  BY <1>1 DEF ModeInv, SeesItAll, At
<1> QED
  BY <1>1, <1>2

\* For a display that stayed plugged, dsGetEDID lists of the progressive modes of
\* the table exactly those the display has.
THEOREM ListIsThatOfTheDisplay == Spec => []ListIsOffered
<1>1. ModeInv /\ ListsOne => ListIsOffered
  <2> SUFFICES ASSUME ModeInv, ListsOne, NEW t \in Callers, Done(t, "edid"),
                      Cardinality(sinks[t]) = 1, NEW r \in kResolutions, r.scan = "p"
               PROVE  r \in answer[t] <=> r \in sink
    BY DEF ListIsOffered
  <2>1. answer[t] = HDMISupportedResolutions(sink)
    BY OneDisplay DEF ListsOne, ListOf, Done
  <2> QED
    BY <2>1, ExactTables
<1> QED
  BY <1>1, InitLists, NextLists, ModeInvariant, PTL DEF Spec

\* The modes that the driver names have the rates their sizes have: 480 lines come
\* at 60 Hz, 576 at 50, and what comes at other rates too is progressive, or 1080
\* lines interlaced at 50 or at 60 Hz.
RatesOfTheirSize ==
    \A s \in Sinks : \A m \in s :
        /\ m.size = "480" => m.rate = 60
        /\ m.size = "576" => m.rate = 50
        /\ m.size \in {"720", "2160"} => m.scan = "p"
        /\ m.size = "1080" /\ m.scan = "i" => m.rate \in {50, 60}

\* What a mode counts as, when the rate is left out.
Counts(m) == {Shape(b) : b \in TvBits(m)}

LEMMA ShapesOfBits ==
    ASSUME NEW m \in Modes
    PROVE  /\ (\/ m.size \in {"480", "576", "720"}
               \/ m.size = "1080" /\ (m.scan = "p" \/ m.rate = 60))
                => Counts(m) = {Shape(m)}
           /\ m.size = "2160" => Counts(m) = {Mode("2160", "p", 0)}
           /\ (\/ m.size \in {"1024", "smpte"}
               \/ m.size = "1080" /\ m.scan # "p" /\ m.rate # 60)
                => Counts(m) = {Mode("480", "p", 0)}
<1>0. \A size, scan, rate : Shape(Mode(size, scan, rate)) = Mode(size, scan, 0)
  BY DEF Shape, Mode
<1>1. CASE \/ m.size \in {"480", "576", "720"}
           \/ m.size = "1080" /\ (m.scan = "p" \/ m.rate = 60)
  <2>1. TvBits(m) = {Mode(m.size, m.scan, 0)}
    BY <1>1 DEF TvBits
  <2> QED
    BY <1>0, <1>1, <2>1 DEF Shape, Counts
<1>2. CASE m.size = "2160"
  <2>1. TvBits(m) = {Mode("2160", "p", 60)}
                     \cup (IF m.rate < 60 THEN {Mode("2160", "p", 30)} ELSE {})
    BY <1>2 DEF TvBits
  <2>2. TvBits(m) \in {{Mode("2160", "p", 60)},
                       {Mode("2160", "p", 60), Mode("2160", "p", 30)}}
    BY <2>1
  <2> QED
    BY <1>0, <1>2, <2>2 DEF Counts
<1>3. CASE \/ m.size \in {"1024", "smpte"}
           \/ m.size = "1080" /\ m.scan # "p" /\ m.rate # 60
  <2>1. TvBits(m) = {Mode("480", "p", 0)}
    BY <1>3 DEF TvBits
  <2> QED
    BY <1>0, <1>3, <2>1 DEF Counts
<1> QED
  BY <1>1, <1>2, <1>3

\* A mode that is told is one the driver's names are known for, and is told by its
\* size and scan; any other mode that is known counts as 480p.
LEMMA ToldByShape ==
    ASSUME RatesOfTheirSize, NEW s \in Sinks, NEW m \in s
    PROVE  /\ Told(m) => m \in SupportedModes(s)
                         /\ Counts(m) = {Shape(m)}
           /\ ~Told(m) /\ m \in SupportedModes(s)
                => Counts(m) = {Mode("480", "p", 0)}
<1>1. m \in Modes
  BY ResolutionAssumption
<1>2. /\ m.size = "480" => m.rate = 60
      /\ m.size = "576" => m.rate = 50
      /\ m.size \in {"720", "2160"} => m.scan = "p"
      /\ m.size = "1080" /\ m.scan = "i" => m.rate \in {50, 60}
  BY DEF RatesOfTheirSize
<1>3. Told(m) => m \in SupportedModes(s)
  BY <1>1, <1>2 DEF Told, SupportedModes, Modes
<1>4. ASSUME Told(m)
      PROVE  Counts(m) = {Shape(m)}
  <2>1. m = Mode(m.size, m.scan, m.rate)
    BY <1>1 DEF Modes, Mode
  <2>2. m.size = "1080" => m.scan = "p" \/ m.rate = 60
    BY <1>1, <1>2, <1>4, <2>1 DEF Told, Modes
  <2> QED
    <3>1. CASE m.size = "2160"
      BY <1>1, <1>2, <3>1, ShapesOfBits DEF Shape
    <3>2. CASE m.size # "2160"
      <4>1. m.size \in {"480", "576", "720", "1080"}
        BY <1>1, <1>4, <3>2 DEF Told, Modes
      <4> QED
        BY <1>1, <2>2, <4>1, ShapesOfBits
    <3> QED
      BY <3>1, <3>2
<1>5. ASSUME ~Told(m), m \in SupportedModes(s)
      PROVE  Counts(m) = {Mode("480", "p", 0)}
  <2>1. CASE m.size \in {"1024", "smpte"}
    BY <1>1, <2>1, ShapesOfBits
  <2>2. CASE m = Mode("1080", "i", 50)
    <3>1. m.size = "1080" /\ m.scan = "i" /\ m.rate = 50
      BY <2>2 DEF Mode
    <3> QED
      BY <1>1, <3>1, ShapesOfBits
  <2> QED
    BY <1>5, <2>1, <2>2 DEF Told
<1> QED
  BY <1>3, <1>4, <1>5

\* For a display that stayed plugged, the sizes that dsSupportedTvResolutions tells
\* are those the caller's variable had and those of the display, apart from 480p:
\* whatever modes a display has, of those that the driver names.
THEOREM TvSizesAreThoseOfTheDisplay ==
    ASSUME RatesOfTheirSize
    PROVE  Spec => []TvMatchesSink
<1>1. ModeInv /\ ListsOne => TvMatchesSink
  <2> SUFFICES ASSUME ModeInv, ListsOne, NEW t \in Callers, Done(t, "tv"),
                      Cardinality(sinks[t]) = 1
               PROVE  {Shape(b) : b \in answer[t]} \ {Mode("480", "p", 0)}
                        = {Shape(m) : m \in Own(call[t]) \cup {n \in sink : Told(n)}}
                            \ {Mode("480", "p", 0)}
    BY DEF TvMatchesSink
  <2> DEFINE P == Mode("480", "p", 0)
             O == Own(call[t])
  <2>1. answer[t] = O \cup TvResolutions(sink)
    BY OneDisplay DEF ListsOne, ListOf, Done
  <2>2. Shape(P) = P
    BY DEF Shape, Mode
  <2>3. sink \in Sinks \cup {{}}
    BY DEF ModeInv, TypeOK
  <2>4. ASSUME NEW b \in TvResolutions(sink), Shape(b) # P
        PROVE  \E m \in {n \in sink : Told(n)} : Shape(b) = Shape(m)
    <3>1. PICK m \in SupportedModes(sink) : b \in TvBits(m)
      BY <2>2, <2>4 DEF TvResolutions
    <3>2. m \in sink /\ sink \in Sinks
      BY <2>3, <3>1 DEF SupportedModes
    <3>3. Shape(b) \in {Shape(c) : c \in TvBits(m)}
      BY <3>1
    <3> QED
      BY <2>4, <3>1, <3>2, <3>3, ToldByShape DEF Counts
  <2>5. ASSUME NEW m \in sink, Told(m)
        PROVE  \E b \in TvResolutions(sink) : Shape(b) = Shape(m)
    <3>1. m \in SupportedModes(sink) /\ Counts(m) = {Shape(m)}
      BY <2>3, <2>5, ToldByShape
    <3>2. PICK b \in TvBits(m) : Shape(b) = Shape(m)
      BY <3>1 DEF Counts
    <3> QED
      BY <3>1, <3>2 DEF TvResolutions
  <2>6. {Shape(b) : b \in answer[t]} \ {P}
          \subseteq {Shape(m) : m \in O \cup {n \in sink : Told(n)}}
    BY <2>1, <2>4
  <2>7. {Shape(m) : m \in O \cup {n \in sink : Told(n)}}
          \subseteq {Shape(b) : b \in answer[t]}
    BY <2>1, <2>5
  <2> QED
    BY <2>6, <2>7
<1> QED
  BY <1>1, InitLists, NextLists, ModeInvariant, PTL DEF Spec
=============================================================================
