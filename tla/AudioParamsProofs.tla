-------------------------- MODULE AudioParamsProofs --------------------------
(* Theorems about AudioParams, for any callers, calls, failures and values. *)
EXTENDS AudioParams, TLAPS

\* The operations of the table of the setters.
LEMMA Setters ==
    /\ SetOps = {"leveller", "le", "bass", "surround", "drc", "virtualizer", "mi",
                 "graphicEq", "atmos", "delay", "delayOffset", "stereo"}
    /\ \A op \in SetOps : op \notin {"none", "encoding", "init", "term", "ports"}
BY DEF SetOps, Ms12Setters

\* The calls of the client.
LEMMA ClientCalls ==
    \A c \in Calls : /\ c \in ApiCalls
                     /\ c.op \in SetOps \/ c.op \in {"encoding", "init", "term"}
                     /\ c.port \in Ports /\ c.val \in 0..MaxValue
BY AudioAssumption DEF ApiCalls, Ports

\* The groups of operations that the client keeps apart.
LEMMA Groups ==
    \A op : /\ Group(op) = "leveller" <=> op \in {"le", "leveller"}
            /\ Group(op) = "delay" <=> op \in {"delay", "delayOffset"}
            /\ Group(op) = "ports" <=> op \in {"init", "term", "ports"}
            /\ op \notin {"le", "leveller", "delay", "delayOffset", "init", "term"}
                 => Group(op) = op
BY DEF Group

(***************************************************************************)
(* The invariant.  A call runs the code of its operation (RunsItsOp); two  *)
(* calls under way are of different groups, or both of dsSetAudioEncoding, *)
(* and one that switches ports is alone (Apart); an interface is loaded only in the middle of a setter,   *)
(* and always where a delay is sent (Loaded).                              *)
(***************************************************************************)
InSetter == {"load", "check", "set", "store", "unload"}

RunsItsOp ==
    \A t \in Callers :
        /\ pc[t] \in InSetter => call[t].op \in SetOps
        /\ pc[t] \in {"encoding", "codec"} => call[t].op = "encoding"
        /\ pc[t] \in {"init", "term"} => call[t].op \in {"init", "term"}
        /\ pc[t] # "idle" => call[t].port \in Ports /\ call[t].val \in 0..MaxValue

Apart ==
    \A t, o \in Callers :
        t # o /\ pc[t] # "idle" /\ pc[o] # "idle" =>
            /\ Group(call[t].op) = Group(call[o].op) => call[t].op = "encoding"
            /\ Group(call[t].op) # "ports"

Loaded ==
    \A t \in Callers :
        /\ pc[t] \notin {"check", "set", "store", "unload"} => ~iface[t]
        /\ pc[t] = "check" => iface[t]
        /\ pc[t] \in {"set", "store", "unload"}
             /\ call[t].op \in {"delay", "delayOffset"} => iface[t]

ParamInv == TypeOK /\ RunsItsOp /\ Apart /\ Loaded

\* At the start no call is under way.
LEMMA InitParams == Init => ParamInv
<1> SUFFICES ASSUME Init PROVE ParamInv
  OBVIOUS
<1>1. pc = [t \in Callers |-> "idle"] /\ iface = [t \in Callers |-> FALSE]
  BY DEF Init
<1>2. TypeOK
  <2>1. /\ m_aType \in [Ports -> Ports \cup {"none"}] /\ isAudioPortInitialized \in BOOLEAN
        /\ cache \in [Cached -> 0..MaxValue]
    BY AudioAssumption DEF Init
  <2>2. DOMAIN device = Targets /\ \A k \in Targets : Len(device[k]) <= 2
    BY DEF Init
  <2>3. pc \in [Callers -> Labels] /\ call \in [Callers -> ApiCalls \cup {NoCall}]
    BY DEF Init, Labels
  <2>4. iface \in [Callers -> BOOLEAN] /\ calls \in 0..MaxCalls
    BY AudioAssumption DEF Init
  <2> QED
    BY <2>1, <2>2, <2>3, <2>4 DEF Init, TypeOK
<1>3. RunsItsOp /\ Apart /\ Loaded
  BY <1>1 DEF RunsItsOp, Apart, Loaded, InSetter
<1> QED
  BY <1>2, <1>3 DEF ParamInv

\* What a call of the client changes.
LEMMA NewCall ==
    ASSUME ParamInv, NEW t \in Callers, NEW c \in Calls, Call(t, c)
    PROVE  /\ pc[t] = "idle" /\ pc'[t] \in Labels \ {"idle"} /\ call'[t] = c
           /\ pc'[t] = IF c.op \in SetOps THEN "load" ELSE c.op
           /\ \A o \in Callers : o # t => pc'[o] = pc[o] /\ call'[o] = call[o]
           /\ UNCHANGED <<ports, cache, device, files, iface, leaked, misuse, refused>>
<1>1. DOMAIN pc = Callers /\ DOMAIN call = Callers
  BY DEF ParamInv, TypeOK
<1> QED
  BY <1>1, ClientCalls, Setters DEF Call, At, Goto, Labels

\* A step of a call goes on at a label or returns, and may load or unload.
LEMMA StepShape ==
    ASSUME NEW t \in Callers, Step(t)
    PROVE  /\ \/ Return(t)
              \/ UNCHANGED call /\ \E l \in Labels : Goto(t, l)
           /\ UNCHANGED iface \/ \E b \in BOOLEAN : iface' = [iface EXCEPT ![t] = b]
           /\ pc[t] # "idle" /\ UNCHANGED calls
<1> USE DEF Labels, At
<1>1. CASE AudioPortInit(t) \/ AudioPortTerm(t)
  BY <1>1 DEF AudioPortInit, AudioPortTerm
<1>2. CASE Load(t)
  BY <1>2 DEF Load
<1>3. CASE Check(t)
  BY <1>3 DEF Check, Abandon
<1>4. CASE SetParameters(t) \/ Store(t)
  BY <1>4 DEF SetParameters, Store
<1>5. CASE Unload(t)
  BY <1>5 DEF Unload, Abandon
<1>6. CASE DigitalRawSet(t) \/ DigitalCodecSet(t)
  BY <1>6 DEF DigitalRawSet, DigitalCodecSet
<1> QED
  BY <1>1, <1>2, <1>3, <1>4, <1>5, <1>6 DEF Step

\* A step of one call leaves the others where they are.
LEMMA OwnSteps ==
    ASSUME ParamInv, NEW t \in Callers, Step(t)
    PROVE  /\ pc[t] # "idle"
           /\ \A o \in Callers : o # t =>
                UNCHANGED <<pc[o], call[o], iface[o]>>
           /\ pc'[t] \in Labels
           /\ call'[t] = call[t] \/ (pc'[t] = "idle" /\ call'[t] = NoCall)
           /\ UNCHANGED calls
<1>1. DOMAIN pc = Callers /\ DOMAIN call = Callers /\ DOMAIN iface = Callers
  BY DEF ParamInv, TypeOK
<1>2. CASE Return(t)
  BY <1>1, <1>2, StepShape DEF Return, Goto, Labels
<1>3. CASE UNCHANGED call /\ \E l \in Labels : Goto(t, l)
  BY <1>1, <1>3, StepShape DEF Goto
<1> QED
  BY <1>2, <1>3, StepShape

\* The step of one call, by its labels.
LEMMA Labelled ==
    ASSUME ParamInv, NEW t \in Callers, Step(t)
    PROVE  /\ pc[t] \in {"init", "term", "codec"} => pc'[t] = "idle"
           /\ pc[t] = "encoding" => pc'[t] \in {"codec", "idle"}
           /\ pc[t] \in InSetter => pc'[t] \in (InSetter \ {"load"}) \cup {"idle"}
<1>1. pc \in [Callers -> Labels]
  BY DEF ParamInv, TypeOK
<1> USE <1>1 DEF At, Goto, Return, InSetter, Labels
<1>2. CASE AudioPortInit(t) \/ AudioPortTerm(t)
  BY <1>2 DEF AudioPortInit, AudioPortTerm
<1>3. CASE Load(t)
  BY <1>3 DEF Load
<1>4. CASE Check(t)
  BY <1>4 DEF Check, Abandon
<1>5. CASE SetParameters(t) \/ Store(t)
  BY <1>5 DEF SetParameters, Store
<1>6. CASE Unload(t)
  BY <1>6 DEF Unload, Abandon
<1>7. CASE DigitalRawSet(t) \/ DigitalCodecSet(t)
  BY <1>7 DEF DigitalRawSet, DigitalCodecSet
<1> QED
  BY <1>2, <1>3, <1>4, <1>5, <1>6, <1>7 DEF Step

\* Every step keeps each call in the code of its operation.
LEMMA NextRuns == ParamInv /\ [Next]_vars => RunsItsOp'
<1> SUFFICES ASSUME ParamInv, [Next]_vars PROVE RunsItsOp'
  OBVIOUS
<1>1. RunsItsOp
  BY DEF ParamInv
<1>2. ASSUME NEW t \in Callers, NEW c \in Calls, Call(t, c)
      PROVE  RunsItsOp'
  BY <1>1, <1>2, NewCall, ClientCalls, Setters DEF RunsItsOp, InSetter
<1>3. ASSUME NEW t \in Callers, Step(t)
      PROVE  RunsItsOp'
  <2>1. CASE pc'[t] = "idle"
    BY <1>1, <1>3, <2>1, OwnSteps DEF RunsItsOp, InSetter
  <2>2. CASE pc'[t] # "idle"
    <3>1. pc[t] \in Labels \ {"idle"} /\ call'[t] = call[t]
      BY <1>3, <2>2, OwnSteps DEF ParamInv, TypeOK
    <3>2. \/ pc[t] = "encoding" /\ pc'[t] = "codec"
          \/ pc[t] \in InSetter /\ pc'[t] \in InSetter
      BY <1>3, <2>2, <3>1, Labelled DEF InSetter, Labels
    <3> QED
      BY <1>1, <1>3, <3>1, <3>2, OwnSteps DEF RunsItsOp, InSetter
  <2> QED
    BY <2>1, <2>2
<1>4. CASE Finished \/ UNCHANGED vars
  BY <1>1, <1>4 DEF Finished, vars, RunsItsOp
<1> QED
  BY <1>2, <1>3, <1>4 DEF Next

\* Every step keeps the calls of one group apart.
LEMMA NextApart == ParamInv /\ [Next]_vars => Apart'
<1> SUFFICES ASSUME ParamInv, [Next]_vars PROVE Apart'
  OBVIOUS
<1>1. Apart
  BY DEF ParamInv
<1>2. ASSUME NEW t \in Callers, NEW c \in Calls, Call(t, c)
      PROVE  Apart'
  <2>1. \A o \in Callers :
          \/ pc[o] = "idle"
          \/ /\ Group(call[o].op) = Group(c.op)
                  => c.op = "encoding" /\ call[o].op = "encoding"
             /\ Group(c.op) # "ports" /\ Group(call[o].op) # "ports"
    BY <1>2, Groups DEF Call, At
  <2> QED
    BY <1>1, <1>2, <2>1, NewCall DEF Apart
<1>3. ASSUME NEW t \in Callers, Step(t)
      PROVE  Apart'
  BY <1>1, <1>3, OwnSteps DEF Apart
<1>4. CASE Finished \/ UNCHANGED vars
  BY <1>1, <1>4 DEF Finished, vars, Apart
<1> QED
  BY <1>2, <1>3, <1>4 DEF Next

\* Every step keeps the interfaces where they may be.
LEMMA NextLoaded == ParamInv /\ [Next]_vars => Loaded'
<1> SUFFICES ASSUME ParamInv, [Next]_vars PROVE Loaded'
  OBVIOUS
<1>1. Loaded /\ iface \in [Callers -> BOOLEAN] /\ pc \in [Callers -> Labels]
      /\ DOMAIN call = Callers
  BY DEF ParamInv, TypeOK
<1>2. ASSUME NEW t \in Callers, NEW c \in Calls, Call(t, c)
      PROVE  Loaded'
  <2>1. pc'[t] \notin {"check", "set", "store", "unload"}
    BY <1>2, NewCall, ClientCalls
  <2> QED
    BY <1>1, <1>2, <2>1, NewCall DEF Loaded
<1>3. ASSUME NEW t \in Callers, Step(t)
      PROVE  Loaded'
  <2> DEFINE Held ==
        /\ pc'[t] \notin {"check", "set", "store", "unload"} => ~iface'[t]
        /\ pc'[t] = "check" => iface'[t]
        /\ pc'[t] \in {"set", "store", "unload"}
             /\ call'[t].op \in {"delay", "delayOffset"} => iface'[t]
  <2>1. Held
    <3> USE <1>1 DEF At, Goto, Return, Loaded
    <3>1. CASE AudioPortInit(t) \/ AudioPortTerm(t)
      BY <3>1 DEF AudioPortInit, AudioPortTerm
    <3>2. CASE Load(t)
      BY <3>2 DEF Load
    <3>3. CASE Check(t)
      <4>1. CASE iface' = [iface EXCEPT ![t] = FALSE] /\ call[t].op \in Careful
                   /\ Return(t)
        BY <4>1
      <4>2. CASE iface' = [iface EXCEPT ![t] = FALSE] /\ call[t].op \notin Careful
                   /\ Goto(t, "unload") /\ UNCHANGED call
        BY <4>2 DEF Careful
      <4>3. CASE Abandon(t)
        BY <4>3 DEF Abandon
      <4>4. CASE /\ Accepted(call[t]) /\ UNCHANGED <<iface, call>>
                 /\ Goto(t, "store") \/ Goto(t, "set")
        BY <3>3, <4>4 DEF Check
      <4>5. CASE Goto(t, "unload") /\ call[t].op \notin {"delay", "delayOffset"}
                   /\ UNCHANGED <<iface, call>>
        BY <4>5
      <4> QED
        BY <3>3, <4>1, <4>2, <4>3, <4>4, <4>5 DEF Check
    <3>4. CASE SetParameters(t) \/ Store(t)
      BY <3>4 DEF SetParameters, Store
    <3>5. CASE Unload(t)
      BY <3>5 DEF Unload, Abandon
    <3>6. CASE DigitalRawSet(t) \/ DigitalCodecSet(t)
      BY <3>6 DEF DigitalRawSet, DigitalCodecSet
    <3> QED
      BY <1>3, <3>1, <3>2, <3>3, <3>4, <3>5, <3>6 DEF Step
  <2> QED
    BY <1>1, <1>3, <2>1, OwnSteps DEF Loaded
<1>4. CASE Finished \/ UNCHANGED vars
  BY <1>1, <1>4 DEF Finished, vars, Loaded
<1> QED
  BY <1>2, <1>3, <1>4 DEF Next

\* Every step keeps the types.
LEMMA CommandLength == \A c : Len(Command(c)) <= 2
<1> TAKE c
<1>1. CASE c.op = "stereo"
  BY <1>1 DEF Command, AmlMode
<1>2. CASE c.op # "stereo"
  BY <1>2 DEF Command
<1> QED
  BY <1>1, <1>2

LEMMA NextTypes == ParamInv /\ [Next]_vars => TypeOK'
<1> SUFFICES ASSUME ParamInv, [Next]_vars PROVE TypeOK'
  OBVIOUS
<1>1. TypeOK
  BY DEF ParamInv
<1>2. ASSUME NEW t \in Callers, NEW c \in Calls, Call(t, c)
      PROVE  TypeOK'
  <2>1. calls' \in 0..MaxCalls
    <3>1. calls \in 0..MaxCalls /\ calls < MaxCalls /\ calls' = calls + 1
      BY <1>1, <1>2 DEF TypeOK, Call
    <3>2. MaxCalls \in Nat
      BY AudioAssumption
    <3> QED
      BY ONLY <3>1, <3>2
  <2>2. call' \in [Callers -> ApiCalls \cup {NoCall}]
    BY <1>1, <1>2, ClientCalls DEF TypeOK, Call
  <2>3. pc' \in [Callers -> Labels]
    <3>1. (IF c.op \in SetOps THEN "load" ELSE c.op) \in Labels
      BY ClientCalls DEF Labels
    <3> QED
      BY <1>1, <1>2, <3>1 DEF TypeOK, Call, Goto
  <2>4. UNCHANGED <<isAudioPortInitialized, m_aType, cache, device, raw, codec, iface,
                   leaked, misuse, refused, torn>>
    BY <1>2 DEF Call, ports, files
  <2> QED
    BY <1>1, <2>1, <2>2, <2>3, <2>4 DEF TypeOK
<1>3. ASSUME NEW t \in Callers, Step(t)
      PROVE  TypeOK'
  <2>1. /\ pc' \in [Callers -> Labels] /\ iface' \in [Callers -> BOOLEAN]
        /\ call' \in [Callers -> ApiCalls \cup {NoCall}]
    <3>1. /\ \/ Return(t)
             \/ UNCHANGED call /\ \E l \in Labels : Goto(t, l)
          /\ UNCHANGED iface \/ \E b \in BOOLEAN : iface' = [iface EXCEPT ![t] = b]
      BY <1>3, StepShape
    <3>2. CASE Return(t)
      BY <1>1, <3>1, <3>2 DEF TypeOK, Return, Goto, Labels
    <3>3. CASE UNCHANGED call /\ \E l \in Labels : Goto(t, l)
      BY <1>1, <3>1, <3>3 DEF TypeOK, Goto
    <3> QED
      BY <3>1, <3>2, <3>3
  <2>2. /\ isAudioPortInitialized' \in BOOLEAN
        /\ m_aType' \in [Ports -> Ports \cup {"none"}]
    <3>1. CASE AudioPortInit(t) \/ AudioPortTerm(t)
      BY <1>1, <3>1 DEF TypeOK, AudioPortInit, AudioPortTerm
    <3>2. CASE UNCHANGED ports
      BY <1>1, <3>2 DEF TypeOK, ports
    <3> QED
      BY <1>3, <3>1, <3>2 DEF Step, Load, Check, SetParameters, Store, Unload,
         DigitalRawSet, DigitalCodecSet
  <2>3. cache' \in [Cached -> 0..MaxValue]
    <3>1. CASE SetParameters(t)
      <4>1. cache' = [cache EXCEPT !["LEConfigEnabled"] = 0] \/ cache' = cache
        BY <3>1 DEF SetParameters
      <4> QED
        BY <1>1, <4>1, AudioAssumption DEF TypeOK
    <3>2. CASE Store(t)
      <4>1. call[t].val \in 0..MaxValue
        BY <3>2 DEF Store, At, ParamInv, RunsItsOp
      <4>2. 0 \in 0..MaxValue
        BY AudioAssumption
      <4> QED
        BY <1>1, <3>2, <4>1, <4>2 DEF TypeOK, Store, Stored
    <3>3. CASE UNCHANGED cache
      BY <1>1, <3>3 DEF TypeOK
    <3> QED
      BY <1>3, <3>1, <3>2, <3>3 DEF Step, AudioPortInit, AudioPortTerm, Load, Check,
         Unload, DigitalRawSet, DigitalCodecSet
  <2>4. DOMAIN device' = Targets /\ \A k \in Targets : Len(device'[k]) <= 2
    <3>1. CASE UNCHANGED device
      BY <1>1, <3>1 DEF TypeOK
    <3>2. CASE device' = [device EXCEPT ![TargetOf(call[t])] = Command(call[t])]
      BY <1>1, <3>2, CommandLength DEF TypeOK
    <3> QED
      BY <1>3, <3>1, <3>2 DEF Step, AudioPortInit, AudioPortTerm, Load, Check,
         SetParameters, Store, Unload, DigitalRawSet, DigitalCodecSet
  <2>5. /\ raw' \in {"unset", "pcm", "rawHdmi", "rawSpdif"}
        /\ codec' \in {"unset", "pcm", "ac3", "eac3"}
        /\ torn' \in BOOLEAN
    <3>1. CASE DigitalRawSet(t) \/ DigitalCodecSet(t)
      BY <1>1, <3>1 DEF TypeOK, DigitalRawSet, DigitalCodecSet, RawOf, CodecOf
    <3>2. CASE UNCHANGED files
      BY <1>1, <3>2 DEF TypeOK, files
    <3> QED
      BY <1>3, <3>1, <3>2 DEF Step, AudioPortInit, AudioPortTerm, Load, Check,
         SetParameters, Store, Unload
  <2>6. leaked' \subseteq SetOps /\ misuse' \subseteq SetOps
    <3>1. CASE pc[t] \in InSetter
      <4>1. call[t].op \in SetOps
        BY <3>1 DEF ParamInv, RunsItsOp
      <4>2. leaked' \subseteq leaked \cup {call[t].op}
        BY <1>3 DEF Step, AudioPortInit, AudioPortTerm, Load, Check, Abandon,
           SetParameters, Store, Unload, DigitalRawSet, DigitalCodecSet
      <4>3. misuse' \subseteq misuse \cup {call[t].op}
        BY <1>3 DEF Step, AudioPortInit, AudioPortTerm, Load, Check,
           SetParameters, Store, Unload, DigitalRawSet, DigitalCodecSet
      <4> QED
        BY <1>1, <4>1, <4>2, <4>3 DEF TypeOK
    <3>2. CASE pc[t] \notin InSetter
      <4>1. UNCHANGED <<leaked, misuse>>
        BY <1>3, <3>2 DEF Step, AudioPortInit, AudioPortTerm, Load, Check,
           SetParameters, Store, Unload, DigitalRawSet, DigitalCodecSet, At, InSetter
      <4> QED
        BY <1>1, <4>1 DEF TypeOK
    <3> QED
      BY <3>1, <3>2
  <2>7. refused' \in BOOLEAN /\ UNCHANGED calls
    <3>1. CASE SetParameters(t)
      BY <1>1, <3>1 DEF TypeOK, SetParameters
    <3>2. CASE UNCHANGED <<refused, calls>>
      BY <1>1, <3>2 DEF TypeOK
    <3> QED
      BY <1>3, <3>1, <3>2 DEF Step, AudioPortInit, AudioPortTerm, Load, Check,
         Store, Unload, DigitalRawSet, DigitalCodecSet
  <2> QED
    BY <1>1, <2>1, <2>2, <2>3, <2>4, <2>5, <2>6, <2>7 DEF TypeOK
<1>4. CASE Finished \/ UNCHANGED vars
  BY <1>1, <1>4 DEF Finished, vars, TypeOK
<1> QED
  BY <1>2, <1>3, <1>4 DEF Next

\* The parts together are an invariant.
LEMMA ParamInvariant == Spec => []ParamInv
<1>1. ParamInv /\ [Next]_vars => ParamInv'
  BY NextTypes, NextRuns, NextApart, NextLoaded DEF ParamInv
<1> QED
  BY InitParams, <1>1, PTL DEF Spec

\* The static variables of dsAudio.c and the calls under way have their types: no
\* value out of the range of its setter's parameter is remembered.
THEOREM AudioTypes == Spec => []TypeOK
<1>1. ParamInv => TypeOK
  BY DEF ParamInv
<1> QED
  BY <1>1, ParamInvariant, PTL

\* Between calls no interface of the audio HAL is loaded, but for those that the
\* Atmos mode and the delays leave behind, and those setters never use one that is
\* not loaded, whatever fails.
THEOREM Released == Spec => []InterfacesReleased
<1> DEFINE R == leaked \subseteq Careful /\ misuse \cap Careful = {}
<1>1. Init => R
  BY DEF Init
<1>2. ParamInv /\ R /\ [Next]_vars => R'
  <2> SUFFICES ASSUME ParamInv, R, [Next]_vars PROVE R'
    OBVIOUS
  <2>1. CASE UNCHANGED <<leaked, misuse>>
    BY <2>1
  <2>2. ASSUME NEW t \in Callers, Load(t)
        PROVE  R'
    BY <2>2 DEF Load
  <2>3. ASSUME NEW t \in Callers, Check(t)
        PROVE  R'
    BY <2>3 DEF Check, Abandon, Careful
  <2>4. ASSUME NEW t \in Callers, Unload(t)
        PROVE  R'
    <3>1. call[t].op \in {"delay", "delayOffset"} => iface[t]
      BY <2>4 DEF ParamInv, Loaded, Unload, At
    <3> QED
      BY <2>4, <3>1 DEF Unload, Abandon, Careful
  <2> QED
    BY <2>1, <2>2, <2>3, <2>4 DEF Next, Step, Call, AudioPortInit, AudioPortTerm,
       SetParameters, Store, DigitalRawSet, DigitalCodecSet, Finished, vars
<1>3. ParamInv /\ R => InterfacesReleased
  BY DEF ParamInv, Loaded, InterfacesReleased, At
<1> HIDE DEF R
<1> QED
  BY <1>1, <1>2, <1>3, ParamInvariant, PTL DEF Spec

-----------------------------------------------------------------------------
(* The two files of the encoding *)

\* While nothing is torn one call at most is between its two writes: the raw mode
\* is its own then, and with no call there the two files agree.
Between == {t \in Callers : pc[t] = "codec"}
FilesInv ==
    ~torn =>
        /\ \A t, o \in Between : t = o
        /\ \A t \in Between : raw = "pcm" <=> call[t].val = 1
        /\ Between = {} /\ "unset" \notin {raw, codec}
             => (raw = "pcm") = (codec = "pcm")

\* The steps of the setters and of the ports leave the two files alone.
LEMMA OtherFiles ==
    ASSUME ParamInv, NEW t \in Callers, Step(t), ~DigitalRawSet(t), ~DigitalCodecSet(t)
    PROVE  /\ UNCHANGED <<raw, codec, torn>>
           /\ pc[t] # "codec" /\ pc'[t] # "codec"
<1>1. UNCHANGED <<raw, codec, torn>>
  BY DEF Step, AudioPortInit, AudioPortTerm, Load, Check, SetParameters, Store, Unload,
     files
<1>2. pc[t] \in {"init", "term"} \cup InSetter
  BY DEF Step, AudioPortInit, AudioPortTerm, Load, Check, SetParameters, Store, Unload,
     At, InSetter
<1> QED
  BY <1>1, <1>2, Labelled DEF InSetter

LEMMA NextFiles == ParamInv /\ FilesInv /\ [Next]_vars => FilesInv'
<1> SUFFICES ASSUME ParamInv, FilesInv, [Next]_vars PROVE FilesInv'
  OBVIOUS
<1>1. DOMAIN pc = Callers /\ DOMAIN call = Callers
  BY DEF ParamInv, TypeOK
<1>2. ASSUME NEW t \in Callers, NEW c \in Calls, Call(t, c)
      PROVE  FilesInv'
  <2>1. pc[t] # "codec" /\ pc'[t] # "codec" /\ UNCHANGED <<raw, codec, torn>>
    BY <1>2, NewCall, ClientCalls, Setters DEF files
  <2>2. Between' = Between /\ \A o \in Between : call'[o] = call[o]
    BY <1>2, <2>1, NewCall DEF Between
  <2> QED
    BY <2>1, <2>2 DEF FilesInv
<1>3. ASSUME NEW t \in Callers, DigitalRawSet(t), ~torn'
      PROVE  FilesInv'
  <2>1. pc[t] = "encoding"
    BY <1>3 DEF DigitalRawSet, At
  <2>2. CASE Encodes(t)
    <3>1. /\ raw' = RawOf(t) /\ pc' = [pc EXCEPT ![t] = "codec"]
          /\ UNCHANGED call
          /\ torn' = \E o \in Callers \ {t} : pc[o] = "codec"
      BY <1>3, <2>2 DEF DigitalRawSet, Goto, At
    <3>2. raw' = "pcm" <=> call[t].val = 1
      BY <3>1 DEF RawOf
    <3>3. Between' = {t}
      BY <1>1, <1>3, <3>1 DEF Between
    <3> QED
      BY <3>1, <3>2, <3>3 DEF FilesInv
  <2>3. CASE ~Encodes(t)
    <3>1. UNCHANGED <<raw, codec, torn>> /\ pc' = [pc EXCEPT ![t] = "idle"]
          /\ \A o \in Callers : o # t => call'[o] = call[o]
      BY <1>1, <1>3, <2>3 DEF DigitalRawSet, Return, Goto
    <3>2. Between' = Between /\ \A o \in Between : call'[o] = call[o]
      BY <1>1, <2>1, <3>1 DEF Between
    <3> QED
      BY <3>1, <3>2 DEF FilesInv
  <2> QED
    BY <2>2, <2>3
<1>4. ASSUME NEW t \in Callers, DigitalCodecSet(t), ~torn'
      PROVE  FilesInv'
  <2>1. /\ pc[t] = "codec" /\ codec' = CodecOf(t) /\ UNCHANGED <<raw, torn>>
        /\ pc' = [pc EXCEPT ![t] = "idle"]
    BY <1>1, <1>4 DEF DigitalCodecSet, Return, Goto, At
  <2>2. codec' = "pcm" <=> call[t].val = 1
    BY <2>1 DEF CodecOf
  <2>3. Between = {t} /\ (raw = "pcm" <=> call[t].val = 1)
    BY <1>4, <2>1 DEF FilesInv, Between
  <2>4. Between' = {}
    BY <1>1, <2>1, <2>3 DEF Between
  <2> QED
    BY <2>1, <2>2, <2>3, <2>4 DEF FilesInv
<1>5. ASSUME NEW t \in Callers, Step(t), ~DigitalRawSet(t), ~DigitalCodecSet(t)
      PROVE  FilesInv'
  <2>1. /\ UNCHANGED <<raw, codec, torn>>
        /\ pc[t] # "codec" /\ pc'[t] # "codec"
    BY <1>5, OtherFiles
  <2>2. Between' = Between /\ \A o \in Between : call'[o] = call[o]
    BY <1>5, <2>1, OwnSteps DEF Between
  <2> QED
    BY <2>1, <2>2 DEF FilesInv
<1>6. CASE Finished \/ UNCHANGED vars
  BY <1>6 DEF Finished, vars, files, FilesInv, Between
<1> QED
  BY <1>2, <1>3, <1>4, <1>5, <1>6 DEF Next, FilesInv

\* With no call of dsSetAudioEncoding under way, raw mode and codec agree on PCM,
\* however its calls overlap and whatever write is refused: unless the last writes
\* did overlap or were refused.
THEOREM FilesAgree == Spec => []EncodingAgrees
<1>1. Init => FilesInv
  BY DEF Init, FilesInv, Between
<1>2. ParamInv /\ FilesInv => EncodingAgrees
  <2> SUFFICES ASSUME ParamInv, FilesInv, Settled("encoding")
               PROVE  Between = {}
    BY DEF EncodingAgrees, FilesInv
  <2> QED
    BY Groups DEF ParamInv, RunsItsOp, Settled, Between
<1> QED
  BY <1>1, <1>2, NextFiles, ParamInvariant, PTL DEF Spec

-----------------------------------------------------------------------------
(* The parameter of the volume leveller *)

\* The static variable that a setter writes.
LEMMA Variables ==
    \A c : /\ c.op = "le" => SetterOf(c).var = "LEConfigEnabled"
           /\ c.op = "leveller" => SetterOf(c).var = "volumeLeveller"
           /\ c.op = "bass" => SetterOf(c).var = "bassBoost"
           /\ c.op = "surround" => SetterOf(c).var = "surroundDecoderEnabled"
           /\ c.op = "drc" => SetterOf(c).var = "drcMode"
           /\ c.op = "virtualizer" => SetterOf(c).var = "surroundVirtualizerLevel"
           /\ c.op = "mi" => SetterOf(c).var = "miSteeringEnabled"
           /\ c.op = "graphicEq" => SetterOf(c).var = "graphicEQMode"
           /\ c.op = "atmos" => SetterOf(c).var = "nothing"
           /\ c.op \in {"delay", "delayOffset"} => SetterOf(c).var = "audioDelay"
           /\ c.op = "stereo" => SetterOf(c).var =
                IF m_aType[c.port] = "spdif" THEN "audioModeSPDIF"
                                             ELSE "audioModeNonSPDIF"
BY DEF SetterOf, Ms12Setters, Setter, VolumeLeveller, LEConfig, BassEnhancer,
   SurroundDecoder, DRCMode, SurroundVirtualizer, MISteering, GraphicEqualizer,
   AtmosOutputMode, AudioDelay, AudioDelayOffset, StereoMode

\* The parameter of the device that a setter sets.
LEMMA Parameters ==
    \A c : /\ TargetOf(c) = "leveller" <=> c.op \in {"le", "leveller"}
           /\ c.op \in {"bass", "surround", "drc", "virtualizer", "mi", "graphicEq"}
                => TargetOf(c) = c.op
           /\ c.op = "stereo" => TargetOf(c) =
                IF m_aType[c.port] = "spdif" THEN "nothing" ELSE "format"
           /\ c.op \in {"delay", "delayOffset"} => TargetOf(c) =
                IF m_aType[c.port] = "spdif" THEN "delaySpdif"
                ELSE IF m_aType[c.port] = "speaker" THEN "delaySpeaker" ELSE "nothing"
BY DEF TargetOf

\* Two setters between SetParameters and Store work on different groups.
LEMMA StoresApart ==
    ASSUME ParamInv, NEW t \in Callers, NEW o \in Callers, t # o,
           pc[t] \in {"set", "store"}, pc[o] \in {"set", "store"}
    PROVE  /\ call[t].op \in SetOps /\ call[o].op \in SetOps
           /\ Group(call[t].op) # Group(call[o].op)
BY Setters DEF ParamInv, RunsItsOp, InSetter, Apart

\* A call may be abandoned, refused or begun without a word to the device and
\* without a change of what is remembered.
Quiet(t) ==
    /\ UNCHANGED <<cache, device, refused>>
    /\ pc[t] # "store" /\ (pc'[t] = "store" => pc[t] = "check")

LEMMA QuietSteps ==
    ASSUME ParamInv, NEW t \in Callers, Step(t), ~SetParameters(t), ~Store(t)
    PROVE  /\ Quiet(t)
           /\ pc'[t] = "store" => /\ Accepted(call[t]) /\ TargetOf(call[t]) = "nothing"
                                  /\ UNCHANGED call
<1>1. pc \in [Callers -> Labels]
  BY DEF ParamInv, TypeOK
<1> USE <1>1 DEF At, Goto, Return, Quiet
<1>2. CASE AudioPortInit(t) \/ AudioPortTerm(t)
  BY <1>2 DEF AudioPortInit, AudioPortTerm
<1>3. CASE Load(t)
  BY <1>3 DEF Load
<1>4. CASE Check(t)
  BY <1>4 DEF Check, Abandon
<1>5. CASE Unload(t)
  BY <1>5 DEF Unload, Abandon
<1>6. CASE DigitalRawSet(t) \/ DigitalCodecSet(t)
  BY <1>6 DEF DigitalRawSet, DigitalCodecSet
<1> QED
  BY <1>2, <1>3, <1>4, <1>5, <1>6 DEF Step

\* What a setter does to the other parameters and the other static variables.
LEMMA SetsItsOwn ==
    ASSUME ParamInv, NEW t \in Callers, SetParameters(t)
    PROVE  /\ pc[t] = "set" /\ call' = call
           /\ \/ /\ device' = [device EXCEPT ![TargetOf(call[t])] = Command(call[t])]
                 /\ pc'[t] = "store" /\ UNCHANGED cache
                 /\ refused' = (refused /\ TargetOf(call[t]) # "leveller")
              \/ /\ UNCHANGED device /\ pc'[t] = "unload"
                 /\ call[t].op # "le" => UNCHANGED <<cache, refused>>
                 /\ call[t].op = "le" =>
                      refused' /\ cache' = [cache EXCEPT !["LEConfigEnabled"] = 0]
<1>1. DOMAIN pc = Callers
  BY DEF ParamInv, TypeOK
<1>2. pc[t] = "set" /\ call' = call
  BY DEF SetParameters, At
<1> QED
  BY <1>1, <1>2 DEF SetParameters, Goto, ParamInv, TypeOK

LEMMA StoresItsOwn ==
    ASSUME ParamInv, NEW t \in Callers, Store(t)
    PROVE  /\ pc[t] = "store" /\ pc'[t] = "unload"
           /\ UNCHANGED <<call, device, refused>>
           /\ \A v \in Cached : cache'[v] =
                IF v = SetterOf(call[t]).var THEN call[t].val
                ELSE IF call[t].op = "leveller" /\ v = "LEConfigEnabled" THEN 0
                ELSE cache[v]
<1>1. DOMAIN pc = Callers
  BY DEF ParamInv, TypeOK
<1> QED
  BY <1>1 DEF Store, Stored, At, Goto

\* While a call of the leveller is about to remember what the device has accepted,
\* the device has it; at other times it has what is remembered.
LevOps == {"le", "leveller"}
LevellerInv ==
    /\ \A t \in Callers :
         pc[t] = "store" /\ call[t].op \in LevOps =>
            ~refused /\ device["leveller"] = Command(call[t])
    /\ ~refused /\ (\A t \in Callers : pc[t] = "store" => call[t].op \notin LevOps) =>
         Told("leveller", IF cache["LEConfigEnabled"] = 1 THEN <<"auto">>
                          ELSE <<"manual", cache["volumeLeveller"]>>)

LEMMA NextLeveller == ParamInv /\ LevellerInv /\ [Next]_vars => LevellerInv'
<1> SUFFICES ASSUME ParamInv, LevellerInv, [Next]_vars PROVE LevellerInv'
  OBVIOUS
<1>1. "leveller" \in DOMAIN device /\ {"LEConfigEnabled", "volumeLeveller"} \subseteq Cached
      /\ DOMAIN cache = Cached
  BY DEF ParamInv, TypeOK, Targets, Cached
<1>2. \A c : c.op \in LevOps =>
        Command(c) = IF c.op = "le" /\ c.val = 1 THEN <<"auto">>
                     ELSE IF c.op = "le" THEN <<"manual", cache["volumeLeveller"]>>
                     ELSE <<"manual", c.val>>
  BY DEF Command, LevOps
<1>3. \A c : c.op \in LevOps =>
        Command(c)' = IF c.op = "le" /\ c.val = 1 THEN <<"auto">>
                      ELSE IF c.op = "le" THEN <<"manual", cache'["volumeLeveller"]>>
                      ELSE <<"manual", c.val>>
  BY DEF Command, LevOps
<1>4. ASSUME NEW t \in Callers, NEW c \in Calls, Call(t, c)
      PROVE  LevellerInv'
  <2>1. pc[t] # "store" /\ pc'[t] # "store" /\ UNCHANGED <<cache, device, refused>>
    BY <1>4, NewCall, ClientCalls
  <2> QED
    BY <1>2, <1>3, <1>4, <2>1, NewCall DEF LevellerInv, Told
<1>5. ASSUME NEW t \in Callers, SetParameters(t)
      PROVE  LevellerInv'
  <2>0. Step(t)
    BY <1>5 DEF Step
  <2>1. CASE call[t].op \in LevOps
    <3>1. \A o \in Callers : o # t => ~(pc[o] = "store" /\ call[o].op \in LevOps)
      BY <1>5, <2>1, SetsItsOwn, StoresApart, Groups DEF LevOps
    <3>2. TargetOf(call[t]) = "leveller"
      BY <2>1, Parameters DEF LevOps
    <3>3. \A o \in Callers : o # t => ~(pc'[o] = "store" /\ call'[o].op \in LevOps)
      BY <2>0, <3>1, OwnSteps
    <3>4. CASE pc'[t] = "store"
      <4>1. /\ device'["leveller"] = Command(call[t]) /\ ~refused'
            /\ UNCHANGED <<cache, call>>
        BY <1>1, <1>5, <3>2, <3>4, SetsItsOwn
      <4>2. device'["leveller"] = Command(call[t])'
        BY <1>2, <1>3, <2>1, <4>1
      <4> QED
        BY <2>1, <3>3, <3>4, <4>1, <4>2 DEF LevellerInv
    <3>5. CASE pc'[t] # "store"
      <4>1. UNCHANGED <<device, call>>
        BY <1>5, <3>5, SetsItsOwn
      <4>2. CASE call[t].op = "le"
        BY <1>5, <3>3, <3>5, <4>2, SetsItsOwn DEF LevellerInv
      <4>3. CASE call[t].op # "le"
        <5>1. UNCHANGED <<cache, refused>>
          BY <1>5, <3>5, <4>3, SetsItsOwn
        <5>2. \A o \in Callers : pc[o] = "store" => call[o].op \notin LevOps
          BY <1>5, <3>1, SetsItsOwn
        <5> QED
          BY <3>3, <3>5, <4>1, <5>1, <5>2 DEF LevellerInv, Told
      <4> QED
        BY <4>2, <4>3
    <3> QED
      BY <3>4, <3>5
  <2>2. CASE call[t].op \notin LevOps
    <3>1. TargetOf(call[t]) # "leveller"
      BY <2>2, Parameters DEF LevOps
    <3>2. UNCHANGED <<cache, call, refused>> /\ device'["leveller"] = device["leveller"]
      BY <1>1, <1>5, <2>2, <3>1, SetsItsOwn DEF LevOps, ParamInv, TypeOK
    <3> QED
      BY <1>2, <1>3, <1>5, <2>0, <2>2, <3>2, SetsItsOwn, OwnSteps DEF LevellerInv, Told
  <2> QED
    BY <2>1, <2>2
<1>6. ASSUME NEW t \in Callers, Store(t)
      PROVE  LevellerInv'
  <2>0. Step(t)
    BY <1>6 DEF Step
  <2>1. CASE call[t].op \in LevOps
    <3>1. \A o \in Callers : o # t => ~(pc'[o] = "store" /\ call'[o].op \in LevOps)
      BY <1>6, <2>0, <2>1, StoresItsOwn, StoresApart, Groups, OwnSteps DEF LevOps
    <3>2. ~refused' /\ device'["leveller"] = Command(call[t])
      BY <1>6, <2>1, StoresItsOwn DEF LevellerInv
    <3>3. /\ call[t].op = "le" => /\ cache'["LEConfigEnabled"] = call[t].val
                                  /\ cache'["volumeLeveller"] = cache["volumeLeveller"]
          /\ call[t].op = "leveller" => /\ cache'["LEConfigEnabled"] = 0
                                        /\ cache'["volumeLeveller"] = call[t].val
      BY <1>1, <1>6, Variables, StoresItsOwn
    <3>4. pc'[t] # "store"
      BY <1>6, StoresItsOwn
    <3> QED
      BY <1>2, <2>1, <3>1, <3>2, <3>3, <3>4 DEF LevellerInv, Told, LevOps
  <2>2. CASE call[t].op \notin LevOps
    <3>0. call[t].op \in SetOps
      BY <1>6, StoresItsOwn DEF ParamInv, RunsItsOp, InSetter
    <3>1. SetterOf(call[t]).var \notin {"LEConfigEnabled", "volumeLeveller"}
      BY <2>2, <3>0, Variables, Setters DEF LevOps
    <3>2. /\ cache'["LEConfigEnabled"] = cache["LEConfigEnabled"]
          /\ cache'["volumeLeveller"] = cache["volumeLeveller"]
      BY <1>1, <1>6, <2>2, <3>1, StoresItsOwn DEF LevOps
    <3> QED
      BY <1>2, <1>3, <1>6, <2>0, <2>2, <3>2, StoresItsOwn, OwnSteps DEF LevellerInv, Told
  <2> QED
    BY <2>1, <2>2
<1>7. ASSUME NEW t \in Callers, Step(t), ~SetParameters(t), ~Store(t)
      PROVE  LevellerInv'
  <2>1. pc[t] # "store" /\ UNCHANGED <<cache, device, refused>>
    BY <1>7, QuietSteps DEF Quiet
  <2>2. pc'[t] = "store" => call'[t].op \notin LevOps
    BY <1>7, QuietSteps, Parameters DEF LevOps
  <2> QED
    BY <1>2, <1>3, <1>7, <2>1, <2>2, OwnSteps DEF LevellerInv, Told
<1>8. CASE Finished \/ UNCHANGED vars
  BY <1>2, <1>3, <1>8 DEF Finished, vars, LevellerInv, Told
<1> QED
  BY <1>4, <1>5, <1>6, <1>7, <1>8 DEF Next

\* dsGetLEConfig and dsGetVolumeLeveller answer what the device does, for any
\* interleaving and any failure, unless the last answer of the device to
\* dsEnableLEConfig was a refusal.
THEOREM LevellerFollows == Spec => []LevellerIsApplied
<1>1. Init => LevellerInv
  BY DEF Init, LevellerInv, Told, Targets
<1>2. ParamInv /\ LevellerInv => LevellerIsApplied
  <2> SUFFICES ASSUME ParamInv, LevellerInv, Settled("leveller")
               PROVE  \A t \in Callers : pc[t] = "store" => call[t].op \notin LevOps
    BY DEF LevellerIsApplied, LevellerInv
  <2> QED
    BY Groups DEF Settled, LevOps
<1> QED
  BY <1>1, <1>2, NextLeveller, ParamInvariant, PTL DEF Spec

-----------------------------------------------------------------------------
(* The parameters with a static variable of their own *)

Simple == {"bass", "surround", "drc", "virtualizer", "mi", "graphicEq"}
VarOf == [bass |-> "bassBoost", surround |-> "surroundDecoderEnabled",
          drc |-> "drcMode", virtualizer |-> "surroundVirtualizerLevel",
          mi |-> "miSteeringEnabled", graphicEq |-> "graphicEQMode"]
Report(op, v) == IF op # "bass" THEN <<v>> ELSE IF v = 0 THEN <<"off">> ELSE <<"on">>

\* What is said of the leveller, for each of these parameters.
FollowOf(op) ==
    /\ \A t \in Callers :
         pc[t] = "store" /\ call[t].op = op => device[op] = Report(op, call[t].val)
    /\ (\A t \in Callers : pc[t] = "store" => call[t].op # op) =>
         Told(op, Report(op, cache[VarOf[op]]))

LEMMA SimpleTables ==
    \A op \in Simple :
        /\ op \in Targets /\ VarOf[op] \in Cached \ {"LEConfigEnabled"}
        /\ op \notin {"le", "leveller"} /\ Group(op) = op
        /\ \A c : /\ c.op = op => /\ Command(c) = Report(op, c.val)
                                  /\ TargetOf(c) = op
                                  /\ SetterOf(c).var = VarOf[op]
                  /\ c.op \in SetOps /\ c.op # op => /\ TargetOf(c) # op
                                                     /\ SetterOf(c).var # VarOf[op]
<1> TAKE op \in Simple
<1>1. op \in Targets /\ op \notin {"le", "leveller"} /\ Group(op) = op
  BY Groups DEF Simple, Targets
<1>2. VarOf[op] \in Cached \ {"LEConfigEnabled"}
  BY DEF Simple, VarOf, Cached
<1>3. ASSUME NEW c, c.op = op
      PROVE  /\ Command(c) = Report(op, c.val)
             /\ TargetOf(c) = op /\ SetterOf(c).var = VarOf[op]
  <2>1. Command(c) = Report(op, c.val)
    BY <1>3 DEF Simple, Command, Report
  <2>2. TargetOf(c) = op
    BY <1>3, Parameters DEF Simple
  <2>3. SetterOf(c).var = VarOf[op]
    BY <1>3, Variables DEF Simple, VarOf
  <2> QED
    BY <2>1, <2>2, <2>3
<1>4. ASSUME NEW c, c.op \in SetOps, c.op # op
      PROVE  TargetOf(c) # op /\ SetterOf(c).var # VarOf[op]
  <2>1. TargetOf(c) # op
    <3>1. CASE c.op \in {"le", "leveller"}
      BY <3>1, Parameters DEF Simple
    <3>2. CASE c.op \in {"stereo", "delay", "delayOffset"}
      BY <3>2, Parameters DEF Simple
    <3>3. CASE c.op \notin {"le", "leveller", "stereo", "delay", "delayOffset"}
      BY <1>4, <3>3 DEF TargetOf
    <3> QED
      BY <3>1, <3>2, <3>3
  <2>2. SetterOf(c).var # VarOf[op]
    BY <1>4, Variables, Setters DEF Simple, VarOf
  <2> QED
    BY <2>1, <2>2
<1> QED
  BY <1>1, <1>2, <1>3, <1>4

LEMMA NextFollow ==
    ASSUME NEW op \in Simple
    PROVE  ParamInv /\ FollowOf(op) /\ [Next]_vars => FollowOf(op)'
<1> SUFFICES ASSUME ParamInv, FollowOf(op), [Next]_vars PROVE FollowOf(op)'
  OBVIOUS
<1>1. /\ op \in DOMAIN device /\ VarOf[op] \in Cached \ {"LEConfigEnabled"}
      /\ DOMAIN cache = Cached /\ op \notin {"le", "leveller"}
  BY SimpleTables DEF ParamInv, TypeOK
<1>4. ASSUME NEW t \in Callers, NEW c \in Calls, Call(t, c)
      PROVE  FollowOf(op)'
  <2>1. pc[t] # "store" /\ pc'[t] # "store" /\ UNCHANGED <<cache, device>>
    BY <1>4, NewCall, ClientCalls
  <2> QED
    BY <1>4, <2>1, NewCall DEF FollowOf, Told
<1>5. ASSUME NEW t \in Callers, SetParameters(t)
      PROVE  FollowOf(op)'
  <2>0. Step(t) /\ pc[t] = "set" /\ call' = call /\ call[t].op \in SetOps
    BY <1>5, SetsItsOwn DEF Step, ParamInv, RunsItsOp, InSetter
  <2>1. CASE call[t].op = op /\ pc'[t] = "store"
    <3>1. \A o \in Callers : o # t => ~(pc[o] = "store" /\ call[o].op = op)
      BY <1>5, <2>1, SetsItsOwn, StoresApart, SimpleTables
    <3>2. device'[op] = Report(op, call[t].val)
      BY <1>1, <1>5, <2>1, SetsItsOwn, SimpleTables
    <3> QED
      BY <2>0, <2>1, <3>1, <3>2, OwnSteps DEF FollowOf
  <2>2. CASE call[t].op # op \/ pc'[t] # "store"
    <3>1. device'[op] = device[op]
      BY <1>1, <1>5, <2>0, <2>2, SetsItsOwn, SimpleTables DEF ParamInv, TypeOK
    <3>2. cache'[VarOf[op]] = cache[VarOf[op]]
      BY <1>1, <1>5, SetsItsOwn
    <3> QED
      BY <2>0, <2>2, <3>1, <3>2, OwnSteps DEF FollowOf, Told
  <2> QED
    BY <2>1, <2>2
<1>6. ASSUME NEW t \in Callers, Store(t)
      PROVE  FollowOf(op)'
  <2>0. /\ Step(t) /\ pc[t] = "store" /\ pc'[t] = "unload"
        /\ UNCHANGED <<call, device>> /\ call[t].op \in SetOps
    BY <1>6, StoresItsOwn DEF Step, ParamInv, RunsItsOp, InSetter
  <2>1. CASE call[t].op = op
    <3>1. \A o \in Callers : ~(pc'[o] = "store" /\ call'[o].op = op)
      BY <2>0, <2>1, StoresApart, SimpleTables, OwnSteps
    <3>2. device'[op] = Report(op, call[t].val)
      BY <2>0, <2>1 DEF FollowOf
    <3>3. cache'[VarOf[op]] = call[t].val
      BY <1>1, <1>6, <2>1, StoresItsOwn, SimpleTables
    <3> QED
      BY <3>1, <3>2, <3>3 DEF FollowOf, Told
  <2>2. CASE call[t].op # op
    <3>1. cache'[VarOf[op]] = cache[VarOf[op]]
      BY <1>1, <1>6, <2>0, <2>2, StoresItsOwn, SimpleTables
    <3> QED
      BY <2>0, <2>2, <3>1, OwnSteps DEF FollowOf, Told
  <2> QED
    BY <2>1, <2>2
<1>7. ASSUME NEW t \in Callers, Step(t), ~SetParameters(t), ~Store(t)
      PROVE  FollowOf(op)'
  <2>1. pc[t] # "store" /\ UNCHANGED <<cache, device>>
    BY <1>7, QuietSteps DEF Quiet
  <2>2. pc'[t] = "store" => call'[t].op # op
    <3>1. op # "nothing"
      BY DEF Simple
    <3> QED
      BY <1>7, <3>1, QuietSteps, SimpleTables
  <2> QED
    BY <1>7, <2>1, <2>2, OwnSteps DEF FollowOf, Told
<1>8. CASE Finished \/ UNCHANGED vars
  BY <1>8 DEF Finished, vars, FollowOf, Told
<1> QED
  BY <1>4, <1>5, <1>6, <1>7, <1>8 DEF Next

-----------------------------------------------------------------------------
(* The output format *)

Formats(t) == /\ pc[t] = "store" /\ call[t].op = "stereo"
              /\ m_aType[call[t].port] # "spdif"

FormatInv ==
    /\ \A t \in Callers : Formats(t) => device["format"] = AmlMode(call[t].val)
    /\ (\A t \in Callers : ~Formats(t)) =>
         Told("format", AmlMode(cache["audioModeNonSPDIF"]))

\* Only a stereo mode of a port that is not SPDIF sets the format.
LEMMA FormatTables ==
    \A c : c.op \in SetOps =>
        /\ TargetOf(c) = "format" <=> c.op = "stereo" /\ m_aType[c.port] # "spdif"
        /\ SetterOf(c).var = "audioModeNonSPDIF"
             <=> c.op = "stereo" /\ m_aType[c.port] # "spdif"
<1> TAKE c
<1> SUFFICES ASSUME c.op \in SetOps
    PROVE  /\ TargetOf(c) = "format" <=> c.op = "stereo" /\ m_aType[c.port] # "spdif"
           /\ SetterOf(c).var = "audioModeNonSPDIF"
                <=> c.op = "stereo" /\ m_aType[c.port] # "spdif"
  OBVIOUS
<1>1. CASE c.op = "stereo"
  BY <1>1, Parameters, Variables
<1>2. CASE c.op # "stereo"
  <2>1. TargetOf(c) # "format"
    <3>1. CASE c.op \in {"le", "leveller", "delay", "delayOffset"}
      BY <3>1, Parameters
    <3>2. CASE c.op \notin {"le", "leveller", "delay", "delayOffset"}
      BY <1>2, <3>2, Setters DEF TargetOf
    <3> QED
      BY <3>1, <3>2
  <2>2. SetterOf(c).var # "audioModeNonSPDIF"
    BY <1>2, Variables, Setters
  <2> QED
    BY <1>2, <2>1, <2>2
<1> QED
  BY <1>1, <1>2

\* While a setter is under way no port changes its type.
LEMMA PortsStay ==
    ASSUME ParamInv, NEW t \in Callers, Step(t), NEW o \in Callers, pc[o] \in InSetter
    PROVE  UNCHANGED m_aType
<1>1. CASE AudioPortInit(t) \/ AudioPortTerm(t)
  <2>1. pc[t] \in {"init", "term"} /\ call[t].op \in {"init", "term"}
    BY <1>1 DEF AudioPortInit, AudioPortTerm, At, ParamInv, RunsItsOp
  <2>2. t # o /\ Group(call[t].op) = "ports"
    BY <2>1, Groups DEF InSetter
  <2> QED
    BY <2>1, <2>2 DEF ParamInv, Apart, InSetter
<1>2. CASE UNCHANGED ports
  BY <1>2 DEF ports
<1> QED
  BY <1>1, <1>2 DEF Step, Load, Check, SetParameters, Store, Unload, DigitalRawSet,
     DigitalCodecSet

LEMMA NextFormat == ParamInv /\ FormatInv /\ [Next]_vars => FormatInv'
<1> SUFFICES ASSUME ParamInv, FormatInv, [Next]_vars PROVE FormatInv'
  OBVIOUS
<1>1. /\ "format" \in DOMAIN device /\ "audioModeNonSPDIF" \in Cached
      /\ DOMAIN cache = Cached
  BY DEF ParamInv, TypeOK, Targets, Cached
<1>2. ASSUME NEW t \in Callers, Step(t)
      PROVE  \A o \in Callers : o # t => (Formats(o)' <=> Formats(o))
  <2> TAKE o \in Callers
  <2> HAVE o # t
  <2>1. UNCHANGED <<pc[o], call[o]>>
    BY <1>2, OwnSteps
  <2>2. CASE pc[o] = "store"
    <3>1. UNCHANGED m_aType
      BY <1>2, <2>2, PortsStay DEF InSetter
    <3> QED
      BY <2>1, <3>1 DEF Formats
  <2>3. CASE pc[o] # "store"
    BY <2>1, <2>3 DEF Formats
  <2> QED
    BY <2>2, <2>3
<1>4. ASSUME NEW t \in Callers, NEW c \in Calls, Call(t, c)
      PROVE  FormatInv'
  <2>1. /\ pc[t] # "store" /\ pc'[t] # "store" /\ UNCHANGED <<cache, device, m_aType>>
    BY <1>4, NewCall, ClientCalls DEF ports
  <2> QED
    BY <1>4, <2>1, NewCall DEF FormatInv, Formats, Told
<1>5. ASSUME NEW t \in Callers, SetParameters(t)
      PROVE  FormatInv'
  <2>0. Step(t) /\ pc[t] = "set" /\ call' = call /\ call[t].op \in SetOps
    BY <1>5, SetsItsOwn DEF Step, ParamInv, RunsItsOp, InSetter
  <2>1. UNCHANGED m_aType
    BY <2>0, PortsStay DEF InSetter
  <2>2. CASE Formats(t)'
    <3>1. /\ pc'[t] = "store" /\ call[t].op = "stereo" /\ TargetOf(call[t]) = "format"
      BY <2>0, <2>1, <2>2, FormatTables DEF Formats
    <3>2. \A o \in Callers : o # t => ~Formats(o)
      BY <2>0, <3>1, StoresApart DEF Formats
    <3>3. device'["format"] = AmlMode(call[t].val)
      BY <1>1, <1>5, <3>1, SetsItsOwn DEF Command
    <3> QED
      BY <1>2, <2>0, <2>2, <3>2, <3>3 DEF FormatInv
  <2>3. CASE ~Formats(t)'
    <3>1. device'["format"] = device["format"]
      BY <1>1, <1>5, <2>0, <2>1, <2>3, SetsItsOwn, FormatTables
      DEF Formats, ParamInv, TypeOK
    <3>2. cache'["audioModeNonSPDIF"] = cache["audioModeNonSPDIF"]
      BY <1>1, <1>5, SetsItsOwn
    <3>3. ~Formats(t)
      BY <2>0 DEF Formats
    <3> QED
      BY <1>2, <2>0, <2>3, <3>1, <3>2, <3>3 DEF FormatInv, Told
  <2> QED
    BY <2>2, <2>3
<1>6. ASSUME NEW t \in Callers, Store(t)
      PROVE  FormatInv'
  <2>0. /\ Step(t) /\ pc[t] = "store" /\ pc'[t] = "unload"
        /\ UNCHANGED <<call, device>> /\ call[t].op \in SetOps
    BY <1>6, StoresItsOwn DEF Step, ParamInv, RunsItsOp, InSetter
  <2>1. ~Formats(t)'
    BY <2>0 DEF Formats
  <2>2. CASE Formats(t)
    <3>1. \A o \in Callers : o # t => ~Formats(o)
      BY <2>0, <2>2, StoresApart DEF Formats
    <3>2. device'["format"] = AmlMode(call[t].val)
      BY <2>0, <2>2 DEF FormatInv
    <3>3. cache'["audioModeNonSPDIF"] = call[t].val
      BY <1>1, <1>6, <2>0, <2>2, StoresItsOwn, FormatTables DEF Formats
    <3> QED
      BY <1>2, <2>0, <2>1, <3>1, <3>2, <3>3 DEF FormatInv, Told
  <2>3. CASE ~Formats(t)
    <3>1. cache'["audioModeNonSPDIF"] = cache["audioModeNonSPDIF"]
      BY <1>1, <1>6, <2>0, <2>3, StoresItsOwn, FormatTables DEF Formats
    <3> QED
      BY <1>2, <2>0, <2>1, <2>3, <3>1 DEF FormatInv, Told
  <2> QED
    BY <2>2, <2>3
<1>7. ASSUME NEW t \in Callers, Step(t), ~SetParameters(t), ~Store(t)
      PROVE  FormatInv'
  <2>1. pc[t] # "store" /\ UNCHANGED <<cache, device>>
    BY <1>7, QuietSteps DEF Quiet
  <2>2. ~Formats(t)'
    <3>1. CASE pc'[t] = "store"
      <4>1. pc[t] = "check" /\ TargetOf(call[t]) = "nothing" /\ UNCHANGED call
        BY <1>7, <3>1, QuietSteps DEF Quiet
      <4>2. UNCHANGED m_aType /\ call[t].op \in SetOps
        BY <1>7, <4>1, PortsStay DEF InSetter, ParamInv, RunsItsOp
      <4> QED
        BY <4>1, <4>2, FormatTables DEF Formats
    <3>2. CASE pc'[t] # "store"
      BY <3>2 DEF Formats
    <3> QED
      BY <3>1, <3>2
  <2>3. ~Formats(t)
    BY <2>1 DEF Formats
  <2>4. \A o \in Callers : o # t => call'[o] = call[o]
    BY <1>7, OwnSteps
  <2> QED
    BY <1>2, <1>7, <2>1, <2>2, <2>3, <2>4 DEF FormatInv, Told
<1>8. CASE Finished \/ UNCHANGED vars
  BY <1>8 DEF Finished, vars, ports, FormatInv, Formats, Told
<1> QED
  BY <1>4, <1>5, <1>6, <1>7, <1>8 DEF Next

-----------------------------------------------------------------------------
(* The delays: one variable, a parameter for each of two ports *)

DelayOps == {"delay", "delayOffset"}
DelayKeys == {"delaySpdif", "delaySpeaker"}
Delays(t) == pc[t] = "store" /\ call[t].op \in DelayOps

\* A handle has its own type or none.
TypesInv == \A p \in Ports : m_aType[p] \in {p, "none"}

\* A delay on its way to the device is one of a port that the device knows.
OnTheWay ==
    \A t \in Callers : call[t].op \in DelayOps =>
        /\ pc[t] # "idle" => call[t].port # "hdmi"
        /\ pc[t] \in {"set", "store"} => TargetOf(call[t]) \in DelayKeys

DelayInv ==
    /\ \A t \in Callers :
         Delays(t) => \E k \in DelayKeys : device[k] = <<call[t].val>>
    /\ (\A t \in Callers : ~Delays(t)) =>
         \/ \A k \in DelayKeys : device[k] = <<>>
         \/ \E k \in DelayKeys : device[k] = <<cache["audioDelay"]>>

\* Only the two delays set these parameters and the variable.
LEMMA DelayTables ==
    \A c : c.op \in SetOps /\ c.op \notin DelayOps =>
        TargetOf(c) \notin DelayKeys /\ SetterOf(c).var # "audioDelay"
<1> TAKE c
<1> HAVE c.op \in SetOps /\ c.op \notin DelayOps
<1>1. TargetOf(c) \notin DelayKeys
  <2>1. CASE c.op \in {"le", "leveller", "stereo"}
    BY <2>1, Parameters DEF DelayKeys
  <2>2. CASE c.op \notin {"le", "leveller", "stereo"}
    BY <2>2, Setters DEF TargetOf, DelayOps, DelayKeys
  <2> QED
    BY <2>1, <2>2
<1>2. SetterOf(c).var # "audioDelay"
  BY Variables, Setters DEF DelayOps
<1> QED
  BY <1>1, <1>2

\* The handles keep their types.
LEMMA NextPorts == ParamInv /\ TypesInv /\ [Next]_vars => TypesInv'
<1> SUFFICES ASSUME ParamInv, TypesInv, [Next]_vars PROVE TypesInv'
  OBVIOUS
<1>1. ASSUME NEW t \in Callers, AudioPortInit(t) \/ AudioPortTerm(t)
      PROVE  TypesInv'
  BY <1>1 DEF AudioPortInit, AudioPortTerm, TypesInv
<1>2. CASE UNCHANGED m_aType
  BY <1>2 DEF TypesInv
<1> QED
  BY <1>1, <1>2 DEF Next, Step, Call, Load, Check, SetParameters, Store, Unload,
     DigitalRawSet, DigitalCodecSet, Finished, vars, ports

NoHdmiDelay == \A c \in Calls : c.op \in DelayOps => c.port # "hdmi"

LEMMA NextOnTheWay ==
    ASSUME NoHdmiDelay
    PROVE  ParamInv /\ TypesInv /\ OnTheWay /\ [Next]_vars => OnTheWay'
<1> SUFFICES ASSUME ParamInv, TypesInv, OnTheWay, [Next]_vars PROVE OnTheWay'
  OBVIOUS
<1> DEFINE Way(o) ==
      call[o].op \in DelayOps =>
        /\ pc[o] # "idle" => call[o].port # "hdmi"
        /\ pc[o] \in {"set", "store"} => TargetOf(call[o]) \in DelayKeys
<1>0. OnTheWay <=> \A o \in Callers : Way(o)
  BY DEF OnTheWay
<1>1. OnTheWay' <=> \A o \in Callers : Way(o)'
  BY DEF OnTheWay
<1>2. ASSUME NEW o \in Callers, UNCHANGED <<pc[o], call[o]>>,
             pc[o] \in {"set", "store"} => UNCHANGED m_aType
      PROVE  Way(o)'
  BY <1>0, <1>2, Parameters DEF TargetOf
<1>3. ASSUME NEW t \in Callers, NEW c \in Calls, Call(t, c)
      PROVE  OnTheWay'
  <2>1. Way(t)'
    BY <1>3, NewCall, ClientCalls DEF NoHdmiDelay
  <2>2. \A o \in Callers : o # t => Way(o)'
    BY <1>2, <1>3, NewCall DEF ports
  <2> QED
    BY <1>1, <2>1, <2>2
<1>4. ASSUME NEW t \in Callers, Step(t)
      PROVE  OnTheWay'
  <2>1. \A o \in Callers : o # t => Way(o)'
    BY <1>2, <1>4, OwnSteps, PortsStay DEF InSetter
  <2>2. Way(t)'
    <3>1. CASE pc'[t] \notin {"set", "store"}
      BY <1>0, <1>4, <3>1, OwnSteps
    <3>2. CASE pc'[t] \in {"set", "store"} /\ pc[t] \in {"set", "store"}
      <4>1. UNCHANGED <<call[t], m_aType>>
        BY <1>4, <3>2, OwnSteps, PortsStay DEF InSetter
      <4> QED
        BY <1>0, <3>2, <4>1 DEF TargetOf
    <3>3. CASE pc'[t] \in {"set", "store"} /\ pc[t] \notin {"set", "store"}
      <4>1. Accepted(call[t]) /\ UNCHANGED <<call, m_aType>> /\ pc[t] = "check"
        <5>1. pc \in [Callers -> Labels]
          BY DEF ParamInv, TypeOK
        <5>2. CASE Check(t)
          BY <3>3, <5>1, <5>2 DEF Check, Abandon, Return, Goto, At, ports
        <5>3. CASE ~Check(t)
          BY <1>4, <3>3, <5>1, <5>3 DEF Step, AudioPortInit, AudioPortTerm, Load,
             SetParameters, Store, Unload, Abandon, DigitalRawSet, DigitalCodecSet,
             Return, Goto, At
        <5> QED
          BY <5>2, <5>3
      <4>2. ASSUME call[t].op \in DelayOps
            PROVE  TargetOf(call[t]) \in DelayKeys
        <5>1. call[t].port \in Ports \ {"hdmi"}
          BY <1>0, <4>1, <4>2 DEF ParamInv, RunsItsOp
        <5>2. m_aType[call[t].port] \in {"hdmi", "spdif", "speaker"}
          BY <4>1, <4>2 DEF Accepted, SetterOf, Ms12Setters, AudioDelay,
             AudioDelayOffset, Setter, DelayOps, Ports
        <5>3. m_aType[call[t].port] \in {"spdif", "speaker"}
          BY <5>1, <5>2 DEF TypesInv, Ports
        <5> QED
          BY <4>2, <5>3, Parameters DEF DelayOps, DelayKeys
      <4> QED
        BY <1>0, <4>1, <4>2 DEF TargetOf
    <3> QED
      BY <3>1, <3>2, <3>3
  <2> QED
    BY <1>1, <2>1, <2>2
<1>5. CASE Finished \/ UNCHANGED vars
  BY <1>0, <1>1, <1>2, <1>5 DEF Finished, vars, ports
<1> QED
  BY <1>3, <1>4, <1>5 DEF Next

LEMMA NextDelay ==
    ParamInv /\ OnTheWay /\ OnTheWay' /\ DelayInv /\ [Next]_vars => DelayInv'
<1> SUFFICES ASSUME ParamInv, OnTheWay, OnTheWay', DelayInv, [Next]_vars
             PROVE  DelayInv'
  OBVIOUS
<1>1. /\ DelayKeys \subseteq DOMAIN device /\ "audioDelay" \in Cached
      /\ DOMAIN cache = Cached
  BY DEF ParamInv, TypeOK, Targets, Cached, DelayKeys
<1>4. ASSUME NEW t \in Callers, NEW c \in Calls, Call(t, c)
      PROVE  DelayInv'
  <2>1. /\ UNCHANGED <<cache, device>>
        /\ \A o \in Callers : Delays(o)' <=> Delays(o)
        /\ \A o \in Callers : Delays(o) => call'[o] = call[o]
    BY <1>4, NewCall, ClientCalls DEF Delays
  <2> QED
    BY <2>1 DEF DelayInv
<1>5. ASSUME NEW t \in Callers, SetParameters(t)
      PROVE  DelayInv'
  <2>0. Step(t) /\ pc[t] = "set" /\ call' = call /\ call[t].op \in SetOps
    BY <1>5, SetsItsOwn DEF Step, ParamInv, RunsItsOp, InSetter
  <2>2. CASE call[t].op \in DelayOps /\ pc'[t] = "store"
    <3>1. \A o \in Callers : o # t => ~Delays(o)'
      <4>1. \A o \in Callers : o # t => ~Delays(o)
        BY <2>0, <2>2, StoresApart, Groups DEF Delays, DelayOps
      <4> QED
        BY <2>0, <4>1, OwnSteps DEF Delays
    <3>2. PICK k \in DelayKeys : k = TargetOf(call[t])
      BY <2>0, <2>2 DEF OnTheWay
    <3>3. device'[k] = <<call[t].val>>
      <4>1. Command(call[t]) = <<call[t].val>>
        BY <2>2 DEF Command, DelayOps
      <4>2. device' = [device EXCEPT ![k] = Command(call[t])]
        BY <1>5, <2>2, <3>2, SetsItsOwn
      <4> QED
        BY <1>1, <4>1, <4>2
    <3>4. Delays(t)'
      BY <2>0, <2>2 DEF Delays
    <3> QED
      BY <2>0, <3>1, <3>3, <3>4 DEF DelayInv
  <2>3. CASE call[t].op \notin DelayOps \/ pc'[t] # "store"
    <3>1. \A k \in DelayKeys : device'[k] = device[k]
      BY <1>1, <1>5, <2>0, <2>3, SetsItsOwn, DelayTables DEF ParamInv, TypeOK
    <3>2. cache'["audioDelay"] = cache["audioDelay"]
      BY <1>1, <1>5, SetsItsOwn
    <3>3. \A o \in Callers : Delays(o)' <=> Delays(o)
      BY <2>0, <2>3, OwnSteps DEF Delays
    <3> QED
      BY <2>0, <3>1, <3>2, <3>3 DEF DelayInv
  <2> QED
    BY <2>2, <2>3
<1>6. ASSUME NEW t \in Callers, Store(t)
      PROVE  DelayInv'
  <2>0. /\ Step(t) /\ pc[t] = "store" /\ pc'[t] = "unload"
        /\ UNCHANGED <<call, device>> /\ call[t].op \in SetOps
    BY <1>6, StoresItsOwn DEF Step, ParamInv, RunsItsOp, InSetter
  <2>1. ~Delays(t)' /\ \A o \in Callers : o # t => (Delays(o)' <=> Delays(o))
    BY <2>0, OwnSteps DEF Delays
  <2>2. CASE call[t].op \in DelayOps
    <3>1. \A o \in Callers : o # t => ~Delays(o)
      BY <2>0, <2>2, StoresApart, Groups DEF Delays, DelayOps
    <3>2. \E k \in DelayKeys : device'[k] = <<call[t].val>>
      BY <2>0, <2>2 DEF DelayInv, Delays
    <3>3. cache'["audioDelay"] = call[t].val
      BY <1>1, <1>6, <2>2, StoresItsOwn, Variables DEF DelayOps
    <3> QED
      BY <2>1, <3>1, <3>2, <3>3 DEF DelayInv
  <2>3. CASE call[t].op \notin DelayOps
    <3>1. cache'["audioDelay"] = cache["audioDelay"]
      BY <1>1, <1>6, <2>0, <2>3, StoresItsOwn, DelayTables
    <3>2. ~Delays(t)
      BY <2>3 DEF Delays
    <3> QED
      BY <2>0, <2>1, <3>1, <3>2 DEF DelayInv
  <2> QED
    BY <2>2, <2>3
<1>7. ASSUME NEW t \in Callers, Step(t), ~SetParameters(t), ~Store(t)
      PROVE  DelayInv'
  <2>1. pc[t] # "store" /\ UNCHANGED <<cache, device>>
    BY <1>7, QuietSteps DEF Quiet
  <2>2. ~Delays(t)'
    <3>1. CASE pc'[t] = "store"
      <4>1. /\ pc[t] = "check" /\ TargetOf(call[t]) = "nothing" /\ UNCHANGED call
            /\ UNCHANGED m_aType
        BY <1>7, <3>1, QuietSteps, PortsStay DEF Quiet, InSetter
      <4>2. TargetOf(call[t])' = "nothing"
        BY <4>1 DEF TargetOf
      <4> QED
        BY <3>1, <4>2 DEF OnTheWay, Delays, DelayKeys
    <3>2. CASE pc'[t] # "store"
      BY <3>2 DEF Delays
    <3> QED
      BY <3>1, <3>2
  <2>3. ~Delays(t) /\ \A o \in Callers : o # t => (Delays(o)' <=> Delays(o))
    BY <1>7, <2>1, OwnSteps DEF Delays
  <2>4. \A o \in Callers : o # t => call'[o] = call[o]
    BY <1>7, OwnSteps
  <2> QED
    BY <2>1, <2>2, <2>3, <2>4 DEF DelayInv
<1>8. CASE Finished \/ UNCHANGED vars
  BY <1>8 DEF Finished, vars, DelayInv, Delays
<1> QED
  BY <1>4, <1>5, <1>6, <1>7, <1>8 DEF Next

\* The answers of the getters are what the device was told, for any interleaving and
\* any failure, if the client sets no delay of HDMI.
THEOREM ReportsFollow ==
    ASSUME NoHdmiDelay
    PROVE  Spec => []ReportedIsApplied
<1> DEFINE Reports == /\ \A op \in Simple : FollowOf(op)
                      /\ FormatInv /\ TypesInv /\ OnTheWay /\ DelayInv
<1>1. Init => Reports
  <2> SUFFICES ASSUME Init PROVE Reports
    OBVIOUS
  <2>1. /\ \A t \in Callers : pc[t] = "idle" /\ call[t] = NoCall
        /\ \A k \in Targets : device[k] = <<>>
    BY DEF Init
  <2>2. \A op \in Simple : FollowOf(op)
    BY <2>1, SimpleTables DEF FollowOf, Told
  <2>3. FormatInv
    BY <2>1 DEF FormatInv, Formats, Told, Targets
  <2>4. TypesInv
    BY DEF Init, TypesInv
  <2>5. OnTheWay
    BY <2>1 DEF OnTheWay
  <2>6. DelayInv
    BY <2>1 DEF DelayInv, Delays, DelayKeys, Targets
  <2> QED
    BY <2>2, <2>3, <2>4, <2>5, <2>6
<1>2. ParamInv /\ Reports /\ [Next]_vars => Reports'
  BY NextFollow, NextFormat, NextPorts, NextOnTheWay, NextDelay
<1>3. ParamInv /\ Reports => ReportedIsApplied
  <2> SUFFICES ASSUME ParamInv, Reports PROVE ReportedIsApplied
    OBVIOUS
  <2>1. ASSUME NEW op \in Simple, Settled(op)
        PROVE  Told(op, Report(op, cache[VarOf[op]]))
    <3>1. \A t \in Callers : call[t].op # op
      BY <2>1, SimpleTables DEF Settled
    <3> QED
      BY <3>1 DEF FollowOf
  <2>2. SwitchesApplied /\ BassIsApplied
    BY <2>1 DEF SwitchesApplied, BassIsApplied, Simple, Report, VarOf
  <2>3. FormatIsApplied
    BY Groups DEF FormatIsApplied, FormatInv, Formats, Settled
  <2>4. DelayIsApplied
    <3> SUFFICES ASSUME Settled("delay"),
                        {device["delaySpdif"], device["delaySpeaker"]} \ {<<>>} # {}
                 PROVE  <<cache["audioDelay"]>>
                          \in {device["delaySpdif"], device["delaySpeaker"]} \ {<<>>}
      BY DEF DelayIsApplied
    <3>1. \A t \in Callers : ~Delays(t)
      BY Groups DEF Settled, Delays, DelayOps
    <3>2. \E k \in DelayKeys : device[k] = <<cache["audioDelay"]>>
      BY <3>1 DEF DelayInv, DelayKeys
    <3> QED
      BY <3>2 DEF DelayKeys
  <2> QED
    BY <2>2, <2>3, <2>4 DEF ReportedIsApplied
<1> HIDE DEF Reports
<1> QED
  BY <1>1, <1>2, <1>3, ParamInvariant, PTL DEF Spec
=============================================================================
