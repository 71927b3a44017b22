---------------------------- MODULE AudioParams ----------------------------
(***************************************************************************)
(* Audio parameters: what dsAudio.c remembers and what the device was told.*)
(*                                                                         *)
(* A setter loads the interface of the audio HAL, checks it, sends a       *)
(* parameter, remembers the value on success in a static variable, and     *)
(* unloads the interface.  A getter answers from the static variable.      *)
(* Nothing is locked, so each of these is a step of its own.               *)
(***************************************************************************)
EXTENDS Naturals, Sequences, FiniteSets

CONSTANTS
    Callers,      \* threads of the client
    Calls,        \* the calls this client makes, a subset of ApiCalls
    MaxValue,     \* values are 0..MaxValue
    FailingSets,  \* operations whose parameter the device may refuse
    Faulty,       \* "load" and "init_check" may fail
    MaxCalls      \* bound on the number of calls

Ports == {"hdmi", "spdif", "speaker"}

\* A setter: the ports it works on, the values it accepts, the static variable
\* it writes.
Setter(ports, values, var) == [ports |-> ports, values |-> values, var |-> var]
Anything == 0..MaxValue
Switch == Anything \cap {0, 1}
AnyPort == Ports \cup {"none"}

VolumeLeveller      == Setter({"speaker"}, Anything \cap 0..10, "volumeLeveller")
LEConfig            == Setter({"speaker"}, Switch, "LEConfigEnabled")
BassEnhancer        == Setter({"speaker"}, Anything \cap 0..100, "bassBoost")
SurroundDecoder     == Setter({"speaker"}, Switch, "surroundDecoderEnabled")
DRCMode             == Setter(AnyPort, Switch, "drcMode")
SurroundVirtualizer == Setter({"speaker"}, Anything \cap 0..96,
                              "surroundVirtualizerLevel")
MISteering          == Setter({"speaker"}, Switch, "miSteeringEnabled")
GraphicEqualizer    == Setter({"speaker"}, Anything \cap 0..3, "graphicEQMode")
AtmosOutputMode     == Setter(AnyPort, Switch, "nothing")
AudioDelay          == Setter(Ports, Anything, "audioDelay")

AudioDelayOffset == Setter(Ports, Anything, "audioDelay")

\* The stereo modes: 1 is STEREO, 2 SURROUND, 3 PASSTHRU, 4 DD, 5 DDPLUS.  Only
\* the mode of a port that is not SPDIF goes to the device.
StereoMode(type) == Setter(AnyPort, Anything \cap 1..5,
                           IF type = "spdif" THEN "audioModeSPDIF"
                                             ELSE "audioModeNonSPDIF")

Ms12Setters ==
    [leveller |-> VolumeLeveller, le |-> LEConfig, bass |-> BassEnhancer,
     surround |-> SurroundDecoder, drc |-> DRCMode,
     virtualizer |-> SurroundVirtualizer, mi |-> MISteering,
     graphicEq |-> GraphicEqualizer, atmos |-> AtmosOutputMode,
     delay |-> AudioDelay, delayOffset |-> AudioDelayOffset]

Cached ==
    {"volumeLeveller", "LEConfigEnabled", "bassBoost", "surroundDecoderEnabled",
     "drcMode", "surroundVirtualizerLevel", "miSteeringEnabled",
     "graphicEQMode", "audioDelay", "audioModeSPDIF", "audioModeNonSPDIF"}

SetOps == DOMAIN Ms12Setters \cup {"stereo"}
ApiCalls ==
    [op : SetOps \cup {"encoding"}, port : Ports, val : 0..MaxValue]
        \cup [op : {"init", "term"}, port : {"hdmi"}, val : {0}]
NoCall == [op |-> "none", port |-> "hdmi", val |-> 0]

ASSUME AudioAssumption ==
    /\ Calls \subseteq ApiCalls
    /\ FailingSets \subseteq SetOps \cup {"raw", "codec"}
    /\ Faulty \subseteq {"load", "init_check"}
    /\ MaxValue \in Nat /\ MaxCalls \in Nat

VARIABLES
    isAudioPortInitialized,
    m_aType,     \* of each handle; "none" stands for dsAUDIOPORT_TYPE_MAX
    cache,       \* the static variables
    device,      \* the audio HAL: what it was last told, <<>> for nothing yet
    raw, codec,  \* the two sysfs files of the encoding
    pc, call, iface,   \* of each caller; iface: it has an interface loaded
    leaked,      \* history: operations that left an interface loaded
    misuse,      \* history: operations that used or unloaded one not loaded
    refused,     \* history: dsEnableLEConfig was refused, and nothing of the
                 \* leveller has been accepted since
    torn,        \* history: a write of the encoding was refused, or fell between
                 \* the two writes of another call, and none was alone since
    calls        \* bound

vars == <<isAudioPortInitialized, m_aType, cache, device, raw, codec,
          pc, call, iface, leaked, misuse, refused, torn, calls>>
ports == <<isAudioPortInitialized, m_aType>>
files == <<raw, codec, torn>>

SetterOf(c) == IF c.op = "stereo" THEN StereoMode(m_aType[c.port])
                                  ELSE Ms12Setters[c.op]

At(t, l) == pc[t] = l
Goto(t, l) == pc' = [pc EXCEPT ![t] = l]
Return(t) ==
    /\ Goto(t, "idle")
    /\ call' = [call EXCEPT ![t] = NoCall]
Abandon(t) ==     \* return with or without an interface still loaded
    /\ Return(t)
    /\ leaked' = leaked \cup (IF iface[t] THEN {call[t].op} ELSE {})
    /\ iface' = [iface EXCEPT ![t] = FALSE]

Targets == {"leveller", "bass", "surround", "drc", "virtualizer", "mi",
            "graphicEq", "atmos", "format", "delaySpdif", "delaySpeaker"}

\* The key of the parameter a call sets on the device, if it sets any.
TargetOf(c) ==
    CASE c.op \in {"le", "leveller"} -> "leveller"
      [] c.op = "stereo" -> IF m_aType[c.port] = "spdif" THEN "nothing"
                                                         ELSE "format"
      [] c.op \in {"delay", "delayOffset"} ->
           IF m_aType[c.port] = "spdif" THEN "delaySpdif"
           ELSE IF m_aType[c.port] = "speaker" THEN "delaySpeaker" ELSE "nothing"
      [] OTHER -> c.op

\* aml_mode: all modes but STEREO (PCM) and PASSTHRU (BYPASS) are AUTO.
AmlMode(mode) == IF mode = 1 THEN <<"pcm">>
                 ELSE IF mode = 3 THEN <<"bypass">> ELSE <<"auto">>

\* What the device is told.  The boost of the bass enhancer is formatted but
\* not sent.
Command(c) ==
    CASE c.op = "le" -> IF c.val = 1 THEN <<"auto">>
                                     ELSE <<"manual", cache["volumeLeveller"]>>
      [] c.op = "leveller" -> <<"manual", c.val>>
      [] c.op = "bass" -> IF c.val = 0 THEN <<"off">> ELSE <<"on">>
      [] c.op = "stereo" -> AmlMode(c.val)
      [] OTHER -> <<c.val>>

\* Mutant of Stored: setting a level does not end Loudness Equivalence.
StoredAlone(c) ==
    [v \in Cached |-> IF v = SetterOf(c).var THEN c.val ELSE cache[v]]

\* What the static variables become when the device has accepted.
Stored(c) ==
    [v \in Cached |->
       IF v = SetterOf(c).var THEN c.val
       ELSE IF c.op = "leveller" /\ v = "LEConfigEnabled" THEN 0 ELSE cache[v]]

Init ==
    /\ isAudioPortInitialized = TRUE
    /\ m_aType = [p \in Ports |-> p]
    /\ cache = [v \in Cached |-> 0]
    /\ device = [k \in Targets |-> <<>>]
    /\ raw = "unset" /\ codec = "unset"
    /\ pc = [t \in Callers |-> "idle"]
    /\ call = [t \in Callers |-> NoCall]
    /\ iface = [t \in Callers |-> FALSE]
    /\ leaked = {} /\ misuse = {} /\ refused = FALSE /\ torn = FALSE /\ calls = 0

-----------------------------------------------------------------------------
(* Two calls of one group write the same static variables; the client does *)
(* not overlap them, and it switches the ports on and off only when no     *)
(* other call is under way.  Calls of dsSetAudioEncoding may overlap.      *)
Group(op) == CASE op \in {"le", "leveller"} -> "leveller"
               [] op \in {"delay", "delayOffset"} -> "delay"
               [] op \in {"init", "term"} -> "ports"
               [] OTHER -> op

Call(t, c) ==
    /\ At(t, "idle") /\ calls < MaxCalls
    /\ \A o \in Callers :
         \/ At(o, "idle")
         \/ /\ "ports" \notin {Group(c.op), Group(call[o].op)}
            /\ Group(call[o].op) = Group(c.op) => c.op = "encoding"
    /\ calls' = calls + 1
    /\ call' = [call EXCEPT ![t] = c]
    /\ Goto(t, IF c.op \in SetOps THEN "load" ELSE c.op)
    /\ UNCHANGED <<ports, cache, device, files, iface, leaked, misuse, refused>>

\* dsAudioPortInit and dsAudioPortTerm give the handles their types.
AudioPortInit(t) ==
    /\ At(t, "init")
    /\ m_aType' = IF isAudioPortInitialized THEN m_aType ELSE [p \in Ports |-> p]
    /\ isAudioPortInitialized' = TRUE
    /\ Return(t)
    /\ UNCHANGED <<cache, device, files, iface, leaked, misuse, refused, calls>>

\* Mutant of AudioPortTerm: the handles are zeroed, which is a type of port.
ZeroedPortTerm(t) ==
    /\ At(t, "term")
    /\ m_aType' = [p \in Ports |-> "analog"]
    /\ isAudioPortInitialized' = FALSE
    /\ Return(t)
    /\ UNCHANGED <<cache, device, files, iface, leaked, misuse, refused, calls>>

AudioPortTerm(t) ==
    /\ At(t, "term")
    /\ m_aType' = [p \in Ports |-> "none"]
    /\ isAudioPortInitialized' = FALSE
    /\ Return(t)
    /\ UNCHANGED <<cache, device, files, iface, leaked, misuse, refused, calls>>

\* The setters that return as soon as the audio HAL cannot be reached.
Careful == {"delay", "delayOffset", "atmos"}

\* audio_hw_load_interface.  After a failure only the delays and the Atmos mode
\* return; the others call through a pointer that was never assigned, which is
\* recorded as a misuse and taken as the end of the call.
Load(t) ==
    /\ At(t, "load")
    /\ \/ /\ iface' = [iface EXCEPT ![t] = TRUE]
          /\ Goto(t, "check")
          /\ UNCHANGED <<call, misuse>>
       \/ /\ "load" \in Faulty
          /\ misuse' = misuse \cup ({call[t].op} \ Careful)
          /\ Return(t)
          /\ UNCHANGED iface
    /\ UNCHANGED <<ports, cache, device, files, leaked, refused, calls>>

Accepted(c) == /\ c.val \in SetterOf(c).values
               /\ m_aType[c.port] \in SetterOf(c).ports

\* Mutant of Check: every setter returns at once on a value it refuses.
HastyCheck(t) ==
    /\ At(t, "check")
    /\ \/ /\ Accepted(call[t])
          /\ Goto(t, IF TargetOf(call[t]) = "nothing" THEN "store" ELSE "set")
          /\ UNCHANGED <<iface, leaked, call>>
       \/ ~Accepted(call[t]) /\ Abandon(t)
    /\ UNCHANGED <<ports, cache, device, files, misuse, refused, calls>>

\* init_check, the validation of the handle and of the value.  When init_check
\* fails the interface is unloaded at once, and only the delays and the Atmos
\* mode return; the others unload it again at their end.
Check(t) ==
    /\ At(t, "check")
    /\ \/ /\ Accepted(call[t])
          /\ Goto(t, IF TargetOf(call[t]) = "nothing" THEN "store" ELSE "set")
          /\ UNCHANGED <<iface, leaked, call>>
       \/ /\ ~Accepted(call[t])
          /\ IF call[t].op \in {"delay", "delayOffset"}
             THEN Abandon(t)    \* return inside VALIDATE_TYPE_AND_INDEX
             ELSE Goto(t, "unload") /\ UNCHANGED <<iface, leaked, call>>
       \/ /\ "init_check" \in Faulty
          /\ iface' = [iface EXCEPT ![t] = FALSE]
          /\ IF call[t].op \in Careful THEN Return(t)
             ELSE Goto(t, "unload") /\ UNCHANGED call
          /\ UNCHANGED leaked
    /\ UNCHANGED <<ports, cache, device, files, misuse, refused, calls>>

\* Mutant of SetParameters: what the device has refused is remembered.
UncheckedSetParameters(t) ==
    /\ At(t, "set")
    /\ \/ device' = [device EXCEPT ![TargetOf(call[t])] = Command(call[t])]
       \/ call[t].op \in FailingSets /\ UNCHANGED device
    /\ Goto(t, "store")
    /\ UNCHANGED <<ports, cache, files, call, iface, leaked, misuse, refused, calls>>

\* A command that the device refuses leaves it as it was.
SetParameters(t) ==
    /\ At(t, "set")
    /\ \/ /\ device' = [device EXCEPT ![TargetOf(call[t])] = Command(call[t])]
          /\ refused' = (refused /\ TargetOf(call[t]) # "leveller")
          /\ Goto(t, "store")
          /\ UNCHANGED cache
       \/ /\ call[t].op \in FailingSets
          /\ cache' = IF call[t].op = "le"
                      THEN [cache EXCEPT !["LEConfigEnabled"] = 0] ELSE cache
          /\ refused' = (refused \/ call[t].op = "le")
          /\ Goto(t, "unload")
          /\ UNCHANGED device
    /\ UNCHANGED <<ports, files, call, iface, leaked, misuse, calls>>

Store(t) ==
    /\ At(t, "store")
    /\ cache' = Stored(call[t])
    /\ Goto(t, "unload")
    /\ UNCHANGED <<ports, device, files, call, iface, leaked, misuse, refused, calls>>

\* dsSetAudioAtmosOutputMode returns without it.
Unload(t) ==
    /\ At(t, "unload")
    /\ IF call[t].op = "atmos"
       THEN Abandon(t) /\ UNCHANGED misuse
       ELSE /\ misuse' = misuse \cup (IF iface[t] THEN {} ELSE {call[t].op})
            /\ iface' = [iface EXCEPT ![t] = FALSE]
            /\ Return(t)
            /\ UNCHANGED leaked
    /\ UNCHANGED <<ports, cache, device, files, refused, calls>>

-----------------------------------------------------------------------------
(* dsSetAudioEncoding: 1 is PCM, 2 AC3, 3 EAC3.  HDMI and SPDIF write the  *)
(* same two files, and the second is written even if the first fails.      *)

Encodes(t) == m_aType[call[t].port] \in {"hdmi", "spdif"} /\ call[t].val \in 1..3
\* Mutant of RawOf: only the port decides.
RawOfPort(t) == IF m_aType[call[t].port] = "hdmi" THEN "rawHdmi" ELSE "rawSpdif"

RawOf(t) == IF call[t].val = 1 THEN "pcm"
            ELSE IF m_aType[call[t].port] = "hdmi" THEN "rawHdmi" ELSE "rawSpdif"
CodecOf(t) == CASE call[t].val = 1 -> "pcm" [] call[t].val = 2 -> "ac3"
                [] OTHER -> "eac3"

DigitalRawSet(t) ==
    /\ At(t, "encoding")
    /\ \/ /\ Encodes(t)
          /\ \/ /\ raw' = RawOf(t)
                /\ torn' = \E o \in Callers \ {t} : At(o, "codec")
             \/ "raw" \in FailingSets /\ torn' = TRUE /\ UNCHANGED raw
          /\ Goto(t, "codec")
          /\ UNCHANGED call
       \/ ~Encodes(t) /\ Return(t) /\ UNCHANGED <<raw, torn>>
    /\ UNCHANGED <<ports, cache, device, codec, iface, leaked, misuse, refused, calls>>

DigitalCodecSet(t) ==
    /\ At(t, "codec")
    /\ \/ codec' = CodecOf(t) /\ UNCHANGED torn
       \/ "codec" \in FailingSets /\ torn' = TRUE /\ UNCHANGED codec
    /\ Return(t)
    /\ UNCHANGED <<ports, cache, device, raw, iface, leaked, misuse, refused, calls>>

-----------------------------------------------------------------------------
Step(t) ==
    \/ AudioPortInit(t) \/ AudioPortTerm(t)
    \/ Load(t) \/ Check(t) \/ SetParameters(t) \/ Store(t) \/ Unload(t)
    \/ DigitalRawSet(t) \/ DigitalCodecSet(t)

Finished == calls = MaxCalls /\ (\A t \in Callers : At(t, "idle"))
              /\ UNCHANGED vars

Next ==
    \/ \E t \in Callers : Step(t) \/ \E c \in Calls : Call(t, c)
    \/ Finished

Spec == Init /\ [][Next]_vars

-----------------------------------------------------------------------------
(* Properties *)

Labels == {"idle", "init", "term", "load", "check", "set", "store", "unload",
           "encoding", "codec"}

\* Every variable holds a value of its type.
TypeOK ==
    /\ isAudioPortInitialized \in BOOLEAN
    /\ m_aType \in [Ports -> Ports \cup {"none"}]
    /\ cache \in [Cached -> 0..MaxValue]
    /\ DOMAIN device = Targets /\ \A k \in Targets : Len(device[k]) <= 2
    /\ raw \in {"unset", "pcm", "rawHdmi", "rawSpdif"}
    /\ codec \in {"unset", "pcm", "ac3", "eac3"}
    /\ pc \in [Callers -> Labels]
    /\ call \in [Callers -> ApiCalls \cup {NoCall}]
    /\ iface \in [Callers -> BOOLEAN]
    /\ leaked \subseteq SetOps /\ misuse \subseteq SetOps
    /\ refused \in BOOLEAN /\ torn \in BOOLEAN
    /\ calls \in 0..MaxCalls

\* No call of this group is under way.
Settled(g) == \A t \in Callers : Group(call[t].op) # g

Told(key, value) == device[key] # <<>> => device[key] = value

\* What the getters answer is what the device was told, whichever calls failed,
\* for callers that do not overlap on one parameter.  Of the bass enhancer this is
\* true only of on and off: the boost is never sent.  The delay answered is one
\* that some port was told: the variable is one for all ports, so the port asked
\* about may have an older one; of HDMI, whose delay is remembered and never sent,
\* it is not true, and the run sets no such delay.  The output format is that of
\* the mode dsGetStereoMode answers for a port that is not SPDIF.
SwitchesApplied ==
    /\ Settled("surround") => Told("surround", <<cache["surroundDecoderEnabled"]>>)
    /\ Settled("drc") => Told("drc", <<cache["drcMode"]>>)
    /\ Settled("virtualizer") =>
         Told("virtualizer", <<cache["surroundVirtualizerLevel"]>>)
    /\ Settled("mi") => Told("mi", <<cache["miSteeringEnabled"]>>)
    /\ Settled("graphicEq") => Told("graphicEq", <<cache["graphicEQMode"]>>)
BassIsApplied ==
    Settled("bass") => Told("bass", IF cache["bassBoost"] = 0 THEN <<"off">>
                                                             ELSE <<"on">>)
DelayIsApplied ==
    Settled("delay") =>
        LET delays == {device["delaySpdif"], device["delaySpeaker"]} \ {<<>>}
        IN  delays # {} => <<cache["audioDelay"]>> \in delays
FormatIsApplied ==
    Settled("stereo") => Told("format", AmlMode(cache["audioModeNonSPDIF"]))
ReportedIsApplied ==
    SwitchesApplied /\ BassIsApplied /\ DelayIsApplied /\ FormatIsApplied

\* The volume leveller and Loudness Equivalence share one parameter of the
\* device: it is automatic exactly when dsGetLEConfig answers true, and
\* otherwise has the level that dsGetVolumeLeveller answers.  Only a call of
\* dsEnableLEConfig that the device refuses breaks this, until the next one that
\* it accepts: dsGetLEConfig answers false then, whatever the device does.
LevellerIsApplied ==
    Settled("leveller") /\ ~refused =>
        Told("leveller", IF cache["LEConfigEnabled"] = 1 THEN <<"auto">>
                         ELSE <<"manual", cache["volumeLeveller"]>>)

\* The raw mode and the codec agree on PCM, whichever port was set last: unless the
\* last writes of the two files were those of calls that overlapped, or one of them
\* was refused, and until a later call of dsSetAudioEncoding writes both alone.
EncodingAgrees ==
    Settled("encoding") /\ ~torn /\ "unset" \notin {raw, codec}
        => (raw = "pcm") = (codec = "pcm")

\* Between calls no interface of the audio HAL is loaded, except those that the
\* Atmos mode and the delays of a terminated port leave behind; and those three
\* setters never touch an interface that is not loaded.
InterfacesReleased ==
    /\ leaked \subseteq Careful /\ misuse \cap Careful = {}
    /\ \A t \in Callers : At(t, "idle") => ~iface[t]
=============================================================================
