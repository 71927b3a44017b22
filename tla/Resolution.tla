----------------------------- MODULE Resolution -----------------------------
(***************************************************************************)
(* Video modes of the HDMI port: dsSetResolution, dsGetResolution and      *)
(* dsSupportedTvResolutions of dsVideoPort.c, dsGetEDID of dsDisplay.c,    *)
(* the frame rate of dsVideoDevice.c, and the tables of dsDrmUtils.c and   *)
(* dsVideoResolutionSettings.h that translate between names of the driver  *)
(* and names of RDK.                                                       *)
(*                                                                         *)
(* These functions hold no lock: the cable moves and the compositor        *)
(* changes the mode between any two of their system calls.  A mode stands  *)
(* for a name of the driver such as "1080p60hz"; "smpte" are the           *)
(* 4096x2160 modes.                                                        *)
(***************************************************************************)
EXTENDS Naturals, FiniteSets

CONSTANTS
    Callers,      \* threads of the client
    Calls,        \* the calls the client makes, a subset of ApiCalls
    Sinks,        \* the displays that may be plugged, each the set of its modes
    Encoders,     \* number of encoders of the DRM device
    HdmiEncoder,  \* position of the one that drives the HDMI connector
    Replies,      \* what a call may read from the compositor
    OpenFails,    \* the DRM device may refuse to be opened
    MaxCalls,     \* bound on the number of calls
    MaxMoves      \* bound on what cable and compositor do by themselves

Mode(size, scan, rate) == [size |-> size, scan |-> scan, rate |-> rate]
Rates == {24, 25, 30, 50, 60}
Modes ==
    [size : {"480", "576", "720", "1024", "1080", "2160", "smpte"},
     scan : {"i", "p"}, rate : Rates]

Dark == Mode("none", "p", 0)          \* the CRTC shows nothing
UnknownName == Mode("unknown", "p", 0)   \* "unknown resolution"

\* The table of the resolutions of RDK.  59.94 Hz counts as 60.
kResolutions ==
    {Mode("480", "p", 60), Mode("576", "p", 50),
     Mode("1080", "i", 50), Mode("1080", "i", 60)}
        \cup [size : {"720", "1080", "2160"}, scan : {"p"}, rate : Rates]

\* The bits of dsTV_RESOLUTION, which tell a rate (other than 0) only at 2160p.
Bits ==
    [size : {"480", "576", "720", "1080"}, scan : {"i", "p"}, rate : {0}]
        \cup {Mode("2160", "p", 30), Mode("2160", "p", 60)}

\* The caller of dsSupportedTvResolutions has a bit set in its variable, or none (Dark).
ApiCalls == [op : {"set", "setrate"}, res : Modes]
              \cup [op : {"get", "getrate", "edid"}, res : {Dark}]
              \cup [op : {"tv"}, res : Bits \cup {Dark}]
NoCall == [op |-> "none", res |-> Dark]

ASSUME ResolutionAssumption ==
    /\ Calls \subseteq ApiCalls
    /\ \A s \in Sinks : s # {} /\ s \subseteq Modes
    /\ Encoders \in Nat /\ HdmiEncoder \in 1..Encoders
    /\ Replies \subseteq {"response", "no response", "no console"}
    /\ OpenFails \in BOOLEAN
    /\ MaxCalls \in Nat /\ MaxMoves \in Nat

-----------------------------------------------------------------------------
(* The tables *)

\* getSupportedDRMResolutions: the modes of the connector it knows.  The list has
\* drmMode_Max places, and the code does not look whether they are used up: a driver
\* that lists each size and rate under one name does not fill them.
SupportedModes(modes) ==
    {m \in modes :
       \/ m.size = "480" /\ m.rate = 60
       \/ m.size = "576" /\ m.rate = 50
       \/ m.size = "1024"
       \/ m.size \in {"720", "2160"} /\ m.scan = "p" /\ m.rate \in Rates
       \/ m.size = "1080" /\ (m.scan = "p" \/ m.rate \in {50, 60})}

\* Mutant of ModeInfo: no rate is looked at.
ModeInfoBySize(r) == [r EXCEPT !.rate = 60]

\* getDRMConnectorModeInfo: the mode wanted for an entry of kResolutions.  The
\* rate of an interlaced entry is not looked at.
ModeInfo(r) ==
    IF r.size = "1080" /\ r.scan = "i" THEN Mode("1080", "i", 60) ELSE r

\* getHDMISupportedResolutions.
HDMISupportedResolutions(modes) ==
    {r \in kResolutions : ModeInfo(r) \in SupportedModes(modes)}

\* getCurrentDRMResolution and the switch of dsGetResolution: the modes whose
\* name is recognised, and the name of RDK that each of them is given.
Recognised(m) ==
    \/ m.size = "480" /\ m.rate = 60
    \/ m.size = "576" /\ m.scan = "p" /\ m.rate = 50
    \/ m.size = "720" /\ m.scan = "p"
    \/ m.size \in {"1080", "2160", "smpte"}
\* Mutant of NameOf: every interlaced mode has the same name.
NameOfSize(m) == IF m.scan = "i" THEN Mode(m.size, "i", 60) ELSE m

NameOf(m) ==
    IF m.size = "1080" /\ m.scan = "i" /\ m.rate # 50 THEN Mode("1080", "i", 60)
                                                      ELSE m

\* Mutant of TvBits: the case of 576 is missing.
TvBitsWithout576(m) ==
    {IF m.size \in {"480", "720", "1080", "2160"} THEN Mode(m.size, m.scan, 0)
                                                  ELSE Mode("480", "p", 0)}

\* The bits of dsSupportedTvResolutions.  The case of 2160p30 runs on into that of
\* 2160p60; 1080i at 50 Hz, 1280x1024 and an empty place of the list count as 480p.
TvBits(m) ==
    CASE \/ m.size \in {"480", "576", "720"}
         \/ m.size = "1080" /\ (m.scan = "p" \/ m.rate = 60)
           -> {Mode(m.size, m.scan, 0)}
      [] m.size = "2160" -> {Mode("2160", "p", 60)}
                             \cup (IF m.rate < 60 THEN {Mode("2160", "p", 30)} ELSE {})
      [] OTHER -> {Mode("480", "p", 0)}

TvResolutions(modes) ==
    {Mode("480", "p", 0)} \cup UNION {TvBits(m) : m \in SupportedModes(modes)}

\* dsSetResolution searches the table for size and scan, not for the rate.
InTable(r) == \E k \in kResolutions : k.size = r.size /\ k.scan = r.scan

-----------------------------------------------------------------------------
VARIABLES
    sink,     \* modes of the connector; {} when unplugged
    shown,    \* mode of the CRTC of the HDMI connector, or Dark
    pc, call,
    first,    \* local: what the first read of the connector gave
    ret,      \* local: "none" for dsERR_NONE, or "error"
    answer,   \* local: what the caller's structure was filled with
    seen,     \* history: the values of shown during the call
    sinks,    \* history: the values of sink during the call
    silent,   \* history: the compositor printed no response to dsSetResolution
    calls, moves   \* bounds

vars == <<sink, shown, pc, call, first, ret, answer, seen, sinks, silent,
          calls, moves>>
locals == <<pc, call, first, ret, answer, silent>>

Lit == shown # Dark
At(t, l) == pc[t] = l
Goto(t, l) == pc' = [pc EXCEPT ![t] = l]
Answer(t, r, a) ==
    /\ Goto(t, "done")
    /\ ret' = [ret EXCEPT ![t] = r]
    /\ answer' = [answer EXCEPT ![t] = a]
Hold == UNCHANGED <<sink, shown, seen, sinks, silent, calls, moves>>

\* The connector is NULL and is read all the same: the program ends here.
Crash(t) == Goto(t, "crashed") /\ UNCHANGED <<ret, answer>>

\* The device takes new values; every call under way may see them.
Device(s, m) ==
    /\ sink' = s /\ shown' = m
    /\ seen' = [t \in Callers |-> seen[t] \cup {m}]
    /\ sinks' = [t \in Callers |-> sinks[t] \cup {s}]

Init ==
    /\ sink = {} /\ shown = Dark
    /\ pc = [t \in Callers |-> "idle"]
    /\ call = [t \in Callers |-> NoCall]
    /\ first = [t \in Callers |-> {}]
    /\ ret = [t \in Callers |-> "none"]
    /\ answer = [t \in Callers |-> {}]
    /\ seen = [t \in Callers |-> {}] /\ sinks = [t \in Callers |-> {}]
    /\ silent = [t \in Callers |-> FALSE]
    /\ calls = 0 /\ moves = 0

\* The statics of dsGetEDID are not locked: the client does not overlap two
\* of its calls.
Call(t, c) ==
    /\ At(t, "idle") /\ calls < MaxCalls
    /\ c.op = "edid" => \A o \in Callers : call[o].op # "edid"
    /\ calls' = calls + 1
    /\ call' = [call EXCEPT ![t] = c]
    /\ seen' = [seen EXCEPT ![t] = {shown}]
    /\ sinks' = [sinks EXCEPT ![t] = {sink}]
    /\ Goto(t, c.op)
    /\ UNCHANGED <<sink, shown, first, ret, answer, silent, moves>>

Return(t) ==
    /\ At(t, "done")
    /\ Goto(t, "idle")
    /\ call' = [call EXCEPT ![t] = NoCall]
    /\ first' = [first EXCEPT ![t] = {}]
    /\ ret' = [ret EXCEPT ![t] = "none"]
    /\ answer' = [answer EXCEPT ![t] = {}]
    /\ seen' = [seen EXCEPT ![t] = {}] /\ sinks' = [sinks EXCEPT ![t] = {}]
    /\ silent' = [silent EXCEPT ![t] = FALSE]
    /\ UNCHANGED <<sink, shown, calls, moves>>

-----------------------------------------------------------------------------
(* dsSetResolution *)

SetMatch(t) ==
    /\ At(t, "set")
    /\ IF InTable(call[t].res) THEN Goto(t, "ask") /\ UNCHANGED <<ret, answer>>
                               ELSE Answer(t, "error", {})
    /\ UNCHANGED <<call, first>> /\ Hold

\* Mutant of SetAsk: the response is not looked at.
UncheckedSetAsk(t) ==
    /\ At(t, "ask")
    /\ \/ call[t].res \in sink /\ Device(sink, call[t].res)
       \/ UNCHANGED <<sink, shown, seen, sinks>>
    /\ Answer(t, "none", {})
    /\ UNCHANGED <<call, first, silent, calls, moves>>

\* The compositor sets a mode the display has and says "[0:", or refuses it
\* with another response.  Without any line of response the call succeeds, whatever
\* has become of the mode.
SetAsk(t) ==
    /\ At(t, "ask")
    /\ \/ /\ "response" \in Replies /\ call[t].res \in sink
          /\ Device(sink, call[t].res)
          /\ Answer(t, "none", {}) /\ UNCHANGED silent
       \/ /\ \/ "response" \in Replies /\ call[t].res \notin sink
             \/ "no console" \in Replies
          /\ Answer(t, "error", {})
          /\ UNCHANGED <<sink, shown, seen, sinks, silent>>
       \/ /\ "no response" \in Replies
          /\ \/ call[t].res \in sink /\ Device(sink, call[t].res)
             \/ UNCHANGED <<sink, shown, seen, sinks>>
          /\ Answer(t, "none", {}) /\ silent' = [silent EXCEPT ![t] = TRUE]
    /\ UNCHANGED <<call, first, calls, moves>>

-----------------------------------------------------------------------------
(* dsSetDisplayframerate and dsGetCurrentDisplayframerate *)

\* Of the caller's "1920x1080x60" the compositor is asked for 1920x1080px60, and
\* the call succeeds when the last line of the response has the name the caller
\* gave: what a compositor that echoes the "p" has set is reported as an error.
\* Without a response the line is empty.
SetDisplayframerate(t) ==
    /\ At(t, "setrate")
    /\ \/ /\ Replies \cap {"response", "no response"} # {}
          /\ call[t].res \in sink /\ call[t].res.scan = "p"
          /\ Device(sink, call[t].res)
          /\ \/ "response" \in Replies /\ Answer(t, "none", {})
             \/ Answer(t, "error", {})
       \/ /\ \/ Replies \cap {"no response", "no console"} # {}
             \/ call[t].res \notin sink \/ call[t].res.scan = "i"
          /\ Answer(t, "error", {})
          /\ UNCHANGED <<sink, shown, seen, sinks>>
    /\ UNCHANGED <<call, first, silent, calls, moves>>

\* The compositor names the mode it shows; without "mode" in its response the
\* call fails.
GetCurrentDisplayframerate(t) ==
    /\ At(t, "getrate")
    /\ \/ "response" \in Replies /\ Lit /\ Answer(t, "none", {shown})
       \/ /\ Replies \cap {"no response", "no console"} # {} \/ ~Lit
          /\ Answer(t, "error", {})
    /\ UNCHANGED <<call, first>> /\ Hold

-----------------------------------------------------------------------------
(* dsGetResolution *)

\* drmModeGetConnector: the connector has an encoder while it is lit.
GetConnector(t) ==
    /\ At(t, "get")
    /\ \/ /\ first' = [first EXCEPT ![t] = IF Lit THEN {HdmiEncoder} ELSE {}]
          /\ Goto(t, "crtc") /\ UNCHANGED <<ret, answer>>
       \/ OpenFails /\ Answer(t, "error", {}) /\ UNCHANGED first
    /\ UNCHANGED call /\ Hold

\* getCurrentDRMResolution searches the encoders for that of the connector and
\* clears its result at each other one, for good.  With a mode it does not know,
\* or no valid mode, it succeeds with an uninitialised answer.
GetCrtc(t) ==
    /\ At(t, "crtc")
    /\ IF first[t] # {} /\ HdmiEncoder = 1
       THEN IF Lit /\ Recognised(shown)
            THEN Answer(t, "none", {NameOf(shown)})
            ELSE \E any \in {m \in Modes : Recognised(m)} \cup {UnknownName} :
                   Answer(t, "none", {any})
       ELSE Answer(t, "none", {})
    /\ UNCHANGED <<call, first>> /\ Hold

-----------------------------------------------------------------------------
(* dsSupportedTvResolutions and dsGetEDID *)

\* The bits are added to those the caller's variable has.
Own(c) == IF c.res = Dark THEN {} ELSE {c.res}

SupportedTvResolutions(t) ==
    /\ At(t, "tv")
    /\ \/ Answer(t, "none", Own(call[t]) \cup TvResolutions(sink))
       \/ OpenFails /\ Answer(t, "error", Own(call[t]))
    /\ UNCHANGED <<call, first>> /\ Hold

\* The EDID of the display...
GetEDID(t) ==
    /\ At(t, "edid")
    /\ \/ /\ sink = {} \/ OpenFails
          /\ Answer(t, "error", {}) /\ UNCHANGED first
       \/ OpenFails /\ Crash(t) /\ UNCHANGED first
       \/ /\ sink # {}
          /\ first' = [first EXCEPT ![t] = sink]
          /\ Goto(t, "modes")
          /\ UNCHANGED <<ret, answer>>
    /\ UNCHANGED call /\ Hold

\* ... and, from a second read of the connector, the resolutions it supports.
GetSupported(t) ==
    /\ At(t, "modes")
    /\ \/ Answer(t, "none", HDMISupportedResolutions(sink))
       \/ OpenFails /\ Crash(t)
    /\ UNCHANGED <<call, first>> /\ Hold

-----------------------------------------------------------------------------
(* The cable, and the compositor that lights a display when it appears *)

MoveCable(s) ==
    /\ moves < MaxMoves /\ moves' = moves + 1
    /\ s # sink
    /\ Device(s, Dark)
    /\ UNCHANGED <<locals, calls>>

Light(m) ==
    /\ moves < MaxMoves /\ moves' = moves + 1
    /\ ~Lit
    /\ Device(sink, m)
    /\ UNCHANGED <<locals, calls>>

Step(t) ==
    \/ Return(t) \/ SetMatch(t) \/ SetAsk(t) \/ GetConnector(t) \/ GetCrtc(t)
    \/ SetDisplayframerate(t) \/ GetCurrentDisplayframerate(t)
    \/ SupportedTvResolutions(t) \/ GetEDID(t) \/ GetSupported(t)

Finished ==
    /\ \A t \in Callers : At(t, "crashed") \/ (At(t, "idle") /\ calls = MaxCalls)
    /\ UNCHANGED vars

Next ==
    \/ \E t \in Callers : Step(t) \/ \E c \in Calls : Call(t, c)
    \/ \E s \in Sinks \cup {{}} : MoveCable(s)
    \/ \E m \in sink : Light(m)
    \/ Finished

Spec == Init /\ [][Next]_vars

-----------------------------------------------------------------------------
(* Properties *)

Labels == {"idle", "set", "ask", "setrate", "get", "crtc", "getrate",
           "tv", "edid", "modes", "done", "crashed"}

\* Every variable holds a value of its type, and what is shown is a mode of
\* the display.
TypeOK ==
    /\ sink \in Sinks \cup {{}}
    /\ shown \in sink \cup {Dark}
    /\ pc \in [Callers -> Labels]
    /\ call \in [Callers -> ApiCalls \cup {NoCall}]
    /\ ret \in [Callers -> {"none", "error"}]
    /\ silent \in [Callers -> BOOLEAN]
    /\ calls \in 0..MaxCalls /\ moves \in 0..MaxMoves

Done(t, op) == At(t, "done") /\ call[t].op = op /\ ret[t] = "none"

\* When dsSetResolution or dsSetDisplayframerate succeeds, the mode it was asked
\* for was on the screen at some time during the call; or dsSetResolution had no
\* response at all from the compositor.
SetIsShown ==
    \A t \in Callers :
        /\ Done(t, "setrate") => call[t].res \in seen[t]
        /\ Done(t, "set") => call[t].res \in seen[t] \/ silent[t]

\* Over a call during which the screen was lit and showed modes with names
\* that RDK has, dsGetResolution gives the name of one that was shown, and so
\* does dsGetCurrentDisplayframerate.
NamedIsShown ==
    \A t \in Callers :
        (Done(t, "get") \/ Done(t, "getrate"))
                       /\ (\A m \in seen[t] : m # Dark /\ Recognised(m))
            => \E m \in seen[t] : answer[t] = {m}

\* For a display that stayed plugged, the progressive resolutions that
\* dsGetEDID lists are those of the table that the display has.  (Of the interlaced
\* ones ModeInfo loses the rate.)
ListIsOffered ==
    \A t \in Callers :
        Done(t, "edid") /\ Cardinality(sinks[t]) = 1
            => \A r \in kResolutions :
                 r.scan = "p" => (r \in answer[t] <=> r \in sink)

\* For a display that stayed plugged, the sizes that dsSupportedTvResolutions
\* reports, apart from the 480p it reports of every display, are those the caller's
\* variable had and exactly those of the display, apart from those it takes for 480p
\* and from 4096x2160.
Shape(m) == Mode(m.size, m.scan, 0)
Told(m) == m.size \notin {"1024", "smpte"} /\ m # Mode("1080", "i", 50)
TvMatchesSink ==
    \A t \in Callers :
        Done(t, "tv") /\ Cardinality(sinks[t]) = 1 =>
            {Shape(b) : b \in answer[t]} \ {Mode("480", "p", 0)}
              = {Shape(m) : m \in Own(call[t]) \cup {n \in sink : Told(n)}}
                  \ {Mode("480", "p", 0)}
=============================================================================
