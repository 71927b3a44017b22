------------------------------ MODULE SinkInfo ------------------------------
(***************************************************************************)
(* What the client learns of the display and of the output: dsGetEDID and  *)
(* dsGetEDIDBytes of dsDisplay.c, dsGetTVHDRCapabilities,                  *)
(* dsGetCurrentOutputSettings and dsGetMatrixCoefficients of               *)
(* dsVideoPort.c, over the parser of EdidParser.                           *)
(*                                                                         *)
(* None of these functions holds a lock and each makes several reads: the  *)
(* connector, which gives the identifier of the EDID blob, the blob, the   *)
(* EDID as the kernel parsed it, the list of loaded drivers, two files of  *)
(* the output.  The cable moves between any two of them.  The list of      *)
(* resolutions of dsGetEDID is in Resolution.                              *)
(***************************************************************************)
EXTENDS EdidParser, EdidDisplay

CONSTANTS
    Callers,   \* threads of the client
    Displays,  \* the displays that may be plugged
    Swapped,   \* those that are plugged while the program runs
    NoDisplay,
    Outputs,   \* the modes of the output, a subset of AllOutputs
    Ops,       \* the calls the client makes, a subset of AllOps
    MaxCalls,  \* bound on the number of calls
    MaxMoves   \* bound on what the cable and the output do by themselves

HdrModes == {"SDR", "HLG", "HDR10", "HDR10Plus", "DolbyVision"}
ColorSpaces == {"RGB", "YCbCr422", "YCbCr444", "YCbCr420", "other"}
AllOutputs == [hdr : HdrModes, color : ColorSpaces]
AllOps == {"edid", "bytes", "hdr", "settings", "matrix"}

ASSUME SinkAssumption ==
    /\ NoDisplay \notin Displays /\ Swapped \subseteq Displays
    /\ Ops \subseteq AllOps /\ Outputs \subseteq AllOutputs
    /\ MaxCalls \in Nat /\ MaxMoves \in Nat

ASSUME DisplayAssumption == \A d \in Displays : DisplayOK(d)

Sinks == Displays \cup {NoDisplay}

\* What EDID_Parse makes of each display.
Parsings == {[of |-> d, data |-> EDID_Parse(EdidBytes(d), EdidLength(d), Blank).data] :
               d \in Displays}
Parsed(d) == (CHOOSE p \in Parsings : p.of = d).data

\* A structure that malloc returned: its capabilities are anything.
Garbage == {[Blank EXCEPT !.hdr = h, !.dv = v] :
              h \in {{}, {"HDR10"}, {"HDR10", "HLG"}}, v \in {{}, {"Native"}}}

VARIABLES
    sink,     \* the display plugged, or NoDisplay
    blob,     \* identifier of the EDID blob of the connector
    driver,   \* whether the Dolby Vision driver is loaded
    output,   \* the mode of the output: HDR mode and colour space
    pc, call,
    held,     \* local: the identifier read from the connector
    edidData,     \* local: edid_data_t
    part,     \* local: what was read first of an answer in two parts
    ret,      \* local: "none" for dsERR_NONE, or an error
    answer,   \* local: what the caller gets
    plugged,  \* history: <<sink, blob>> during the call
    outputs,  \* history: output during the call
    unread,   \* history: the file with the HDR mode could not be read
    calls, moves   \* bounds

vars == <<sink, blob, driver, output, pc, call, held, edidData, part, ret, answer,
          plugged, outputs, unread, calls, moves>>
locals == <<pc, call, held, edidData, part, ret, answer>>
device == <<sink, blob, driver, output, plugged, outputs, calls, moves>>

NoAnswer == [given |-> FALSE]
At(t, l) == pc[t] = l
Goto(t, l) == pc' = [pc EXCEPT ![t] = l]
Return(t, r, a) ==
    /\ Goto(t, "done")
    /\ ret' = [ret EXCEPT ![t] = r]
    /\ answer' = [answer EXCEPT ![t] = a]

Init ==
    /\ sink \in Sinks /\ blob = 0
    /\ driver \in BOOLEAN
    /\ output \in Outputs
    /\ pc = [t \in Callers |-> "idle"]
    /\ call = [t \in Callers |-> "none"]
    /\ held = [t \in Callers |-> 0]
    /\ edidData = [t \in Callers |-> Blank]
    /\ part = [t \in Callers |-> "none"]
    /\ ret = [t \in Callers |-> "none"]
    /\ answer = [t \in Callers |-> NoAnswer]
    /\ plugged = [t \in Callers |-> {}]
    /\ outputs = [t \in Callers |-> {}]
    /\ unread = [t \in Callers |-> FALSE]
    /\ calls = 0 /\ moves = 0

Call(t, op) ==
    /\ At(t, "idle") /\ calls < MaxCalls
    /\ calls' = calls + 1
    /\ Goto(t, op)
    /\ call' = [call EXCEPT ![t] = op]
    /\ plugged' = [plugged EXCEPT ![t] = {<<sink, blob>>}]
    /\ outputs' = [outputs EXCEPT ![t] = {output}]
    /\ UNCHANGED <<sink, blob, driver, output, held, edidData, part, ret, answer, unread,
                   moves>>

Leave(t) ==
    /\ At(t, "done")
    /\ Goto(t, "idle")
    /\ call' = [call EXCEPT ![t] = "none"]
    /\ held' = [held EXCEPT ![t] = 0]
    /\ edidData' = [edidData EXCEPT ![t] = Blank]
    /\ part' = [part EXCEPT ![t] = "none"]
    /\ ret' = [ret EXCEPT ![t] = "none"]
    /\ answer' = [answer EXCEPT ![t] = NoAnswer]
    /\ plugged' = [plugged EXCEPT ![t] = {}]
    /\ outputs' = [outputs EXCEPT ![t] = {}]
    /\ unread' = [unread EXCEPT ![t] = FALSE]
    /\ UNCHANGED <<sink, blob, driver, output, calls, moves>>

-----------------------------------------------------------------------------
(* dsGetEDID, dsGetEDIDBytes and dsGetTVHDRCapabilities *)

\* openDefaultDRMDevice may fail.
DeviceFails(t) ==
    /\ pc[t] \in {"edid", "bytes", "hdr"}
    /\ Return(t, "general", NoAnswer)
    /\ UNCHANGED <<call, held, edidData, part, unread>> /\ UNCHANGED device

\* No connector is found, whatever is plugged.  dsGetEDID and dsGetEDIDBytes read
\* through the null pointer of dsDRMGetHDMIConnector, dsGetTVHDRCapabilities does not.
NoConnector(t) ==
    /\ \/ /\ At(t, "hdr")
          /\ Return(t, "invalid state", NoAnswer)
       \/ /\ pc[t] \in {"edid", "bytes"}
          /\ Goto(t, "crashed")
          /\ UNCHANGED <<ret, answer>>
    /\ UNCHANGED <<call, held, edidData, part, unread>> /\ UNCHANGED device

\* drmModeGetConnector.  dsGetEDID clears edid_data_t (calloc),
\* dsGetTVHDRCapabilities does not (malloc).
GetConnector(t) ==
    /\ pc[t] \in {"edid", "bytes", "hdr"}
    /\ \/ /\ sink = NoDisplay
          /\ Return(t, "invalid state", NoAnswer)
          /\ UNCHANGED <<held, edidData>>
       \/ /\ sink # NoDisplay
          /\ Goto(t, "blob")
          /\ held' = [held EXCEPT ![t] = blob]
          /\ \E d \in IF At(t, "hdr") THEN Garbage ELSE {Blank} :
               edidData' = [edidData EXCEPT ![t] = d]
          /\ UNCHANGED <<ret, answer>>
    /\ UNCHANGED <<call, part, unread>> /\ UNCHANGED device

\* The blob is gone once the display is; then EDID_Parse gets no bytes, its status
\* is ignored and the structure stays what it was.
GetBlob(t) ==
    /\ At(t, "blob")
    /\ LET exists == held[t] = blob /\ sink # NoDisplay
       IN /\ edidData' = [edidData EXCEPT ![t] = IF exists THEN Parsed(sink) ELSE @]
          /\ IF call[t] = "bytes"
             THEN Return(t, "none", IF exists THEN [given |-> TRUE, of |-> sink] ELSE NoAnswer)
             ELSE Goto(t, "parsed") /\ UNCHANGED <<ret, answer>>
    /\ UNCHANGED <<call, held, part, unread>> /\ UNCHANGED device

\* isDisplaySinkHDMI asks the kernel, through a command that may not run, for the
\* vendor of the display plugged now: a display without the block of HDMI is DVI.
AnswerEDID(t) ==
    /\ At(t, "parsed") /\ call[t] = "edid"
    /\ \E opened \in BOOLEAN :
         Return(t, "none",
              [given |-> TRUE, name |-> edidData[t].name, address |-> edidData[t].address,
               hdmi |-> opened /\ sink # NoDisplay /\ Declares(sink, "hdmi") # {}])
    /\ UNCHANGED <<call, held, edidData, part, unread>> /\ UNCHANGED device

\* The capabilities of the block of static metadata, and Dolby Vision where the
\* display and the box have it.
Standards(data, loaded) ==
    (data.hdr \cap {"HDR10", "HLG"})
        \cup (IF data.dv # {} /\ loaded THEN {"DolbyVision"} ELSE {})

AnswerHDR(t) ==
    /\ At(t, "parsed") /\ call[t] = "hdr"
    /\ Return(t, "none",
              [given |-> TRUE, standards |-> Standards(edidData[t], driver)])
    /\ UNCHANGED <<call, held, edidData, part, unread>> /\ UNCHANGED device

-----------------------------------------------------------------------------
(* dsGetCurrentOutputSettings and dsGetMatrixCoefficients *)

\* Mutant of EotfOf: HLG is not tested for.
EotfWithoutHlg(hdr) ==
    CASE hdr = "SDR" -> "SDR"
      [] hdr = "HDR10Plus" -> "unassigned"
      [] OTHER -> "HDR10"

\* The third test of the chain lacks a negation: everything but HDR10Plus passes
\* it, and HDR10Plus passes none.
EotfOf(hdr) ==
    CASE hdr = "SDR" -> "SDR"
      [] hdr = "HLG" -> "HLG"
      [] hdr = "HDR10Plus" -> "unassigned"
      [] OTHER -> "HDR10"

MatrixOf(hdr) ==
    CASE hdr = "SDR" -> "BT_709"
      [] hdr = "HDR10Plus" -> "unassigned"
      [] OTHER -> "BT_2020_CL"

ColorOf(color) == IF color = "other" THEN "AUTO" ELSE color

\* A file without a comma, or that cannot be read, is written to through the null
\* pointer of strchr.
ReadColor(t) ==
    /\ At(t, "settings")
    /\ \/ /\ part' = [part EXCEPT ![t] = ColorOf(output.color)]
          /\ Goto(t, "eotf")
       \/ /\ Goto(t, "crashed")
          /\ UNCHANGED part
    /\ UNCHANGED <<call, held, edidData, ret, answer, unread>> /\ UNCHANGED device

\* What the buffer holds when the file with the HDR mode cannot be read passes the
\* third test as well.
HdrRead(readable, hdr) == IF readable THEN hdr ELSE "HDR10"

ReadEotf(t) ==
    /\ At(t, "eotf")
    /\ \E readable \in BOOLEAN :
         LET hdr == HdrRead(readable, output.hdr)
         IN /\ Return(t, "none", [given |-> TRUE, color |-> part[t],
                                  eotf |-> EotfOf(hdr), matrix |-> MatrixOf(hdr)])
            /\ unread' = [unread EXCEPT ![t] = ~readable]
    /\ UNCHANGED <<call, held, edidData, part>> /\ UNCHANGED device

ReadMatrix(t) ==
    /\ At(t, "matrix")
    /\ \E readable \in BOOLEAN :
         /\ Return(t, "none", [given |-> TRUE,
                               matrix |-> MatrixOf(HdrRead(readable, output.hdr))])
         /\ unread' = [unread EXCEPT ![t] = ~readable]
    /\ UNCHANGED <<call, held, edidData, part>> /\ UNCHANGED device

-----------------------------------------------------------------------------
(* The cable and the output *)

MoveCable(d) ==
    /\ moves < MaxMoves /\ moves' = moves + 1
    /\ d # sink
    /\ sink' = d /\ blob' = blob + 1
    /\ plugged' = [t \in Callers |-> plugged[t] \cup {<<d, blob + 1>>}]
    /\ UNCHANGED <<driver, output, outputs, unread, calls>> /\ UNCHANGED locals

SwitchOutput(o) ==
    /\ moves < MaxMoves /\ moves' = moves + 1
    /\ output' = o
    /\ outputs' = [t \in Callers |-> outputs[t] \cup {o}]
    /\ UNCHANGED <<sink, blob, driver, plugged, unread, calls>> /\ UNCHANGED locals

Step(t) ==
    \/ Leave(t) \/ DeviceFails(t) \/ NoConnector(t) \/ GetConnector(t) \/ GetBlob(t)
    \/ AnswerEDID(t) \/ AnswerHDR(t) \/ ReadColor(t) \/ ReadEotf(t) \/ ReadMatrix(t)

Finished ==
    /\ \A t \in Callers : (At(t, "idle") /\ calls = MaxCalls) \/ At(t, "crashed")
    /\ UNCHANGED vars

Next ==
    \/ \E t \in Callers : Step(t) \/ \E op \in Ops : Call(t, op)
    \/ \E d \in Swapped \cup {NoDisplay} : MoveCable(d)
    \/ \E o \in Outputs : SwitchOutput(o)
    \/ Finished

Spec == Init /\ [][Next]_vars

-----------------------------------------------------------------------------
(* Properties *)

Done(t, op) == At(t, "done") /\ call[t] = op /\ ret[t] = "none"
\* One display was plugged all the time.
Steady(t) == Cardinality(plugged[t]) = 1

\* The extensions that the parser reaches: one alone, or those after a map.
Readable(d) == Len(d.exts) <= 1 \/ d.map # "none"

\* What a display declares that dsGetTVHDRCapabilities has a name for: Dolby Vision
\* in a version with a length of that version, if the driver is there.
DeclaredStandards(d, loaded) ==
    (DeclaredEotfs(d) \cap {"HDR10", "HLG"})
      \cup {s \in {"DolbyVision"} :
              loaded /\ \E i \in Declares(d, "dolby") :
                LET b == BlockAt(d, i)
                IN \/ b.version = 0 /\ b.length = 25
                   \/ b.version = 1 /\ b.length \in {11, 14}
                   \/ b.version = 2 /\ b.length >= 11}

\* For a display that stays plugged, dsGetTVHDRCapabilities gives what the display
\* declares, wherever the blocks stand and however many extensions there are.
TvHdrIsDeclared ==
    \A t \in Callers :
        Done(t, "hdr") /\ Steady(t) /\ Readable(sink) =>
            answer[t].standards = DeclaredStandards(sink, driver)

\* The address is compared in the three numbers that the parser reads from the
\* address, for displays whose only vendor block is that of HDMI.
AddressOf(d, address) ==
    Readable(d) /\ Declares(d, "forum") = {} =>
        \A i \in {1, 2, 4} : address[i] = DeclaredAddress(d)[i]

\* Whatever the cable does, the name and the address that dsGetEDID gives are those
\* of one display that was plugged during the call, or none at all, and the device is
\* HDMI only if a display that was plugged says so.
EdidIsOfADisplay ==
    \A t \in Callers :
        Done(t, "edid") =>
            /\ \/ ~Steady(t) /\ answer[t].name = 0 /\ answer[t].address = <<0, 0, 0, 0>>
               \/ \E p \in plugged[t] : /\ p[1] # NoDisplay /\ p[1].name = answer[t].name
                                        /\ AddressOf(p[1], answer[t].address)
            /\ answer[t].hdmi =>
                 \E p \in plugged[t] : p[1] # NoDisplay /\ Declares(p[1], "hdmi") # {}

\* The codes of an extension that count: the native codes, and where no detailed
\* timing is native the first code of all, native or not.
CountingCodes(blocks, natives) ==
    {vic \in 1..127 : \E i \in VideoBlocks(blocks) :
       \/ vic + 128 \in Range(blocks[i].codes) \cap NativeCodes
       \/ /\ natives = 0 /\ blocks[i].codes # <<>>
          /\ \A j \in VideoBlocks(blocks) : j < i => blocks[j].codes = <<>>
          /\ blocks[i].codes[1] \notin NativeCodes
          /\ vic = blocks[i].codes[1]}

\* A native timing is one the display declares: the format of a code that counts if
\* a video block has one, else the first timing of the EDID, else, when its clock
\* cannot be read, one of an extension.
NativeOf(d, native) ==
    LET vics == UNION {CountingCodes(d.exts[e], d.natives) : e \in DOMAIN d.exts}
    IN IF vics # {} THEN native \in {[from |-> "vic", at |-> vic] : vic \in vics}
       ELSE IF ~d.odd THEN native = Detailed(54)
       ELSE native.from = IF d.natives > 0 /\ d.exts # <<>> THEN "dtd" ELSE "none"

\* The video blocks of the display have no other codes than these, native or not.
CodesWithin(d, vics) ==
    \A place \in Declares(d, "video") :
        Range(BlockAt(d, place).codes)
            \subseteq vics \cup ({vic + 128 : vic \in vics} \cap NativeCodes)

\* The codes whose row of the table holds their own format: those before the rows
\* that the table leaves out.
ListedCodes == (1..14) \ {8}

\* The native timing that the parser settles on is one the display declares, for
\* displays whose codes are all below those that the table leaves out.  (From code 15
\* on a code is given the format of another one: VicFormat.)
NativeIsDeclared ==
    \A t \in Callers :
        At(t, "parsed") /\ Steady(t) /\ Readable(sink) /\ CodesWithin(sink, ListedCodes)
            => NativeOf(sink, edidData[t].native)

\* The colour space and the transfer function of dsGetCurrentOutputSettings were
\* each true during the call, and both at once if the output did not change, for
\* outputs other than HDR10Plus and Dolby Vision and files that can be read.
OutputIsReported ==
    \A t \in Callers :
        /\ Done(t, "settings") /\ ~unread[t]
        /\ \A o \in outputs[t] : o.hdr \in {"SDR", "HLG", "HDR10"}
        =>
        /\ \E o \in outputs[t] : ColorOf(o.color) = answer[t].color
        /\ \E o \in outputs[t] : o.hdr = answer[t].eotf
        /\ Cardinality(outputs[t]) = 1 =>
             \E o \in outputs[t] :
                 ColorOf(o.color) = answer[t].color /\ o.hdr = answer[t].eotf

\* A parsed name fits monitor_name, and the fields hold values of their types.
DataOK(data) ==
    /\ data.name \in 0..13 /\ data.native.from \in {"none", "dtd", "vic"}
    /\ data.hdr \subseteq {"SDR", "Traditional_HDR", "HDR10", "HLG", "HDR10_PLUS",
                          "DolbyVision"}

\* Every variable holds a value of its type.
TypeOK ==
    /\ sink \in Sinks /\ blob \in 0..MaxMoves
    /\ driver \in BOOLEAN
    /\ output \in Outputs
    /\ pc \in [Callers -> {"idle", "blob", "parsed", "eotf", "done", "crashed"} \cup AllOps]
    /\ call \in [Callers -> AllOps \cup {"none"}]
    /\ held \in [Callers -> 0..MaxMoves]
    /\ \A t \in Callers : DataOK(edidData[t])
    /\ part \in [Callers -> {ColorOf(c) : c \in ColorSpaces} \cup {"none"}]
    /\ unread \in [Callers -> BOOLEAN]
    /\ ret \in [Callers -> {"none", "general", "invalid state"}]
    /\ calls \in 0..MaxCalls /\ moves \in 0..MaxMoves
=============================================================================
