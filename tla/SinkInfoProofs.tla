--------------------------- MODULE SinkInfoProofs ---------------------------
(* Theorems about SinkInfo, for any displays, outputs, callers and calls. *)
EXTENDS SinkInfo, EdidParserProofs, FiniteSetTheorems, SequenceTheorems, TLAPS

(***************************************************************************)
(* The invariant: the output is always among those seen since the call     *)
(* began, a call runs the code of its operation, and each part of an       *)
(* answer was read from an output that was seen.                           *)
(***************************************************************************)
LocalTypes ==
    /\ DOMAIN pc = Callers /\ DOMAIN call = Callers /\ DOMAIN part = Callers
    /\ DOMAIN answer = Callers /\ DOMAIN outputs = Callers /\ DOMAIN ret = Callers
    /\ DOMAIN unread = Callers

ColorRead(t, c) == \E o \in outputs[t] : ColorOf(o.color) = c
EotfRead(t, e) == \E o \in outputs[t] : EotfOf(o.hdr) = e

Reads(t) ==
    /\ IsFiniteSet(outputs[t])
    /\ pc[t] # "idle" => output \in outputs[t]
    /\ pc[t] \in {"edid", "bytes", "hdr", "blob", "parsed", "matrix"} => call[t] # "settings"
    /\ pc[t] = "settings" => call[t] = "settings"
    /\ pc[t] = "eotf" => call[t] = "settings" /\ ColorRead(t, part[t])
    /\ pc[t] = "done" /\ call[t] = "settings" =>
         ColorRead(t, answer[t].color) /\ (unread[t] \/ EotfRead(t, answer[t].eotf))

ReadsInv == LocalTypes /\ \A t \in Callers : Reads(t)

\* At the start no call is under way.
LEMMA InitReads == Init => ReadsInv
<1> SUFFICES ASSUME Init PROVE ReadsInv
  OBVIOUS
<1>1. LocalTypes
  BY DEF Init, LocalTypes
<1>2. \A t \in Callers : pc[t] = "idle" /\ outputs[t] = {}
  BY DEF Init
<1> QED
  BY <1>1, <1>2, FS_EmptySet DEF ReadsInv, Reads

\* The steps of a call that do not read the output.
Elsewhere(t) ==
    \/ DeviceFails(t) \/ NoConnector(t) \/ GetConnector(t) \/ GetBlob(t)
    \/ AnswerEDID(t) \/ AnswerHDR(t) \/ ReadMatrix(t)

\* They leave what was seen of the output, and the other calls, alone.
LEMMA ElsewhereSteps ==
    ASSUME ReadsInv, NEW t \in Callers, Elsewhere(t)
    PROVE  /\ UNCHANGED <<call, part, output, outputs>>
           /\ pc[t] # "idle" /\ call[t] # "settings"
           /\ pc'[t] \in {"blob", "parsed", "done", "crashed"}
           /\ LocalTypes'
           /\ \A o \in Callers \ {t} : /\ pc'[o] = pc[o] /\ ret'[o] = ret[o]
                                       /\ answer'[o] = answer[o] /\ unread'[o] = unread[o]
<1>1. CASE DeviceFails(t) \/ AnswerEDID(t) \/ AnswerHDR(t) \/ ReadMatrix(t)
  BY <1>1 DEF DeviceFails, AnswerEDID, AnswerHDR, ReadMatrix, Return, Goto, At, device,
     ReadsInv, Reads, LocalTypes
<1>2. CASE GetConnector(t)
  BY <1>2 DEF GetConnector, Return, Goto, At, device, ReadsInv, Reads, LocalTypes
<1>3. CASE GetBlob(t)
  BY <1>3 DEF GetBlob, Return, Goto, At, device, ReadsInv, Reads, LocalTypes
<1>4. CASE NoConnector(t)
  BY <1>4 DEF NoConnector, Return, Goto, At, device, ReadsInv, Reads, LocalTypes
<1> QED
  BY <1>1, <1>2, <1>3, <1>4 DEF Elsewhere

\* Every step keeps the invariant: what was seen is never forgotten during a call.
LEMMA NextReads == ReadsInv /\ [Next]_vars => ReadsInv'
<1> SUFFICES ASSUME ReadsInv, [Next]_vars PROVE ReadsInv'
  OBVIOUS
<1>1. ASSUME NEW t \in Callers, NEW op \in Ops, Call(t, op)
      PROVE  ReadsInv'
  <2>1. /\ pc' = [pc EXCEPT ![t] = op] /\ call' = [call EXCEPT ![t] = op]
        /\ outputs' = [outputs EXCEPT ![t] = {output}]
        /\ UNCHANGED <<output, part, answer, ret, unread>>
    BY <1>1 DEF Call, Goto
  <2>2. op \in AllOps
    BY SinkAssumption
  <2>3. Reads(t)'
    BY <2>1, <2>2, FS_Singleton DEF ReadsInv, LocalTypes, Reads, AllOps
  <2>4. \A o \in Callers \ {t} : Reads(o)'
    BY <2>1 DEF ReadsInv, LocalTypes, Reads, ColorRead, EotfRead
  <2> QED
    BY <2>1, <2>3, <2>4 DEF ReadsInv, LocalTypes
<1>2. ASSUME NEW t \in Callers, Leave(t)
      PROVE  ReadsInv'
  <2>1. /\ pc' = [pc EXCEPT ![t] = "idle"] /\ call' = [call EXCEPT ![t] = "none"]
        /\ outputs' = [outputs EXCEPT ![t] = {}] /\ part' = [part EXCEPT ![t] = "none"]
        /\ answer' = [answer EXCEPT ![t] = NoAnswer] /\ ret' = [ret EXCEPT ![t] = "none"]
        /\ unread' = [unread EXCEPT ![t] = FALSE]
        /\ UNCHANGED output
    BY <1>2 DEF Leave, Goto
  <2>2. Reads(t)'
    BY <2>1, FS_EmptySet DEF ReadsInv, LocalTypes, Reads
  <2>3. \A o \in Callers \ {t} : Reads(o)'
    BY <2>1 DEF ReadsInv, LocalTypes, Reads, ColorRead, EotfRead
  <2> QED
    BY <2>1, <2>2, <2>3 DEF ReadsInv, LocalTypes
<1>3. ASSUME NEW t \in Callers, Elsewhere(t)
      PROVE  ReadsInv'
  <2>1. Reads(t)'
    BY <1>3, ElsewhereSteps DEF ReadsInv, Reads
  <2>2. \A o \in Callers \ {t} : Reads(o)'
    BY <1>3, ElsewhereSteps DEF ReadsInv, Reads, ColorRead, EotfRead
  <2> QED
    BY <1>3, <2>1, <2>2, ElsewhereSteps DEF ReadsInv
<1>4. ASSUME NEW t \in Callers, ReadColor(t)
      PROVE  ReadsInv'
  <2>1. /\ pc[t] = "settings"
        /\ \/ /\ pc' = [pc EXCEPT ![t] = "eotf"]
              /\ part' = [part EXCEPT ![t] = ColorOf(output.color)]
           \/ pc' = [pc EXCEPT ![t] = "crashed"] /\ part' = part
        /\ UNCHANGED <<output, outputs, call, answer, ret, unread>>
    BY <1>4 DEF ReadColor, Goto, At, device
  <2>2. Reads(t)'
    BY <2>1 DEF ReadsInv, LocalTypes, Reads, ColorRead
  <2>3. \A o \in Callers \ {t} : Reads(o)'
    BY <2>1 DEF ReadsInv, LocalTypes, Reads, ColorRead, EotfRead
  <2> QED
    BY <2>1, <2>2, <2>3 DEF ReadsInv, LocalTypes
<1>5. ASSUME NEW t \in Callers, ReadEotf(t)
      PROVE  ReadsInv'
  <2>1. /\ pc[t] = "eotf" /\ pc' = [pc EXCEPT ![t] = "done"]
        /\ ret' = [ret EXCEPT ![t] = "none"]
        /\ UNCHANGED <<output, outputs, call, part>>
    BY <1>5 DEF ReadEotf, Return, Goto, At, device
  <2>7. PICK readable \in BOOLEAN :
          LET hdr == HdrRead(readable, output.hdr)
          IN /\ answer' = [answer EXCEPT ![t] =
                             [given |-> TRUE, color |-> part[t], eotf |-> EotfOf(hdr),
                              matrix |-> MatrixOf(hdr)]]
             /\ unread' = [unread EXCEPT ![t] = ~readable]
    BY <1>5 DEF ReadEotf, Return
  <2> DEFINE h == HdrRead(readable, output.hdr)
             r == ~readable
  <2>2. /\ answer' = [answer EXCEPT ![t] =
                        [given |-> TRUE, color |-> part[t], eotf |-> EotfOf(h),
                         matrix |-> MatrixOf(h)]]
        /\ unread' = [unread EXCEPT ![t] = r]
        /\ r \/ h = output.hdr
    BY <2>7 DEF HdrRead
  <2> HIDE DEF h, r
  <2>3. LocalTypes'
    BY <2>1, <2>2 DEF ReadsInv, LocalTypes
  <2>4. /\ answer'[t].color = part[t] /\ answer'[t].eotf = EotfOf(h)
        /\ unread'[t] = r /\ output \in outputs[t]
    BY <2>1, <2>2 DEF ReadsInv, LocalTypes, Reads
  <2>5. Reads(t)'
    BY <2>1, <2>2, <2>4 DEF ReadsInv, LocalTypes, Reads, ColorRead, EotfRead
  <2>6. \A o \in Callers \ {t} : Reads(o)'
    BY <2>1, <2>2 DEF ReadsInv, LocalTypes, Reads, ColorRead, EotfRead
  <2> QED
    BY <2>3, <2>5, <2>6 DEF ReadsInv
<1>6. ASSUME NEW o \in Outputs, SwitchOutput(o)
      PROVE  ReadsInv'
  <2>1. /\ output' = o /\ outputs' = [t \in Callers |-> outputs[t] \cup {o}]
        /\ UNCHANGED <<pc, call, part, answer, ret, unread>>
    BY <1>6 DEF SwitchOutput, locals
  <2>2. ASSUME NEW t \in Callers
        PROVE  Reads(t)'
    <3>1. IsFiniteSet(outputs[t] \cup {o})
      BY FS_AddElement DEF ReadsInv, Reads
    <3> QED
      BY <2>1, <3>1 DEF ReadsInv, Reads, ColorRead, EotfRead
  <2> QED
    BY <2>1, <2>2 DEF ReadsInv, LocalTypes
<1>7. CASE UNCHANGED <<pc, call, part, answer, ret, output, outputs, unread>>
  BY <1>7 DEF ReadsInv, LocalTypes, Reads, ColorRead, EotfRead
<1>8. CASE \E d \in Swapped \cup {NoDisplay} : MoveCable(d)
  BY <1>7, <1>8 DEF MoveCable, locals
<1>9. CASE Finished \/ UNCHANGED vars
  BY <1>7, <1>9 DEF Finished, vars
<1> QED
  BY <1>1, <1>2, <1>3, <1>4, <1>5, <1>6, <1>8, <1>9 DEF Next, Step, Elsewhere

\* dsGetCurrentOutputSettings gives a colour space and a transfer function that were
\* each true during the call, and both at once of an output that stayed, however
\* often the output is switched between its reads and whatever other calls do.
THEOREM SettingsAreOfTheOutput == Spec => []OutputIsReported
<1>1. ReadsInv => OutputIsReported
  <2> SUFFICES ASSUME ReadsInv, NEW t \in Callers, Done(t, "settings"), ~unread[t],
                      \A o \in outputs[t] : o.hdr \in {"SDR", "HLG", "HDR10"}
               PROVE  /\ \E o \in outputs[t] : ColorOf(o.color) = answer[t].color
                      /\ \E o \in outputs[t] : o.hdr = answer[t].eotf
                      /\ Cardinality(outputs[t]) = 1 =>
                           \E o \in outputs[t] : ColorOf(o.color) = answer[t].color
                                                   /\ o.hdr = answer[t].eotf
    BY DEF OutputIsReported
  <2>1. PICK c \in outputs[t] : ColorOf(c.color) = answer[t].color
    BY DEF ReadsInv, Reads, Done, At, ColorRead
  <2>2. PICK e \in outputs[t] : EotfOf(e.hdr) = answer[t].eotf
    BY DEF ReadsInv, Reads, Done, At, EotfRead
  <2>3. e.hdr = answer[t].eotf
    BY <2>2 DEF EotfOf
  <2>4. ASSUME Cardinality(outputs[t]) = 1
        PROVE  c = e
    <3>1. PICK x : outputs[t] = {x}
      BY <2>4, FS_Singleton DEF ReadsInv, Reads
    <3> QED
      BY <3>1
  <2> QED
    BY <2>1, <2>3, <2>4
<1> QED
  BY <1>1, InitReads, NextReads, PTL DEF Spec

-----------------------------------------------------------------------------
(* The getters of the EDID *)

(***************************************************************************)
(* The invariant: the display of now is among those plugged since the call *)
(* began, and edid_data_t, once read, is what the parser makes of one of   *)
(* those (OfOneParse); only when the blob was gone, because the cable      *)
(* moved, is it what it was before.                                        *)
(***************************************************************************)
Moved(t) == \E p, q \in plugged[t] : p # q

\* What edid_data_t is before the parser fills it.
Unparsed(t) ==
    /\ edidData[t] \in Garbage \cup {Blank}
    /\ call[t] = "edid" => edidData[t] = Blank

OfOneParse(t) ==
    \/ Moved(t) /\ Unparsed(t)
    \/ \E p \in plugged[t] : p[1] \in Displays /\ edidData[t] = Parsed(p[1])

\* The call runs the code of its operation.
RunsItsOp(t) ==
    /\ pc[t] \in AllOps => call[t] = pc[t]
    /\ pc[t] = "eotf" => call[t] = "settings"
    /\ pc[t] = "parsed" => call[t] \in {"edid", "hdr"}

\* Before the blob is read, its identifier is that of a display that was plugged.
Holds(t) ==
    pc[t] = "blob" => /\ call[t] \in {"edid", "bytes", "hdr"}
                      /\ Unparsed(t)
                      /\ \E p \in plugged[t] : p[1] \in Displays /\ p[2] = held[t]

Answered(t) ==
    /\ pc[t] = "parsed" => OfOneParse(t)
    /\ Done(t, "hdr") =>
         OfOneParse(t) /\ answer[t].standards = Standards(edidData[t], driver)
    /\ Done(t, "edid") =>
         /\ OfOneParse(t)
         /\ answer[t].name = edidData[t].name
         /\ answer[t].address = edidData[t].address
         /\ answer[t].hdmi =>
              \E p \in plugged[t] : p[1] # NoDisplay /\ Declares(p[1], "hdmi") # {}
    /\ Done(t, "bytes") /\ answer[t].given => \E p \in plugged[t] : p[1] = answer[t].of

Plugged(t) ==
    /\ IsFiniteSet(plugged[t])
    /\ pc[t] # "idle" => <<sink, blob>> \in plugged[t]

Parses(t) == Plugged(t) /\ RunsItsOp(t) /\ Holds(t) /\ Answered(t)

SinkLocals ==
    /\ DOMAIN pc = Callers /\ DOMAIN call = Callers /\ DOMAIN held = Callers
    /\ DOMAIN edidData = Callers /\ DOMAIN answer = Callers /\ DOMAIN ret = Callers
    /\ DOMAIN plugged = Callers

ParseInv == sink \in Sinks /\ SinkLocals /\ \A t \in Callers : Parses(t)

\* At the start no call is under way.
LEMMA InitParses == Init => ParseInv
<1> SUFFICES ASSUME Init PROVE ParseInv
  OBVIOUS
<1>1. sink \in Sinks /\ SinkLocals
  BY DEF Init, SinkLocals
<1>2. ASSUME NEW t \in Callers
      PROVE  Parses(t)
  <2>1. pc[t] = "idle" /\ plugged[t] = {}
    BY DEF Init
  <2> QED
    BY <2>1, FS_EmptySet DEF Parses, Plugged, RunsItsOp, Holds, Answered, Done, At, AllOps
<1> QED
  BY <1>1, <1>2 DEF ParseInv

\* What a step of another call leaves alone keeps what is said of a call.
LEMMA Untouched ==
    ASSUME NEW t \in Callers, Parses(t),
           UNCHANGED <<pc[t], call[t], held[t], edidData[t], answer[t], ret[t],
                       plugged[t], sink, blob, driver>>
    PROVE  Parses(t)'
<1>1. Plugged(t)' /\ RunsItsOp(t)'
  BY DEF Parses, Plugged, RunsItsOp
<1>2. Holds(t)'
  BY DEF Parses, Holds, OfOneParse, Unparsed, Moved, Done, At
<1>3. Answered(t)'
  BY DEF Parses, Answered, OfOneParse, Unparsed, Moved, Done, At
<1> QED
  BY <1>1, <1>2, <1>3 DEF Parses

\* So does the cable: what was plugged is not forgotten.
LEMMA CableParses ==
    ASSUME ParseInv, NEW d \in Swapped \cup {NoDisplay}, MoveCable(d)
    PROVE  ParseInv'
<1>1. /\ sink' = d /\ blob' = blob + 1
      /\ plugged' = [t \in Callers |-> plugged[t] \cup {<<d, blob + 1>>}]
      /\ UNCHANGED <<driver, pc, call, held, edidData, answer, ret>>
  BY DEF MoveCable, locals
<1>2. sink' \in Sinks
  BY <1>1, SinkAssumption DEF Sinks
<1>3. ASSUME NEW t \in Callers
      PROVE  Parses(t)'
  <2>1. Parses(t)
    BY DEF ParseInv
  <2>2. plugged'[t] = plugged[t] \cup {<<sink', blob'>>} /\ plugged[t] \subseteq plugged'[t]
    BY <1>1
  <2>3. IsFiniteSet(plugged[t] \cup {<<sink', blob'>>})
    BY <2>1, FS_AddElement DEF Parses, Plugged
  <2>4. Plugged(t)'
    BY <2>2, <2>3 DEF Plugged
  <2>5. RunsItsOp(t)' /\ Holds(t)'
    BY <1>1, <2>1, <2>2 DEF Parses, RunsItsOp, Holds, Unparsed
  <2>6. OfOneParse(t) => OfOneParse(t)'
    BY <1>1, <2>2 DEF OfOneParse, Moved, Unparsed
  <2>7. Answered(t)'
    BY <1>1, <2>1, <2>2, <2>6 DEF Parses, Answered, Done, At
  <2> QED
    BY <2>4, <2>5, <2>7 DEF Parses
<1>4. SinkLocals'
  BY <1>1 DEF ParseInv, SinkLocals
<1> QED
  BY <1>2, <1>3, <1>4 DEF ParseInv

\* Every step keeps the invariant.
LEMMA NextParses == ParseInv /\ [Next]_vars => ParseInv'
<1> SUFFICES ASSUME ParseInv, [Next]_vars PROVE ParseInv'
  OBVIOUS
<1>1. ASSUME NEW t \in Callers, NEW op \in Ops, Call(t, op)
      PROVE  ParseInv'
  <2>1. /\ pc' = [pc EXCEPT ![t] = op] /\ call' = [call EXCEPT ![t] = op]
        /\ plugged' = [plugged EXCEPT ![t] = {<<sink, blob>>}]
        /\ UNCHANGED <<sink, blob, driver, held, edidData, ret, answer>>
    BY <1>1 DEF Call, Goto
  <2>2. op \in AllOps
    BY SinkAssumption
  <2>3. IsFiniteSet({<<sink, blob>>})
    BY FS_Singleton
  <2>4. Parses(t)'
    BY <2>1, <2>2, <2>3 DEF ParseInv, SinkLocals, Parses, Plugged, RunsItsOp, Holds,
       Answered, Done, At, AllOps
  <2>5. \A o \in Callers \ {t} : Parses(o)'
    BY <2>1, Untouched DEF ParseInv, SinkLocals
  <2> QED
    BY <2>1, <2>4, <2>5 DEF ParseInv, SinkLocals
<1>2. ASSUME NEW t \in Callers, Leave(t)
      PROVE  ParseInv'
  <2>1. /\ pc' = [pc EXCEPT ![t] = "idle"] /\ call' = [call EXCEPT ![t] = "none"]
        /\ held' = [held EXCEPT ![t] = 0] /\ edidData' = [edidData EXCEPT ![t] = Blank]
        /\ ret' = [ret EXCEPT ![t] = "none"] /\ answer' = [answer EXCEPT ![t] = NoAnswer]
        /\ plugged' = [plugged EXCEPT ![t] = {}]
        /\ UNCHANGED <<sink, blob, driver>>
    BY <1>2 DEF Leave, Goto
  <2>2. Parses(t)'
    BY <2>1, FS_EmptySet DEF ParseInv, SinkLocals, Parses, Plugged, RunsItsOp, Holds,
       Answered, Done, At, AllOps
  <2>3. \A o \in Callers \ {t} : Parses(o)'
    BY <2>1, Untouched DEF ParseInv, SinkLocals
  <2> QED
    BY <2>1, <2>2, <2>3 DEF ParseInv, SinkLocals
<1>3. ASSUME NEW t \in Callers,
             \/ DeviceFails(t) \/ NoConnector(t) \/ GetConnector(t) \/ GetBlob(t)
             \/ AnswerEDID(t) \/ AnswerHDR(t) \/ ReadColor(t) \/ ReadEotf(t)
             \/ ReadMatrix(t)
      PROVE  ParseInv'
  <2>1. UNCHANGED <<sink, blob, driver, plugged, call>>
    BY <1>3 DEF DeviceFails, NoConnector, GetConnector, GetBlob, AnswerEDID, AnswerHDR, ReadColor,
       ReadEotf, ReadMatrix, device
  <2>2. SinkLocals' /\ \A o \in Callers \ {t} :
          UNCHANGED <<pc[o], held[o], edidData[o], answer[o], ret[o]>>
    <3>1. CASE DeviceFails(t) \/ AnswerEDID(t) \/ AnswerHDR(t)
      BY <2>1, <3>1 DEF DeviceFails, AnswerEDID, AnswerHDR, Return, Goto, ParseInv, SinkLocals
    <3>2. CASE NoConnector(t) \/ GetConnector(t)
      BY <2>1, <3>2 DEF NoConnector, GetConnector, Return, Goto, ParseInv, SinkLocals
    <3>3. CASE GetBlob(t)
      BY <2>1, <3>3 DEF GetBlob, Return, Goto, ParseInv, SinkLocals
    <3>4. CASE ReadColor(t) \/ ReadEotf(t) \/ ReadMatrix(t)
      BY <2>1, <3>4 DEF ReadColor, ReadEotf, ReadMatrix, Return, Goto, ParseInv, SinkLocals
    <3> QED
      BY <1>3, <3>1, <3>2, <3>3, <3>4
  <2>3. \A o \in Callers \ {t} : Parses(o)'
    BY <2>1, <2>2, Untouched DEF ParseInv
  <2>4. Parses(t)'
    <3>1. /\ Parses(t) /\ pc[t] # "idle"
      BY <1>3 DEF ParseInv, DeviceFails, NoConnector, GetConnector, GetBlob, AnswerEDID, AnswerHDR,
         ReadColor, ReadEotf, ReadMatrix, At
    <3>2. Plugged(t)'
      BY <2>1, <3>1 DEF Parses, Plugged
    <3>3. CASE DeviceFails(t)
      <4>1. pc'[t] = "done" /\ ret'[t] = "general"
        BY <3>3 DEF DeviceFails, Return, Goto, ParseInv, SinkLocals
      <4> QED
        BY <3>2, <4>1 DEF Parses, RunsItsOp, Holds, Answered, Done, AllOps
    <3>9. CASE NoConnector(t)
      <4>1. pc'[t] = "crashed" \/ (pc'[t] = "done" /\ ret'[t] = "invalid state")
        BY <3>9 DEF NoConnector, Return, Goto, ParseInv, SinkLocals
      <4> QED
        BY <3>2, <4>1 DEF Parses, RunsItsOp, Holds, Answered, Done, At, AllOps
    <3>4. CASE GetConnector(t)
      <4>1. pc[t] \in {"edid", "bytes", "hdr"} /\ call[t] = pc[t]
        BY <3>1, <3>4 DEF GetConnector, Parses, RunsItsOp, AllOps
      <4>2. CASE sink = NoDisplay
        <5>1. pc'[t] = "done" /\ ret'[t] = "invalid state"
          BY <3>4, <4>2 DEF GetConnector, Return, Goto, ParseInv, SinkLocals
        <5> QED
          BY <3>2, <5>1 DEF Parses, RunsItsOp, Holds, Answered, Done, AllOps
      <4>3. CASE sink # NoDisplay
        <5>1. pc'[t] = "blob" /\ held'[t] = blob
          BY <3>4, <4>3 DEF GetConnector, Goto, ParseInv, SinkLocals
        <5>2. edidData'[t] \in IF pc[t] = "hdr" THEN Garbage ELSE {Blank}
          BY <3>4, <4>3 DEF GetConnector, At, ParseInv, SinkLocals
        <5>3. sink \in Displays
          BY <4>3 DEF ParseInv, Sinks
        <5>4. <<sink, blob>> \in plugged'[t] /\ <<sink, blob>>[1] = sink
                /\ <<sink, blob>>[2] = blob
          BY <2>1, <3>1 DEF Parses, Plugged
        <5>5. Holds(t)'
          BY <2>1, <4>1, <5>1, <5>2, <5>3, <5>4 DEF Holds, Unparsed
        <5> QED
          BY <3>2, <5>1, <5>5 DEF Parses, RunsItsOp, Answered, Done, At, AllOps
      <4> QED
        BY <4>2, <4>3
    <3>5. CASE GetBlob(t)
      <4> DEFINE exists == held[t] = blob /\ sink # NoDisplay
      <4>1. /\ call[t] \in {"edid", "bytes", "hdr"} /\ Unparsed(t)
            /\ <<sink, blob>> \in plugged[t]
            /\ edidData'[t] = IF exists THEN Parsed(sink) ELSE edidData[t]
        BY <3>1, <3>5 DEF GetBlob, At, Parses, Plugged, Holds, ParseInv, SinkLocals
      <4>2. PICK p \in plugged[t] : p[1] \in Displays /\ p[2] = held[t]
        BY <3>1, <3>5 DEF GetBlob, At, Parses, Holds
      <4>3. OfOneParse(t)'
        <5>1. CASE exists
          <6>1. sink \in Displays /\ <<sink, blob>>[1] = sink
            BY <5>1 DEF ParseInv, Sinks
          <6> QED
            BY <2>1, <4>1, <5>1, <6>1 DEF OfOneParse
        <5>2. CASE ~exists
          <6>1. p # <<sink, blob>>
            BY <4>2, <5>2, SinkAssumption
          <6> QED
            BY <2>1, <4>1, <5>2, <6>1 DEF OfOneParse, Moved, Unparsed
        <5> QED
          BY <5>1, <5>2
      <4>4. CASE call[t] = "bytes"
        <5>1. /\ pc'[t] = "done"
              /\ answer'[t] = IF exists THEN [given |-> TRUE, of |-> sink] ELSE NoAnswer
          BY <3>5, <4>4 DEF GetBlob, Return, Goto, ParseInv, SinkLocals
        <5>2. answer'[t].given => answer'[t].of = sink
          BY <5>1 DEF NoAnswer
        <5>3. <<sink, blob>>[1] = sink
          OBVIOUS
        <5> QED
          BY <2>1, <3>2, <4>1, <4>4, <5>1, <5>2, <5>3 DEF Parses, RunsItsOp, Holds,
             Answered, Done, AllOps
      <4>5. CASE call[t] # "bytes"
        <5>1. pc'[t] = "parsed"
          BY <3>5, <4>5 DEF GetBlob, Goto, ParseInv, SinkLocals
        <5> QED
          BY <2>1, <3>2, <4>1, <4>3, <4>5, <5>1 DEF Parses, RunsItsOp, Holds, Answered,
             Done, At, AllOps
      <4> QED
        BY <4>4, <4>5
    <3>6. CASE AnswerEDID(t)
      <4>1. /\ pc'[t] = "done" /\ call[t] = "edid" /\ OfOneParse(t)
            /\ edidData' = edidData
            /\ \E opened \in BOOLEAN :
                 answer'[t] = [given |-> TRUE, name |-> edidData[t].name,
                               address |-> edidData[t].address,
                               hdmi |-> opened /\ sink # NoDisplay
                                          /\ Declares(sink, "hdmi") # {}]
        BY <3>1, <3>6 DEF AnswerEDID, Return, Goto, At, Parses, Answered, ParseInv, SinkLocals
      <4>2. OfOneParse(t)'
        BY <2>1, <4>1 DEF OfOneParse, Moved, Unparsed
      <4>5. PICK opened \in BOOLEAN :
              answer'[t] = [given |-> TRUE, name |-> edidData[t].name,
                            address |-> edidData[t].address,
                            hdmi |-> opened /\ sink # NoDisplay
                                       /\ Declares(sink, "hdmi") # {}]
        BY <4>1
      <4>3. /\ answer'[t].name = edidData'[t].name
            /\ answer'[t].address = edidData'[t].address
            /\ answer'[t].hdmi => sink # NoDisplay /\ Declares(sink, "hdmi") # {}
        <5> DEFINE of == opened /\ sink # NoDisplay /\ Declares(sink, "hdmi") # {}
        <5>1. of => sink # NoDisplay /\ Declares(sink, "hdmi") # {}
          OBVIOUS
        <5>2. answer'[t] = [given |-> TRUE, name |-> edidData[t].name,
                            address |-> edidData[t].address, hdmi |-> of]
          BY <4>5
        <5> HIDE DEF of
        <5>3. answer'[t].name = edidData[t].name /\ answer'[t].address = edidData[t].address
                /\ answer'[t].hdmi = of
          BY <5>2
        <5> QED
          BY <4>1, <5>1, <5>3
      <4>4. <<sink, blob>> \in plugged'[t] /\ <<sink, blob>>[1] = sink
        BY <2>1, <3>1 DEF Parses, Plugged
      <4> QED
        BY <2>1, <3>2, <4>1, <4>2, <4>3, <4>4 DEF Parses, RunsItsOp, Holds, Answered,
           Done, AllOps
    <3>7. CASE AnswerHDR(t)
      <4>1. /\ pc'[t] = "done" /\ call[t] = "hdr" /\ OfOneParse(t)
            /\ edidData' = edidData
            /\ answer'[t].standards = Standards(edidData[t], driver)
        BY <3>1, <3>7 DEF AnswerHDR, Return, Goto, At, Parses, Answered, ParseInv, SinkLocals
      <4>2. OfOneParse(t)'
        BY <2>1, <4>1 DEF OfOneParse, Moved, Unparsed
      <4> QED
        BY <2>1, <3>2, <4>1, <4>2 DEF Parses, RunsItsOp, Holds, Answered, Done, AllOps
    <3>8. CASE ReadColor(t) \/ ReadEotf(t) \/ ReadMatrix(t)
      <4>1. pc'[t] \in {"eotf", "done", "crashed"} /\ call[t] \in {"settings", "matrix"}
              /\ (pc'[t] = "eotf" => call[t] = "settings")
        BY <3>1, <3>8 DEF ReadColor, ReadEotf, ReadMatrix, Return, Goto, At, Parses,
           RunsItsOp, AllOps, ParseInv, SinkLocals
      <4> QED
        BY <2>1, <3>2, <4>1 DEF Parses, RunsItsOp, Holds, Answered, Done, At, AllOps
    <3> QED
      BY <1>3, <3>3, <3>4, <3>5, <3>6, <3>7, <3>8, <3>9
  <2> QED
    BY <2>1, <2>2, <2>3, <2>4 DEF ParseInv
<1>4. CASE UNCHANGED <<pc, call, held, edidData, answer, ret, plugged, sink, blob, driver>>
  <2>1. \A t \in Callers : Parses(t)'
    BY <1>4, Untouched DEF ParseInv
  <2> QED
    BY <1>4, <2>1 DEF ParseInv, SinkLocals
<1>5. CASE \E o \in Outputs : SwitchOutput(o)
  BY <1>4, <1>5 DEF SwitchOutput, locals
<1>6. CASE Finished \/ UNCHANGED vars
  BY <1>4, <1>6 DEF Finished, vars
<1> QED
  BY <1>1, <1>2, <1>3, <1>5, <1>6, CableParses DEF Next, Step

\* The invariant holds in every state.
LEMMA ParseInvariant == Spec => []ParseInv
BY InitParses, NextParses, PTL DEF Spec

\* A call is steady just when it saw a single display and blob.
LEMMA SteadyOne ==
    ASSUME ParseInv, NEW t \in Callers, pc[t] # "idle"
    PROVE  /\ Steady(t) => plugged[t] = {<<sink, blob>>}
           /\ Moved(t) => ~Steady(t)
<1>1. IsFiniteSet(plugged[t]) /\ <<sink, blob>> \in plugged[t]
  BY DEF ParseInv, Parses, Plugged
<1>2. ASSUME Steady(t)
      PROVE  plugged[t] = {<<sink, blob>>}
  <2>1. PICK x : plugged[t] = {x}
    BY <1>1, <1>2, FS_Singleton DEF Steady
  <2> QED
    BY <1>1, <2>1
<1> QED
  BY <1>2 DEF Moved

\* What a steady call has read is what the parser makes of the display.
LEMMA SteadyParse ==
    ASSUME ParseInv, NEW t \in Callers, pc[t] # "idle", OfOneParse(t), Steady(t)
    PROVE  sink \in Displays /\ edidData[t] = Parsed(sink)
<1>1. PICK p \in plugged[t] : p[1] \in Displays /\ edidData[t] = Parsed(p[1])
  BY SteadyOne DEF OfOneParse
<1>2. p = <<sink, blob>>
  BY SteadyOne
<1> QED
  BY <1>1, <1>2

-----------------------------------------------------------------------------
(* The extensions that the parser takes *)

\* Displays whose extensions can be read are accepted, and read from the first to the
\* last; of a display without any the map alone is looked at.
LEMMA ReadableCounts ==
    ASSUME NEW d, DisplayOK(d), Readable(d), Flag(d) # 0
    PROVE  /\ Accepted(Flag(d), EdidBytes(d), EdidLength(d))
           /\ \/ /\ Len(d.exts) > 0
                 /\ ToParse(Flag(d), EdidLength(d)) = Len(d.exts)
                 /\ \A e : Base(Flag(d), EdidLength(d), e) = 128 * (e + Maps(d))
              \/ /\ Len(d.exts) = 0 /\ ToParse(Flag(d), EdidLength(d)) = 1
                 /\ Base(Flag(d), EdidLength(d), 1) = 128
                 /\ EdidBytes(d)[128] = ExtensionTagBlockMap
<1> DEFINE n == Len(d.exts)
           count == EdidLength(d)
<1>1. n \in Nat /\ count \in Nat
  BY DisplayTypes
<1>2. /\ Present(Flag(d), count) = n + Maps(d) /\ Flag(d) \in Nat
      /\ count >= 128 * (1 + Flag(d))
  BY DisplayCounts
<1>3. \/ Maps(d) = 0 /\ d.map = "none" /\ Flag(d) = n
      \/ Maps(d) = 1 /\ d.map # "none"
  <2>1. ASSUME d.map = "none" PROVE Maps(d) = 0 /\ Flag(d) = n + 0
    BY <2>1 DEF Maps, Flag
  <2>2. d.map # "none" => Maps(d) = 1
    BY DEF Maps
  <2>3. n + 0 = n
    BY <1>1
  <2> QED
    BY <2>1, <2>2, <2>3
<1>4. n <= 1 \/ d.map # "none"
  BY DEF Readable
<1>5. d.map # "none" => EdidBytes(d)[128] = ExtensionTagBlockMap
  BY MapByte
<1> HIDE DEF n, count
<1>6. Accepted(Flag(d), EdidBytes(d), count)
  BY <1>1, <1>2, <1>3, <1>4, <1>5 DEF Accepted
<1>7. CASE n > 0
  <2>1. Map(Flag(d), count) = Maps(d)
    BY <1>1, <1>2, <1>3, <1>4, <1>7 DEF Map
  <2>2. ToParse(Flag(d), count) = n
    BY <1>1, <1>2, <1>3, <2>1 DEF ToParse
  <2>3. \A e : Base(Flag(d), count, e) = 128 * (e + Maps(d))
    BY <2>1 DEF Base
  <2> QED
    BY <1>6, <1>7, <2>2, <2>3 DEF n, count
<1>8. CASE n = 0
  <2>1. Maps(d) = 1 /\ d.map # "none"
    BY <1>3, <1>8
  <2>2. Map(Flag(d), count) = 0 /\ ToParse(Flag(d), count) = 1
    BY <1>2, <1>8, <2>1 DEF Map, ToParse
  <2>3. Base(Flag(d), count, 1) = 128
    BY <2>2 DEF Base
  <2> QED
    BY <1>5, <1>6, <1>8, <2>1, <2>2, <2>3 DEF n, count
<1> QED
  BY <1>1, <1>7, <1>8

\* Two extensions without a map are refused.
LEMMA UnreadableRefused ==
    ASSUME NEW d, DisplayOK(d), ~Readable(d)
    PROVE  ~Accepted(Flag(d), EdidBytes(d), EdidLength(d))
<1> DEFINE n == Len(d.exts)
<1>1. n \in Nat /\ n > 1 /\ Maps(d) = 0
  BY DisplayTypes DEF Readable, Maps
<1>2. Present(Flag(d), EdidLength(d)) > 1
  BY <1>1, DisplayCounts
<1>3. EdidBytes(d)[128] = AdditionalTiming
  <2>1. 1 \in 1..n
    BY <1>1
  <2>2. Extends(EdidBytes(d), 128 * (1 + Maps(d)), d.exts[1], d.natives)
    BY <2>1, ExtensionsStand
  <2>3. /\ d.exts[1] \in Seq(DataBlocks) /\ End(d.exts[1]) <= 56 /\ d.natives \in 0..4
        /\ 128 * (1 + Maps(d)) = 128 /\ 128 \in Nat
    BY <1>1, <2>1, DisplayTypes DEF DisplayOK
  <2> QED
    BY <2>2, <2>3, ExtensionHead
<1> QED
  BY <1>2, <1>3 DEF Accepted, ExtensionTagBlockMap, AdditionalTiming

-----------------------------------------------------------------------------
(* What the parser finds of a display *)

\* Where the blocks of the extensions stand, and how many they are.
OffsetsOf(d) ==
    [e \in Nat |-> IF e \in DOMAIN d.exts THEN BlockOffsets(128 * (e + Maps(d)), d.exts[e])
                                         ELSE <<>>]
CountsOf(d) == [e \in Nat |-> IF e \in DOMAIN d.exts THEN Len(d.exts[e]) ELSE 0]

\* A place is an extension and the number of a block in it.
LEMMA PlacesOf ==
    ASSUME NEW d, DisplayOK(d)
    PROVE  /\ \A e \in DOMAIN d.exts : \A i \in 1..Len(d.exts[e]) : <<e, i>> \in Places(d)
           /\ \A p \in Places(d) : /\ p[1] \in DOMAIN d.exts /\ p[2] \in 1..Len(d.exts[p[1]])
                                   /\ p = <<p[1], p[2]>>
<1>1. \A e \in DOMAIN d.exts : DOMAIN d.exts[e] = 1..Len(d.exts[e])
  BY DisplayTypes
<1>2. \A p \in Places(d) : \E e \in DOMAIN d.exts : p \in {e} \X DOMAIN d.exts[e]
  BY DEF Places
<1> QED
  BY <1>1, <1>2 DEF Places

\* Each extension that is parsed is one of the display, laid out as it declares.
LEMMA DisplayLaid ==
    ASSUME NEW d, DisplayOK(d), Readable(d), Flag(d) # 0, NEW names
    PROVE  LET bytes == EdidBytes(d)
               o == OffsetsOf(d)
               n == CountsOf(d)
               N == ToParse(Flag(d), EdidLength(d))
           IN /\ AllLaid(Flag(d), bytes, EdidLength(d), o, n)
              /\ AllSound(Flag(d), bytes, EdidLength(d), names)
              /\ NoNames(Flag(d), bytes, EdidLength(d))
              /\ \A e \in 1..N : e \in DOMAIN d.exts \/ n[e] = 0
              /\ \A e \in DOMAIN d.exts :
                   /\ e \in 1..N /\ n[e] = Len(d.exts[e])
                   /\ \A i \in 1..n[e] :
                        /\ d.exts[e][i] \in DataBlocks /\ o[e][i] \in Nat
                        /\ Stands(bytes, o[e][i], d.exts[e][i])
<1> DEFINE bytes == EdidBytes(d)
           o == OffsetsOf(d)
           n == CountsOf(d)
           x == Flag(d)
           count == EdidLength(d)
           N == ToParse(x, count)
           B(e) == Base(x, count, e)
           L == Len(d.exts)
<1>1. /\ L \in Nat /\ DOMAIN d.exts = 1..L /\ Maps(d) \in Nat /\ d.natives \in 0..4
      /\ \A e \in 1..L : d.exts[e] \in Seq(DataBlocks) /\ End(d.exts[e]) <= 56
  BY DisplayTypes DEF DisplayOK
<1>2. \/ L > 0 /\ N = L /\ \A e : B(e) = 128 * (e + Maps(d))
      \/ L = 0 /\ N = 1 /\ B(1) = 128 /\ bytes[128] = ExtensionTagBlockMap
  BY ReadableCounts
<1>3. \A e \in 1..N : e \in Nat
  BY <1>1, <1>2
<1>4. ASSUME NEW e \in 1..L
      PROVE  /\ n[e] = Len(d.exts[e]) /\ o[e] = BlockOffsets(B(e), d.exts[e])
             /\ e \in 1..N /\ B(e) \in Nat
             /\ Laid(bytes, B(e), o[e], n[e]) /\ Sound(bytes, B(e), names)
             /\ NoName(bytes, B(e))
             /\ \A i \in 1..n[e] :
                  /\ d.exts[e][i] \in DataBlocks /\ o[e][i] \in Nat
                  /\ Stands(bytes, o[e][i], d.exts[e][i])
  <2>1. L > 0 /\ e \in 1..N /\ B(e) = 128 * (e + Maps(d)) /\ B(e) \in Nat
    <3>1. L > 0 /\ e \in Nat
      BY <1>1
    <3> HIDE DEF N, B, L
    <3> QED
      BY <1>1, <1>2, <3>1
  <2>2. n[e] = Len(d.exts[e]) /\ o[e] = BlockOffsets(B(e), d.exts[e])
    <3>1. e \in Nat /\ e \in DOMAIN d.exts
      BY <1>1
    <3> QED
      BY <2>1, <3>1 DEF OffsetsOf, CountsOf
  <2> HIDE DEF B, N
  <2>3. Extends(bytes, B(e), d.exts[e], d.natives)
    BY <2>1, ExtensionsStand
  <2>4. /\ Laid(bytes, B(e), BlockOffsets(B(e), d.exts[e]), Len(d.exts[e]))
        /\ Sound(bytes, B(e), names) /\ NoName(bytes, B(e))
    BY <1>1, <2>1, <2>3, ExtensionIsLaid
  <2>5. ASSUME NEW i \in 1..n[e]
        PROVE  /\ d.exts[e][i] \in DataBlocks /\ o[e][i] \in Nat
               /\ Stands(bytes, o[e][i], d.exts[e][i])
    <3> DEFINE blocks == d.exts[e]
    <3>1. blocks \in Seq(DataBlocks) /\ End(blocks) <= 56 /\ i \in 1..Len(blocks)
      BY <1>1, <2>2
    <3> HIDE DEF blocks
    <3>2. /\ Len(blocks) \in Nat /\ blocks[i] \in DataBlocks
          /\ Ends(blocks) \in [0..Len(blocks) -> Nat]
      BY <3>1, EndsOf
    <3>3. i - 1 \in 0..Len(blocks) /\ i \in 1..(Len(blocks) + 1)
      BY <3>1, <3>2
    <3>4. Ends(blocks)[i - 1] \in Nat
      BY <3>2, <3>3
    <3>5. o[e][i] = B(e) + Ends(blocks)[i - 1]
      BY <2>2, <3>3 DEF BlockOffsets, blocks
    <3>6. Stands(bytes, B(e) + Ends(blocks)[i - 1], blocks[i])
      BY <1>1, <2>1, <2>3, <3>1, BlocksStand DEF blocks
    <3>7. o[e][i] \in Nat
      BY <2>1, <3>4, <3>5
    <3> QED
      BY <3>2, <3>5, <3>6, <3>7 DEF blocks
  <2> HIDE DEF o, n
  <2> QED
    BY <2>1, <2>2, <2>4, <2>5
<1>5. ASSUME NEW e \in 1..N, e \notin 1..L
      PROVE  /\ n[e] = 0 /\ Laid(bytes, B(e), o[e], n[e]) /\ Sound(bytes, B(e), names)
             /\ NoName(bytes, B(e))
  <2>1. n[e] = 0
    BY <1>1, <1>3, <1>5 DEF CountsOf
  <2>2. bytes[B(e)] # AdditionalTiming
    <3>1. e = 1 /\ B(1) = 128 /\ bytes[128] = ExtensionTagBlockMap
      <4> HIDE DEF N, B, L
      <4> QED
        BY <1>2, <1>5
    <3> QED
      BY <3>1 DEF AdditionalTiming, ExtensionTagBlockMap
  <2> HIDE DEF B, n
  <2> QED
    BY <2>1, <2>2 DEF Laid, Sound, NoName
<1>6. AllLaid(x, bytes, count, o, n) /\ AllSound(x, bytes, count, names)
      /\ NoNames(x, bytes, count)
  <2> HIDE DEF N, B, o, n, x, count
  <2> QED
    BY <1>4, <1>5 DEF AllLaid, AllSound, NoNames, N, B
<1> HIDE DEF N, B, o, n
<1> QED
  BY <1>1, <1>4, <1>5, <1>6 DEF N, o, n

\* The blocks that the parser finds are those that the display declares.
LEMMA DisplayBlocks ==
    ASSUME NEW d, DisplayOK(d), Readable(d), Flag(d) # 0
    PROVE  LET o == OffsetsOf(d)
               n == CountsOf(d)
               N == ToParse(Flag(d), EdidLength(d))
           IN /\ \A e \in 1..N : \A i \in 1..n[e] :
                   /\ <<e, i>> \in Places(d) /\ o[e][i] \in Nat
                   /\ BlockAt(d, <<e, i>>) \in DataBlocks
                   /\ Stands(EdidBytes(d), o[e][i], BlockAt(d, <<e, i>>))
              /\ \A p \in Places(d) :
                   p[1] \in 1..N /\ p[2] \in 1..n[p[1]] /\ p = <<p[1], p[2]>>
<1> DEFINE o == OffsetsOf(d)
           n == CountsOf(d)
           N == ToParse(Flag(d), EdidLength(d))
<1>1. /\ \A e \in 1..N : e \in DOMAIN d.exts \/ n[e] = 0
      /\ \A e \in DOMAIN d.exts :
           /\ e \in 1..N /\ n[e] = Len(d.exts[e])
           /\ \A i \in 1..n[e] :
                /\ d.exts[e][i] \in DataBlocks /\ o[e][i] \in Nat
                /\ Stands(EdidBytes(d), o[e][i], d.exts[e][i])
  BY DisplayLaid
<1> HIDE DEF o, n, N
<1>2. ASSUME NEW e \in 1..N, NEW i \in 1..n[e]
      PROVE  /\ <<e, i>> \in Places(d) /\ o[e][i] \in Nat
             /\ BlockAt(d, <<e, i>>) \in DataBlocks
             /\ Stands(EdidBytes(d), o[e][i], BlockAt(d, <<e, i>>))
  <2>1. e \in DOMAIN d.exts
    BY <1>1
  <2>2. <<e, i>> \in Places(d)
    BY <1>1, <2>1, PlacesOf
  <2>3. BlockAt(d, <<e, i>>) = d.exts[e][i]
    BY DEF BlockAt
  <2> QED
    BY <1>1, <2>1, <2>2, <2>3
<1>3. ASSUME NEW p \in Places(d)
      PROVE  p[1] \in 1..N /\ p[2] \in 1..n[p[1]] /\ p = <<p[1], p[2]>>
  BY <1>1, PlacesOf
<1> QED
  BY <1>2, <1>3 DEF o, n, N

\* The parsed extensions and their blocks are counted by numbers.
LEMMA CountsAreNat ==
    ASSUME NEW d, DisplayOK(d), Flag(d) # 0
    PROVE  /\ ToParse(Flag(d), EdidLength(d)) \in Nat
           /\ \A e \in 1..ToParse(Flag(d), EdidLength(d)) : CountsOf(d)[e] \in Nat
<1>1. Flag(d) \in Nat \ {0} /\ EdidLength(d) \in Nat
  BY DisplayCounts, DisplayTypes
<1>2. ToParse(Flag(d), EdidLength(d)) \in Nat
  BY <1>1, CountTypes
<1>3. \A e \in DOMAIN d.exts : Len(d.exts[e]) \in Nat
  BY DisplayTypes, EndsOf
<1>4. ASSUME NEW e \in 1..ToParse(Flag(d), EdidLength(d)) PROVE CountsOf(d)[e] \in Nat
  <2>1. e \in Nat
    BY <1>2
  <2> QED
    BY <1>3, <2>1 DEF CountsOf
<1> QED
  BY <1>2, <1>4

\* The address is the one of the block of HDMI, or none.
LEMMA DisplayAddress ==
    ASSUME NEW d, DisplayOK(d), Readable(d), Flag(d) # 0, Declares(d, "forum") = {},
           NEW data, data.address = <<0, 0, 0, 0>>, NEW new,
           LastAddress(Flag(d), EdidBytes(d), EdidLength(d), OffsetsOf(d), CountsOf(d),
                       data, new)
    PROVE  \A i \in {1, 2, 4} : new.address[i] = DeclaredAddress(d)[i]
<1> DEFINE bytes == EdidBytes(d)
           o == OffsetsOf(d)
           n == CountsOf(d)
           N == ToParse(Flag(d), EdidLength(d))
<1>1. /\ \A e \in 1..N : \A i \in 1..n[e] :
           /\ <<e, i>> \in Places(d) /\ o[e][i] \in Nat
           /\ BlockAt(d, <<e, i>>) \in DataBlocks
           /\ Stands(bytes, o[e][i], BlockAt(d, <<e, i>>))
      /\ \A p \in Places(d) : p[1] \in 1..N /\ p[2] \in 1..n[p[1]] /\ p = <<p[1], p[2]>>
  BY DisplayBlocks
<1>2. /\ (\A e \in 1..N : \A i \in 1..n[e] : ~IsVendor(bytes, o[e][i]))
           => new.address = data.address
      /\ \A e \in 1..N : \A j \in 1..n[e] :
           /\ IsVendor(bytes, o[e][j])
           /\ \A i \in (j + 1)..n[e] : ~IsVendor(bytes, o[e][i])
           /\ \A f \in (e + 1)..N : \A i \in 1..n[f] : ~IsVendor(bytes, o[f][i])
           => new.address = AddressAt(bytes, o[e][j])
  BY DEF LastAddress
<1>3. N \in Nat /\ \A e \in 1..N : n[e] \in Nat
  BY CountsAreNat
<1> HIDE DEF bytes, o, n, N
<1>4. ASSUME NEW e \in 1..N, NEW i \in 1..n[e]
      PROVE  IsVendor(bytes, o[e][i]) <=> <<e, i>> \in Declares(d, "hdmi")
  <2>1. IsVendor(bytes, o[e][i]) <=> BlockAt(d, <<e, i>>).kind \in {"hdmi", "forum"}
    BY <1>1, BlockKinds
  <2> QED
    BY <1>1, <2>1 DEF Declares
<1>5. CASE Declares(d, "hdmi") = {}
  BY <1>2, <1>4, <1>5 DEF DeclaredAddress
<1>6. CASE Declares(d, "hdmi") # {}
  <2> DEFINE p == CHOOSE place \in Declares(d, "hdmi") : TRUE
  <2>1. /\ p \in Declares(d, "hdmi") /\ p \in Places(d) /\ BlockAt(d, p).kind = "hdmi"
        /\ DeclaredAddress(d) = BlockAt(d, p).address
    BY <1>6 DEF Declares, DeclaredAddress
  <2> HIDE DEF p
  <2>2. PICK e \in 1..N : \E j \in 1..n[e] : p = <<e, j>>
    BY <1>1, <2>1
  <2>3. PICK j \in 1..n[e] : p = <<e, j>>
    BY <2>2
  <2>4. \A q \in Declares(d, "hdmi") : q = p
    BY <2>1 DEF DisplayOK
  <2>5. IsVendor(bytes, o[e][j])
    BY <1>4, <2>1, <2>3
  <2>6. ASSUME NEW i \in (j + 1)..n[e] PROVE ~IsVendor(bytes, o[e][i])
    <3>1. i \in 1..n[e] /\ i # j
      BY <1>3
    <3> QED
      BY <1>4, <2>3, <2>4, <3>1
  <2>7. ASSUME NEW f \in (e + 1)..N, NEW i \in 1..n[f] PROVE ~IsVendor(bytes, o[f][i])
    <3>1. f \in 1..N /\ f # e
      BY <1>3
    <3> QED
      BY <1>4, <2>3, <2>4, <3>1
  <2>8. new.address = AddressAt(bytes, o[e][j])
    BY <1>2, <2>5, <2>6, <2>7
  <2>9. /\ o[e][j] \in Nat /\ BlockAt(d, p) \in DataBlocks
        /\ Stands(bytes, o[e][j], BlockAt(d, p))
    BY <1>1, <2>3
  <2> QED
    BY <2>1, <2>8, <2>9, BlockAddress
<1> QED
  BY <1>5, <1>6

\* The transfer functions are those of the block of static metadata, or none.
LEMMA DisplayEotfs ==
    ASSUME NEW d, DisplayOK(d), Readable(d), Flag(d) # 0, NEW data, data.hdr = {}, NEW new,
           LastEotfs(Flag(d), EdidBytes(d), EdidLength(d), OffsetsOf(d), CountsOf(d),
                     data, new)
    PROVE  new.hdr \cap {"HDR10", "HLG"} = DeclaredEotfs(d) \cap {"HDR10", "HLG"}
<1> DEFINE bytes == EdidBytes(d)
           o == OffsetsOf(d)
           n == CountsOf(d)
           N == ToParse(Flag(d), EdidLength(d))
<1>1. /\ \A e \in 1..N : \A i \in 1..n[e] :
           /\ <<e, i>> \in Places(d) /\ o[e][i] \in Nat
           /\ BlockAt(d, <<e, i>>) \in DataBlocks
           /\ Stands(bytes, o[e][i], BlockAt(d, <<e, i>>))
      /\ \A p \in Places(d) : p[1] \in 1..N /\ p[2] \in 1..n[p[1]] /\ p = <<p[1], p[2]>>
  BY DisplayBlocks
<1>2. /\ (\A e \in 1..N : \A i \in 1..n[e] : ~IsStatic(bytes, o[e][i]))
           => new.hdr \cap Eotfs = data.hdr \cap Eotfs
      /\ \A e \in 1..N : \A j \in 1..n[e] :
           /\ IsStatic(bytes, o[e][j])
           /\ \A i \in (j + 1)..n[e] : ~IsStatic(bytes, o[e][i])
           /\ \A f \in (e + 1)..N : \A i \in 1..n[f] : ~IsStatic(bytes, o[f][i])
           => new.hdr \cap Eotfs = HdrOf(bytes[o[e][j] + 2])
  BY DEF LastEotfs
<1>3. N \in Nat /\ \A e \in 1..N : n[e] \in Nat
  BY CountsAreNat
<1> HIDE DEF bytes, o, n, N
<1>4. ASSUME NEW e \in 1..N, NEW i \in 1..n[e]
      PROVE  IsStatic(bytes, o[e][i]) <=> <<e, i>> \in Declares(d, "static")
  <2>1. IsStatic(bytes, o[e][i]) <=> BlockAt(d, <<e, i>>).kind = "static"
    BY <1>1, BlockKinds
  <2> QED
    BY <1>1, <2>1 DEF Declares
<1>5. CASE Declares(d, "static") = {}
  <2>1. new.hdr \cap Eotfs = {}
    BY <1>2, <1>4, <1>5
  <2>2. DeclaredEotfs(d) = {}
    BY <1>5 DEF DeclaredEotfs
  <2> QED
    BY <2>1, <2>2 DEF Eotfs
<1>6. ASSUME NEW p \in Declares(d, "static")
      PROVE  new.hdr \cap {"HDR10", "HLG"} = DeclaredEotfs(d) \cap {"HDR10", "HLG"}
  <2>1. p \in Places(d) /\ BlockAt(d, p).kind = "static"
    BY DEF Declares
  <2>2. PICK e \in 1..N : \E j \in 1..n[e] : p = <<e, j>>
    BY <1>1, <2>1
  <2>3. PICK j \in 1..n[e] : p = <<e, j>>
    BY <2>2
  <2>4. \A q \in Declares(d, "static") : q = p
    BY DEF DisplayOK
  <2>5. DeclaredEotfs(d) = BlockAt(d, p).eotfs
    BY <2>4 DEF DeclaredEotfs
  <2>6. IsStatic(bytes, o[e][j])
    BY <1>4, <2>3
  <2>7. ASSUME NEW i \in (j + 1)..n[e] PROVE ~IsStatic(bytes, o[e][i])
    <3>1. i \in 1..n[e] /\ i # j
      BY <1>3
    <3> QED
      BY <1>4, <2>3, <2>4, <3>1
  <2>8. ASSUME NEW f \in (e + 1)..N, NEW i \in 1..n[f] PROVE ~IsStatic(bytes, o[f][i])
    <3>1. f \in 1..N /\ f # e
      BY <1>3
    <3> QED
      BY <1>4, <2>3, <2>4, <3>1
  <2>9. new.hdr \cap Eotfs = HdrOf(bytes[o[e][j] + 2])
    BY <1>2, <2>6, <2>7, <2>8
  <2>10. /\ o[e][j] \in Nat /\ BlockAt(d, p) \in DataBlocks
         /\ Stands(bytes, o[e][j], BlockAt(d, p))
    BY <1>1, <2>3
  <2>11. HdrOf(bytes[o[e][j] + 2]) \cap {"HDR10", "HLG"}
           = BlockAt(d, p).eotfs \cap {"HDR10", "HLG"}
    BY <2>1, <2>10, BlockEotfs
  <2>12. new.hdr \cap {"HDR10", "HLG"} = (new.hdr \cap Eotfs) \cap {"HDR10", "HLG"}
    BY DEF Eotfs
  <2> QED
    BY <2>5, <2>9, <2>11, <2>12
<1> QED
  BY <1>5, <1>6

\* There are capabilities of Dolby Vision if the display has a block of it that fits.
LEMMA DisplayDolby ==
    ASSUME NEW d, DisplayOK(d), Readable(d), Flag(d) # 0, NEW data, data.dv = {}, NEW new,
           LastDolby(Flag(d), EdidBytes(d), EdidLength(d), OffsetsOf(d), CountsOf(d),
                     data, new)
    PROVE  new.dv # {} <=> \E p \in Declares(d, "dolby") : Fits(BlockAt(d, p))
<1> DEFINE bytes == EdidBytes(d)
           o == OffsetsOf(d)
           n == CountsOf(d)
           N == ToParse(Flag(d), EdidLength(d))
<1>1. /\ \A e \in 1..N : \A i \in 1..n[e] :
           /\ <<e, i>> \in Places(d) /\ o[e][i] \in Nat
           /\ BlockAt(d, <<e, i>>) \in DataBlocks
           /\ Stands(bytes, o[e][i], BlockAt(d, <<e, i>>))
      /\ \A p \in Places(d) : p[1] \in 1..N /\ p[2] \in 1..n[p[1]] /\ p = <<p[1], p[2]>>
  BY DisplayBlocks
<1>2. /\ (\A e \in 1..N : \A i \in 1..n[e] : ~IsDolby(bytes, o[e][i])) => new.dv = data.dv
      /\ \A e \in 1..N : \A j \in 1..n[e] :
           /\ IsDolby(bytes, o[e][j])
           /\ \A i \in (j + 1)..n[e] : ~IsDolby(bytes, o[e][i])
           /\ \A f \in (e + 1)..N : \A i \in 1..n[f] : ~IsDolby(bytes, o[f][i])
           => new.dv = DolbyAt(bytes, o[e][j])
  BY DEF LastDolby
<1>3. N \in Nat /\ \A e \in 1..N : n[e] \in Nat
  BY CountsAreNat
<1> HIDE DEF bytes, o, n, N
<1> DEFINE Read == {p \in Declares(d, "dolby") : BlockAt(d, p).version <= 2}
<1>4. ASSUME NEW e \in 1..N, NEW i \in 1..n[e]
      PROVE  IsDolby(bytes, o[e][i]) <=> <<e, i>> \in Read
  <2>1. IsDolby(bytes, o[e][i]) <=> /\ BlockAt(d, <<e, i>>).kind = "dolby"
                                    /\ BlockAt(d, <<e, i>>).version <= 2
    BY <1>1, BlockKinds
  <2> QED
    BY <1>1, <2>1 DEF Declares
<1>5. \A p \in Declares(d, "dolby") : Fits(BlockAt(d, p)) => p \in Read
  BY DEF Fits
<1>6. CASE Read = {}
  BY <1>2, <1>4, <1>5, <1>6
<1>7. ASSUME NEW p \in Read
      PROVE  new.dv # {} <=> \E q \in Declares(d, "dolby") : Fits(BlockAt(d, q))
  <2>1. /\ p \in Declares(d, "dolby") /\ p \in Places(d) /\ BlockAt(d, p).kind = "dolby"
        /\ BlockAt(d, p).version <= 2
    BY DEF Declares
  <2>2. PICK e \in 1..N : \E j \in 1..n[e] : p = <<e, j>>
    BY <1>1, <2>1
  <2>3. PICK j \in 1..n[e] : p = <<e, j>>
    BY <2>2
  <2>4. \A q \in Declares(d, "dolby") : q = p
    BY <2>1 DEF DisplayOK
  <2>5. \A q \in Read : q = p
    BY <2>4
  <2>6. p \in Read
    OBVIOUS
  <2> HIDE DEF Read
  <2>7. IsDolby(bytes, o[e][j])
    BY <1>4, <2>3, <2>6
  <2>8. ASSUME NEW i \in (j + 1)..n[e] PROVE ~IsDolby(bytes, o[e][i])
    <3>1. i \in 1..n[e] /\ i # j
      BY <1>3
    <3> QED
      BY <1>4, <2>3, <2>5, <3>1
  <2>9. ASSUME NEW f \in (e + 1)..N, NEW i \in 1..n[f] PROVE ~IsDolby(bytes, o[f][i])
    <3>1. f \in 1..N /\ f # e
      BY <1>3
    <3> QED
      BY <1>4, <2>3, <2>5, <3>1
  <2>10. new.dv = DolbyAt(bytes, o[e][j])
    BY <1>2, <2>7, <2>8, <2>9
  <2>11. /\ o[e][j] \in Nat /\ BlockAt(d, p) \in DataBlocks
         /\ Stands(bytes, o[e][j], BlockAt(d, p))
    BY <1>1, <2>3
  <2>12. DolbyAt(bytes, o[e][j]) # {} <=> Fits(BlockAt(d, p))
    BY <2>1, <2>11, BlockDolby
  <2> QED
    BY <2>1, <2>4, <2>10, <2>12
<1> QED
  BY <1>6, <1>7

\* The codes of a video block are read as they were written.
LEMMA BlockCodes ==
    ASSUME NEW b \in DataBlocks, NEW bytes, NEW p \in Nat, Stands(bytes, p, b),
           b.kind = "video"
    PROVE  /\ b.codes \in Seq(0..255) /\ Len(b.codes) \in Nat
           /\ DOMAIN b.codes = 1..Len(b.codes)
           /\ Tag(bytes[p]) = 2 /\ Length(bytes[p]) = Len(b.codes)
           /\ Codes(bytes, p) = b.codes
<1>1. b.codes \in Seq(0..255) /\ Payload(b) = b.codes
  BY DEF DataBlocks, Payload
<1>2. /\ Len(b.codes) \in Nat /\ DOMAIN b.codes = 1..Len(b.codes)
      /\ b.codes \in [1..Len(b.codes) -> 0..255]
  <2> DEFINE codes == b.codes
  <2>1. codes \in Seq(0..255)
    BY <1>1
  <2> HIDE DEF codes
  <2>2. /\ Len(codes) \in Nat /\ DOMAIN codes = 1..Len(codes)
        /\ codes \in [1..Len(codes) -> 0..255]
    BY <2>1, LenProperties, Zenon
  <2> QED
    BY <2>2 DEF codes
<1>3. /\ Tag(bytes[p]) = 2 /\ Length(bytes[p]) = Len(b.codes)
      /\ \A k \in 1..Len(b.codes) : bytes[p + k] = b.codes[k]
  BY <1>1, BlockHeads DEF TagOf
<1>4. Codes(bytes, p) = b.codes
  BY <1>2, <1>3 DEF Codes
<1> QED
  BY <1>1, <1>2, <1>3, <1>4

\* The rows of the codes that count.
NativeRows(blocks, natives) ==
    {r \in VicRows : \E i \in VideoBlocks(blocks) :
       \/ \E c \in Range(blocks[i].codes) \cap NativeCodes : r = c - 129
       \/ /\ natives = 0 /\ blocks[i].codes # <<>>
          /\ \A j \in VideoBlocks(blocks) : j < i => blocks[j].codes = <<>>
          /\ blocks[i].codes[1] \notin NativeCodes
          /\ r = blocks[i].codes[1] - 1}

\* The rows that the walk finds are those that the video blocks declare.
LEMMA RowsOfBlocks ==
    ASSUME NEW blocks \in Seq(DataBlocks), NEW natives \in 0..4, NEW bytes, NEW o,
           \A i \in 1..Len(blocks) : o[i] \in Nat /\ Stands(bytes, o[i], blocks[i]),
           \A i \in VideoBlocks(blocks) : Range(blocks[i].codes) \subseteq NativeCodes \cup 1..108
    PROVE  LET rows == WalkRows(bytes, natives, o, Len(blocks))
           IN /\ rows \subseteq NativeRows(blocks, natives)
              /\ NativeRows(blocks, natives) # {} => rows # {}
              /\ AllKnown(bytes, o, Len(blocks))
<1> DEFINE n == Len(blocks)
           c(i) == blocks[i].codes
           R(i) == BlockRows(bytes, o[i], natives)
           rows == WalkRows(bytes, natives, o, n)
<1>1. n \in Nat /\ DOMAIN blocks = 1..n /\ \A i \in 1..n : blocks[i] \in DataBlocks
  BY LenProperties, EndsOf
<1>2. ASSUME NEW i \in 1..n, blocks[i].kind # "video"
      PROVE  R(i) = {} /\ Tag(bytes[o[i]]) # 2
  <2>1. ~(Tag(bytes[o[i]]) = 2)
    BY <1>1, <1>2, BlockKinds
  <2> QED
    BY <2>1 DEF BlockRows
<1>3. ASSUME NEW i \in 1..n, blocks[i].kind = "video"
      PROVE  /\ i \in VideoBlocks(blocks)
             /\ DOMAIN c(i) = 1..Len(c(i)) /\ Len(c(i)) \in Nat
             /\ c(i) \in Seq(0..255)
             /\ R(i) = CodeRows(c(i), Len(c(i)), natives)
             /\ Known(c(i), Len(c(i)))
             /\ Known(Codes(bytes, o[i]), Length(bytes[o[i]]))
  <2>1. i \in VideoBlocks(blocks)
    BY <1>1, <1>3 DEF VideoBlocks
  <2>2. /\ c(i) \in Seq(0..255) /\ Len(c(i)) \in Nat /\ DOMAIN c(i) = 1..Len(c(i))
        /\ Tag(bytes[o[i]]) = 2 /\ Length(bytes[o[i]]) = Len(c(i))
        /\ Codes(bytes, o[i]) = c(i)
    BY <1>1, <1>3, BlockCodes
  <2>3. R(i) = CodeRows(c(i), Len(c(i)), natives)
    BY <2>2 DEF BlockRows
  <2>4. Known(c(i), Len(c(i)))
    <3>1. Range(c(i)) \subseteq NativeCodes \cup 1..108
      BY <2>1
    <3>2. \A k \in 1..Len(c(i)) : c(i)[k] \in Range(c(i))
      BY <2>2 DEF Range
    <3> QED
      BY <3>1, <3>2 DEF Known
  <2> QED
    BY <2>1, <2>2, <2>3, <2>4
<1>4. AllKnown(bytes, o, n)
  BY <1>2, <1>3 DEF AllKnown
<1>5. \A i \in VideoBlocks(blocks) : i \in 1..n /\ blocks[i].kind = "video"
  BY <1>1 DEF VideoBlocks
<1>6. ASSUME NEW i \in VideoBlocks(blocks), natives = 0, c(i) # <<>>
      PROVE  R(i) # {} /\ 1 \in DOMAIN c(i) /\ Len(c(i)) > 0
  <2>1. Len(c(i)) # 0
    BY <1>3, <1>5, <1>6, EmptySeq
  <2>2. 1 \in 1..Len(c(i)) /\ Len(c(i)) > 0
    BY <1>3, <1>5, <2>1
  <2>3. c(i)[1] \in NativeCodes => c(i)[1] - 129 \in CodeRows(c(i), Len(c(i)), natives)
    BY <2>2 DEF CodeRows
  <2>4. c(i)[1] \notin NativeCodes => c(i)[1] - 1 \in CodeRows(c(i), Len(c(i)), natives)
    BY <1>6, <2>2 DEF CodeRows
  <2>5. CodeRows(c(i), Len(c(i)), natives) # {}
    BY <2>3, <2>4
  <2>6. R(i) = CodeRows(c(i), Len(c(i)), natives) /\ DOMAIN c(i) = 1..Len(c(i))
    BY <1>3, <1>5
  <2> QED
    BY <2>2, <2>5, <2>6
<1>7. rows \subseteq NativeRows(blocks, natives)
  <2> SUFFICES ASSUME NEW i \in Leading(bytes, natives, o, n), NEW r \in R(i)
               PROVE  r \in NativeRows(blocks, natives)
    BY DEF WalkRows
  <2>1. i \in 1..n /\ \A j \in 1..(i - 1) : R(j) = {}
    BY DEF Leading
  <2>2. blocks[i].kind = "video" /\ i \in VideoBlocks(blocks)
    BY <1>2, <1>3, <2>1
  <2>3. r \in CodeRows(c(i), Len(c(i)), natives) /\ Known(c(i), Len(c(i)))
    BY <1>3, <2>1, <2>2
  <2>4. CASE \E k \in 1..Len(c(i)) : c(i)[k] \in NativeCodes /\ r = c(i)[k] - 129
    <3>1. \E x \in Range(c(i)) \cap NativeCodes : r = x - 129
      BY <1>3, <2>1, <2>2, <2>4 DEF Range
    <3>2. r \in VicRows
      BY <3>1 DEF NativeCodes, VicRows
    <3> QED
      BY <2>2, <3>1, <3>2 DEF NativeRows
  <2>5. CASE natives = 0 /\ Len(c(i)) > 0 /\ c(i)[1] \notin NativeCodes /\ r = c(i)[1] - 1
    <3>1. c(i) # <<>>
      BY <1>3, <2>1, <2>2, <2>5
    <3>2. r \in VicRows
      <4>1. 1 \in 1..Len(c(i))
        BY <1>3, <2>1, <2>2, <2>5
      <4>2. c(i)[1] \in 1..108
        BY <2>3, <2>5, <4>1 DEF Known
      <4> QED
        BY <2>5, <4>2 DEF VicRows
    <3>3. ASSUME NEW j \in VideoBlocks(blocks), j < i PROVE c(j) = <<>>
      <4>1. j \in 1..(i - 1)
        BY <1>1, <1>5, <2>1, <3>3
      <4> QED
        BY <1>6, <2>1, <2>5, <4>1
    <3> QED
      BY <2>2, <2>5, <3>1, <3>2, <3>3 DEF NativeRows
  <2> QED
    BY <2>3, <2>4, <2>5 DEF CodeRows
<1>8. ASSUME NEW r \in NativeRows(blocks, natives)
      PROVE  rows # {}
  <2> DEFINE T == {i \in 1..n : R(i) # {}}
  <2>1. PICK i \in VideoBlocks(blocks) :
          \/ \E x \in Range(c(i)) \cap NativeCodes : r = x - 129
          \/ natives = 0 /\ c(i) # <<>>
    BY DEF NativeRows
  <2>2. R(i) # {}
    <3>1. CASE natives = 0 /\ c(i) # <<>>
      BY <1>6, <3>1
    <3>2. ASSUME NEW x \in Range(c(i)) \cap NativeCodes PROVE R(i) # {}
      <4>1. PICK k \in 1..Len(c(i)) : c(i)[k] = x
        BY <1>3, <1>5 DEF Range
      <4>2. x - 129 \in CodeRows(c(i), Len(c(i)), natives)
        BY <4>1 DEF CodeRows
      <4> QED
        BY <1>3, <1>5, <4>2
    <3> QED
      BY <2>1, <3>1, <3>2
  <2>3. i \in T /\ T \subseteq Nat
    BY <1>5, <2>2
  <2> HIDE DEF T
  <2>4. PICK m \in T : \A k \in T : m <= k
    BY <2>3, Least
  <2>5. m \in 1..n /\ R(m) # {}
    BY DEF T
  <2>6. ASSUME NEW j \in 1..(m - 1) PROVE R(j) = {}
    <3>1. j \in 1..n /\ ~(m <= j)
      BY <1>1, <2>5
    <3> QED
      BY <2>4, <3>1 DEF T
  <2>7. m \in Leading(bytes, natives, o, n)
    BY <2>5, <2>6 DEF Leading
  <2> QED
    BY <2>5, <2>7 DEF WalkRows
<1> QED
  BY <1>4, <1>7, <1>8

\* The rows that the extensions of a display declare.
RowsOf(d) == UNION {NativeRows(d.exts[e], d.natives) : e \in DOMAIN d.exts}

\* The codes of the display all have a row in the table.
CodesHaveRows(d) ==
    \A place \in Declares(d, "video") :
        Range(BlockAt(d, place).codes) \subseteq NativeCodes \cup 1..108

\* A native timing as the display declares it, up to what the rows hold.
NativeByRows(d, native) ==
    IF RowsOf(d) # {} THEN native \in {VicRow(r) : r \in RowsOf(d)}
    ELSE IF ~d.odd THEN native = Detailed(54)
    ELSE native.from = IF d.natives > 0 /\ d.exts # <<>> THEN "dtd" ELSE "none"

\* The native timing is settled as the display declares it.
LEMMA DisplayNative ==
    ASSUME NEW d, DisplayOK(d), Readable(d), CodesHaveRows(d), Flag(d) # 0,
           NEW names, NEW data \in EdidData(names),
           data.native = IF d.odd THEN NoTiming ELSE Detailed(54)
    PROVE  NativeByRows(d, parse_extension_blocks(Flag(d), EdidBytes(d), EdidLength(d),
                                              data).data.native)
<1> DEFINE bytes == EdidBytes(d)
           o == OffsetsOf(d)
           n == CountsOf(d)
           x == Flag(d)
           count == EdidLength(d)
           N == ToParse(x, count)
           B(e) == Base(x, count, e)
           new == parse_extension_blocks(x, bytes, count, data).data
           R(e) == ExtensionRows(bytes, B(e), o[e], n[e])
           timing == \E e \in 1..N : HasTiming(bytes, B(e))
           found == UNION {R(e) : e \in 1..N}
           L == Len(d.exts)
<1>1. /\ L \in Nat /\ DOMAIN d.exts = 1..L /\ d.natives \in 0..4 /\ x \in Nat \ {0}
      /\ count \in Nat /\ Maps(d) \in Nat
      /\ \A e \in 1..L : d.exts[e] \in Seq(DataBlocks) /\ End(d.exts[e]) <= 56
  BY DisplayTypes, DisplayCounts DEF DisplayOK
<1>2. /\ Accepted(x, bytes, count)
      /\ \/ L > 0 /\ N = L /\ \A e : B(e) = 128 * (e + Maps(d))
         \/ L = 0 /\ N = 1 /\ B(1) = 128 /\ bytes[128] = ExtensionTagBlockMap
  BY ReadableCounts
<1>3. /\ AllLaid(x, bytes, count, o, n) /\ AllSound(x, bytes, count, names)
      /\ \A e \in 1..N : e \in DOMAIN d.exts \/ n[e] = 0
      /\ \A e \in DOMAIN d.exts :
           /\ e \in 1..N /\ n[e] = Len(d.exts[e])
           /\ \A i \in 1..n[e] : o[e][i] \in Nat /\ Stands(bytes, o[e][i], d.exts[e][i])
  BY DisplayLaid
<1>4. ASSUME NEW e \in 1..L
      PROVE  /\ R(e) \subseteq NativeRows(d.exts[e], d.natives)
             /\ NativeRows(d.exts[e], d.natives) # {} => R(e) # {}
             /\ AllKnown(bytes, o[e], n[e]) /\ (HasTiming(bytes, B(e)) <=> d.natives > 0)
  <2>1. /\ n[e] = Len(d.exts[e]) /\ e \in 1..N
        /\ \A i \in 1..Len(d.exts[e]) :
             o[e][i] \in Nat /\ Stands(bytes, o[e][i], d.exts[e][i])
    BY <1>1, <1>3
  <2>2. B(e) = 128 * (e + Maps(d)) /\ B(e) \in Nat
    <3>1. L > 0 /\ e \in Nat
      BY <1>1
    <3> HIDE DEF N, B, L
    <3> QED
      BY <1>1, <1>2, <3>1
  <2>3. \A i \in VideoBlocks(d.exts[e]) :
          Range(d.exts[e][i].codes) \subseteq NativeCodes \cup 1..108
    <3>1. ASSUME NEW i \in VideoBlocks(d.exts[e]) PROVE <<e, i>> \in Declares(d, "video")
      <4>1. i \in DOMAIN d.exts[e] /\ d.exts[e][i].kind = "video"
        BY DEF VideoBlocks
      <4>2. i \in 1..Len(d.exts[e]) /\ e \in DOMAIN d.exts
        BY <1>1, <4>1, LenProperties
      <4>3. <<e, i>> \in Places(d)
        BY <4>2, PlacesOf
      <4> QED
        BY <4>1, <4>3 DEF Declares, BlockAt
    <3> QED
      BY <3>1 DEF CodesHaveRows, BlockAt
  <2> HIDE DEF B, o, n
  <2>4. Extends(bytes, B(e), d.exts[e], d.natives)
    BY <2>2, ExtensionsStand
  <2>5. bytes[B(e)] = AdditionalTiming /\ bytes[B(e) + 3] = d.natives
    <3> DEFINE blocks == d.exts[e]
    <3>1. blocks \in Seq(DataBlocks) /\ End(blocks) <= 56 /\ d.natives \in 0..4
          /\ Extends(bytes, B(e), blocks, d.natives) /\ B(e) \in Nat
      BY <1>1, <2>2, <2>4
    <3> HIDE DEF blocks, bytes
    <3> QED
      BY <3>1, ExtensionHead
  <2>6. HasTiming(bytes, B(e)) <=> d.natives > 0
    BY <1>1, <2>2, <2>4, ExtensionIsLaid
  <2>7. R(e) = WalkRows(bytes, d.natives, o[e], Len(d.exts[e]))
    <3>1. d.natives % 8 = d.natives
      BY <1>1
    <3> QED
      BY <2>1, <2>5, <3>1 DEF ExtensionRows
  <2> HIDE DEF R
  <2>8. LET rows == WalkRows(bytes, d.natives, o[e], Len(d.exts[e]))
        IN /\ rows \subseteq NativeRows(d.exts[e], d.natives)
           /\ NativeRows(d.exts[e], d.natives) # {} => rows # {}
           /\ AllKnown(bytes, o[e], Len(d.exts[e]))
    BY <1>1, <2>1, <2>3, RowsOfBlocks
  <2> QED
    BY <2>1, <2>6, <2>7, <2>8
<1>5. ASSUME NEW e \in 1..N, e \notin 1..L
      PROVE  R(e) = {} /\ ~HasTiming(bytes, B(e)) /\ AllKnown(bytes, o[e], n[e])
  <2>1. n[e] = 0
    BY <1>1, <1>3, <1>5
  <2>2. bytes[B(e)] # AdditionalTiming
    <3>1. e = 1 /\ B(1) = 128 /\ bytes[128] = ExtensionTagBlockMap
      <4> HIDE DEF N, B, L
      <4> QED
        BY <1>2, <1>5
    <3> QED
      BY <3>1 DEF AdditionalTiming, ExtensionTagBlockMap
  <2> HIDE DEF B, n, o
  <2> QED
    BY <2>1, <2>2 DEF ExtensionRows, HasTiming, AllKnown
<1>6. \A e \in 1..L : e \in 1..N
  BY <1>1, <1>3
<1>7. Settled(found, timing, data.native, new.native)
  <2>1. \A e \in 1..N : AllKnown(bytes, o[e], n[e])
    BY <1>4, <1>5
  <2>2. NativeOfAll(x, bytes, count, o, n, data, new)
    <3> HIDE DEF o, n, x, bytes, count, N
    <3> QED
      BY <1>1, <1>2, <1>3, <2>1, ExtensionsNative DEF N
  <2> QED
    BY <2>2 DEF NativeOfAll
<1>8. found \subseteq RowsOf(d) /\ (RowsOf(d) # {} => found # {})
  <2> HIDE DEF R, N, L
  <2>1. \A e \in 1..N : R(e) \subseteq RowsOf(d)
    BY <1>1, <1>4, <1>5 DEF RowsOf
  <2>2. ASSUME NEW e \in 1..L, NEW r \in NativeRows(d.exts[e], d.natives)
        PROVE  found # {}
    <3>1. R(e) # {} /\ e \in 1..N
      BY <1>4, <1>6
    <3> QED
      BY <3>1
  <2>3. \A r \in RowsOf(d) : \E e \in 1..L : r \in NativeRows(d.exts[e], d.natives)
    BY <1>1 DEF RowsOf
  <2>4. found \subseteq RowsOf(d)
    BY <2>1
  <2> HIDE DEF found
  <2> QED
    BY <2>2, <2>3, <2>4
<1>9. timing <=> d.natives > 0 /\ d.exts # <<>>
  <2>1. d.exts # <<>> <=> L # 0
    BY EmptySeq DEF DisplayOK
  <2>2. L # 0 => 1 \in 1..L
    BY <1>1
  <2>3. L = 0 => 1..L = {}
    BY <1>1
  <2> HIDE DEF N, B, L
  <2> QED
    BY <1>4, <1>5, <1>6, <2>1, <2>2, <2>3
<1> HIDE DEF found, timing, new
<1> DEFINE t == new.native
<1>10. /\ RowsOf(d) # {} /\ t \in {VicRow(r) : r \in RowsOf(d)} => NativeByRows(d, t)
       /\ RowsOf(d) = {} /\ ~d.odd /\ t = Detailed(54) => NativeByRows(d, t)
       /\ /\ RowsOf(d) = {} /\ d.odd
          /\ t.from = IF d.natives > 0 /\ d.exts # <<>> THEN "dtd" ELSE "none"
          => NativeByRows(d, t)
  <2> HIDE DEF t
  <2> QED
    BY DEF NativeByRows
<1>11. ASSUME RowsOf(d) # {} PROVE NativeByRows(d, t)
  <2>1. PICK r \in found : t = VicRow(r)
    BY <1>7, <1>8, <1>11 DEF Settled, RowOf
  <2> HIDE DEF t
  <2> QED
    BY <1>8, <1>10, <1>11, <2>1
<1>12. ASSUME RowsOf(d) = {} PROVE NativeByRows(d, t)
  <2>1. found = {}
    BY <1>8, <1>12
  <2>2. CASE ~d.odd
    <3>1. t = Detailed(54)
      BY <1>7, <2>1, <2>2 DEF Settled, Detailed, NoTiming
    <3> HIDE DEF t
    <3> QED
      BY <1>10, <1>12, <2>2, <3>1
  <2>3. CASE d.odd
    <3>1. IF timing THEN \E p \in Nat : t = Detailed(p) ELSE t = NoTiming
      BY <1>7, <2>1, <2>3 DEF Settled
    <3> HIDE DEF t
    <3>2. t.from = IF timing THEN "dtd" ELSE "none"
      BY <3>1 DEF Detailed, NoTiming
    <3>3. t.from = IF d.natives > 0 /\ d.exts # <<>> THEN "dtd" ELSE "none"
      BY <1>9, <3>2
    <3> QED
      BY <1>10, <1>12, <2>3, <3>3
  <2> QED
    BY <2>2, <2>3
<1> QED
  BY <1>11, <1>12 DEF t, new

\* The lengths that the name of a display may have.
ShortNames == 0..13

\* The base block gives the name, and the first timing if its clock can be read.
LEMMA DisplayBase ==
    ASSUME NEW d, DisplayOK(d)
    PROVE  LET base == BaseData(EdidBytes(d))
           IN /\ base \in EdidData(ShortNames) /\ base.name = d.name
              /\ base.address = <<0, 0, 0, 0>> /\ base.hdr = {} /\ base.dv = {}
              /\ base.native = IF d.odd THEN NoTiming ELSE Detailed(54)
<1> DEFINE bytes == EdidBytes(d)
           base == BaseData(bytes)
<1>0. d.place \in 2..4 /\ d.name \in 0..13 /\ d.odd \in BOOLEAN
  BY DEF DisplayOK
<1>1. /\ IsTiming(bytes, 54) <=> ~d.odd
      /\ ~IsName(bytes, 54)
      /\ \A i \in 2..4 : IsName(bytes, 36 + 18 * i) <=> i = d.place /\ d.name > 0
  BY BaseDescriptors
<1>2. d.name > 0 => MonitorName(bytes, 36 + 18 * d.place) = d.name
  BY NameIsFound
<1> HIDE DEF bytes
<1>3. ASSUME NEW p \in Descriptors
      PROVE  IsName(bytes, p) <=> p = 36 + 18 * d.place /\ d.name > 0
  <2>1. CASE p = 54
    <3>1. p # 36 + 18 * d.place
      BY <1>0, <2>1
    <3> QED
      BY <1>1, <2>1, <3>1
  <2>2. ASSUME NEW i \in 2..4, p = 36 + 18 * i
        PROVE  IsName(bytes, p) <=> p = 36 + 18 * d.place /\ d.name > 0
    <3>1. p = 36 + 18 * d.place <=> i = d.place
      BY <1>0, <2>2
    <3>2. IsName(bytes, 36 + 18 * i) <=> i = d.place /\ d.name > 0
      BY <1>1
    <3> QED
      BY <2>2, <3>1, <3>2
  <2>3. p = 54 \/ p = 36 + 18 * 2 \/ p = 36 + 18 * 3 \/ p = 36 + 18 * 4
    BY DEF Descriptors
  <2>4. 2 \in 2..4 /\ 3 \in 2..4 /\ 4 \in 2..4
    OBVIOUS
  <2> QED
    BY <2>1, <2>2, <2>3, <2>4
<1>4. \A p \in Descriptors : Named(bytes, p, ShortNames)
  BY <1>0, <1>2, <1>3 DEF Named, ShortNames
<1>5. 0 \in ShortNames
  BY DEF ShortNames
<1>6. /\ base \in EdidData(ShortNames)
      /\ base.address = <<0, 0, 0, 0>> /\ base.hdr = {} /\ base.dv = {}
      /\ base.native = IF IsTiming(bytes, 54) THEN Detailed(54) ELSE NoTiming
      /\ (\A p \in Descriptors : ~IsName(bytes, p)) => base.name = 0
      /\ \A p \in Descriptors :
           IsName(bytes, p) /\ (\A q \in Descriptors : q > p => ~IsName(bytes, q))
             => base.name = MonitorName(bytes, p)
  BY <1>4, <1>5, BaseTypes
<1> HIDE DEF base
<1>7. base.name = d.name
  <2>1. CASE d.name = 0
    BY <1>3, <1>6, <2>1
  <2>2. CASE d.name > 0
    <3> DEFINE p == 36 + 18 * d.place
    <3>1. p \in Descriptors
      BY <1>0 DEF Descriptors
    <3>2. \A q \in Descriptors : q > p => q # p
      BY <1>0 DEF Descriptors
    <3> HIDE DEF p
    <3>3. IsName(bytes, p) /\ \A q \in Descriptors : q > p => ~IsName(bytes, q)
      BY <1>3, <2>2, <3>1, <3>2 DEF p
    <3> QED
      BY <1>2, <1>6, <2>2, <3>1, <3>3 DEF p
  <2> QED
    BY <1>0, <2>1, <2>2
<1>8. base.native = IF d.odd THEN NoTiming ELSE Detailed(54)
  BY <1>1, <1>6
<1> QED
  BY <1>6, <1>7, <1>8 DEF base, bytes

\* Whatever a display declares, in whatever blocks and extensions, EDID_Parse gives its
\* name; and where it reaches the extensions, the address of the block of HDMI, the
\* transfer functions of that of static metadata, capabilities of Dolby Vision if there
\* is a block of it that fits its version, and a native timing whose row is
\* that of a code that is declared.
THEOREM DisplayParsed ==
    ASSUME NEW d, DisplayOK(d)
    PROVE  LET data == EDID_Parse(EdidBytes(d), EdidLength(d), Blank).data
           IN /\ data \in EdidData(ShortNames) /\ data.name = d.name
              /\ Readable(d) =>
                   /\ Declares(d, "forum") = {} =>
                        \A i \in {1, 2, 4} : data.address[i] = DeclaredAddress(d)[i]
                   /\ data.hdr \cap {"HDR10", "HLG"} = DeclaredEotfs(d) \cap {"HDR10", "HLG"}
                   /\ data.dv # {} <=> \E p \in Declares(d, "dolby") : Fits(BlockAt(d, p))
                   /\ CodesHaveRows(d) => NativeByRows(d, data.native)
<1> DEFINE bytes == EdidBytes(d)
           x == Flag(d)
           count == EdidLength(d)
           data == EDID_Parse(bytes, count, Blank).data
           base == BaseData(bytes)
<1>1. /\ base \in EdidData(ShortNames) /\ base.name = d.name
      /\ base.address = <<0, 0, 0, 0>> /\ base.hdr = {} /\ base.dv = {}
      /\ base.native = IF d.odd THEN NoTiming ELSE Detailed(54)
  BY DisplayBase
<1>2. EDID_Verify(bytes, count) /\ bytes[126] = x /\ x \in 0..31 /\ count \in Nat
  BY BaseHeader, DisplayTypes
<1>3. data = IF x # 0 /\ Accepted(x, bytes, count)
             THEN parse_extension_blocks(x, bytes, count, base).data ELSE base
  <2>1. bytes[126] \in 0..255
    BY <1>2
  <2> HIDE DEF bytes, x, count, base
  <2> QED
    BY <1>2, <2>1, ParseParts DEF base
<1> HIDE DEF data, base
<1>4. CASE x = 0
  <2>1. data = base
    BY <1>3, <1>4
  <2>2. Len(d.exts) = 0 /\ DOMAIN d.exts = {} /\ d.exts = <<>>
    <3>1. Len(d.exts) = 0 /\ DOMAIN d.exts = 1..Len(d.exts)
      BY <1>4, DisplayCounts, DisplayTypes
    <3> QED
      BY <3>1, EmptySeq DEF DisplayOK
  <2>3. \A k : Declares(d, k) = {}
    BY <2>2 DEF Declares, Places
  <2>4. DeclaredAddress(d) = <<0, 0, 0, 0>> /\ DeclaredEotfs(d) = {}
    BY <2>3 DEF DeclaredAddress, DeclaredEotfs
  <2>5. NativeByRows(d, base.native)
    <3>1. RowsOf(d) = {}
      BY <2>2 DEF RowsOf
    <3>2. d.odd => base.native.from = "none"
      BY <1>1 DEF NoTiming
    <3> QED
      BY <1>1, <2>2, <3>1, <3>2 DEF NativeByRows
  <2> QED
    BY <1>1, <2>1, <2>3, <2>4, <2>5 DEF data
<1>5. CASE x # 0 /\ ~Readable(d)
  <2>1. data = base
    BY <1>3, <1>5, UnreadableRefused
  <2> QED
    BY <1>1, <1>5, <2>1 DEF data
<1>6. CASE x # 0 /\ Readable(d)
  <2> DEFINE o == OffsetsOf(d)
             n == CountsOf(d)
  <2>1. /\ Accepted(x, bytes, count) /\ x \in Nat \ {0}
        /\ AllLaid(x, bytes, count, o, n) /\ AllSound(x, bytes, count, ShortNames)
        /\ NoNames(x, bytes, count)
    <3>1. Accepted(x, bytes, count)
      BY <1>6, ReadableCounts
    <3>2. /\ AllLaid(x, bytes, count, o, n) /\ AllSound(x, bytes, count, ShortNames)
          /\ NoNames(x, bytes, count)
      BY <1>6, DisplayLaid
    <3> HIDE DEF x
    <3>3. x \in Nat \ {0}
      BY <1>2, <1>6
    <3> QED
      BY <3>1, <3>2, <3>3
  <2>2. data = parse_extension_blocks(x, bytes, count, base).data
    BY <1>3, <1>6, <2>1
  <2>3. /\ data \in EdidData(ShortNames) /\ data.name = base.name
        /\ LastAddress(x, bytes, count, o, n, base, data)
        /\ LastEotfs(x, bytes, count, o, n, base, data)
        /\ LastDolby(x, bytes, count, o, n, base, data)
    <3> HIDE DEF x, bytes, count, o, n
    <3> QED
      BY <1>1, <1>2, <2>1, <2>2, ExtensionsSay
  <2>4. ASSUME Declares(d, "forum") = {}
        PROVE  \A i \in {1, 2, 4} : data.address[i] = DeclaredAddress(d)[i]
    BY <1>1, <1>6, <2>3, <2>4, DisplayAddress
  <2>5. data.hdr \cap {"HDR10", "HLG"} = DeclaredEotfs(d) \cap {"HDR10", "HLG"}
    BY <1>1, <1>6, <2>3, DisplayEotfs
  <2>6. data.dv # {} <=> \E p \in Declares(d, "dolby") : Fits(BlockAt(d, p))
    BY <1>1, <1>6, <2>3, DisplayDolby
  <2>7. CodesHaveRows(d) => NativeByRows(d, data.native)
    BY <1>1, <1>6, <2>2, DisplayNative
  <2> QED
    BY <1>1, <2>3, <2>4, <2>5, <2>6, <2>7 DEF data
<1> QED
  BY <1>4, <1>5, <1>6

\* Parsed is what EDID_Parse makes of a display.
LEMMA ParsedIs ==
    ASSUME NEW d \in Displays
    PROVE  DisplayOK(d) /\ Parsed(d) = EDID_Parse(EdidBytes(d), EdidLength(d), Blank).data
<1> DEFINE E(x) == EDID_Parse(EdidBytes(x), EdidLength(x), Blank).data
<1>1. Parsings = {[of |-> x, data |-> E(x)] : x \in Displays}
  BY DEF Parsings
<1> HIDE DEF E
<1>2. \E p \in Parsings : p.of = d
  <2>1. [of |-> d, data |-> E(d)] \in Parsings
    BY <1>1
  <2> QED
    BY <2>1
<1>3. \A p \in Parsings : p.of = d => p.data = E(d)
  BY <1>1
<1> QED
  BY <1>2, <1>3, DisplayAssumption DEF Parsed, E

\* The parser fills the fields with values of their types,
LEMMA ParsesTypes == \A d \in Displays : DataOK(Parsed(d))
<1> SUFFICES ASSUME NEW d \in Displays PROVE DataOK(Parsed(d))
  OBVIOUS
<1> DEFINE data == Parsed(d)
<1>1. data \in EdidData(ShortNames)
  BY ParsedIs, DisplayParsed
<1>2. data.name \in 0..13 /\ data.hdr \in HdrSets /\ data.native \in Timings
  BY <1>1 DEF EdidData, ShortNames
<1>3. \A t \in Timings : t.from \in {"none", "dtd", "vic"}
  BY DEF Timings, NoTiming, Detailed, VicRow
<1> QED
  BY <1>2, <1>3 DEF DataOK, HdrSets, HdrCapabilities, Eotfs

\* finds the standards that the display declares,
LEMMA ParsesHdr ==
    \A d \in Displays : Readable(d) =>
        \A loaded \in BOOLEAN : Standards(Parsed(d), loaded) = DeclaredStandards(d, loaded)
<1> SUFFICES ASSUME NEW d \in Displays, Readable(d), NEW loaded \in BOOLEAN
             PROVE  Standards(Parsed(d), loaded) = DeclaredStandards(d, loaded)
  OBVIOUS
<1> DEFINE data == Parsed(d)
           fitting == \E p \in Declares(d, "dolby") : Fits(BlockAt(d, p))
<1>1. /\ data.hdr \cap {"HDR10", "HLG"} = DeclaredEotfs(d) \cap {"HDR10", "HLG"}
      /\ data.dv # {} <=> fitting
  BY ParsedIs, DisplayParsed
<1>2. DeclaredStandards(d, loaded) = (DeclaredEotfs(d) \cap {"HDR10", "HLG"})
                                       \cup (IF loaded /\ fitting THEN {"DolbyVision"} ELSE {})
  BY DEF DeclaredStandards, Fits
<1>3. Standards(data, loaded) = (data.hdr \cap {"HDR10", "HLG"})
                                  \cup (IF data.dv # {} /\ loaded THEN {"DolbyVision"} ELSE {})
  BY DEF Standards
<1> HIDE DEF data, fitting
<1>4. Standards(data, loaded) = DeclaredStandards(d, loaded)
  BY <1>1, <1>2, <1>3
<1> QED
  BY <1>4 DEF data

\* its name and address,
LEMMA ParsesIdentity ==
    \A d \in Displays : Parsed(d).name = d.name /\ AddressOf(d, Parsed(d).address)
BY ParsedIs, DisplayParsed DEF AddressOf

\* The codes that are listed all have rows.
LEMMA ListedHaveRows ==
    ASSUME NEW d, CodesWithin(d, ListedCodes)
    PROVE  CodesHaveRows(d)
<1>1. ListedCodes \subseteq 1..108
  BY DEF ListedCodes
<1> QED
  BY <1>1 DEF CodesWithin, CodesHaveRows

\* Where the codes are listed, the rows hold the formats of the codes.
LEMMA ListedRows ==
    ASSUME NEW d, CodesWithin(d, ListedCodes), NEW native, NativeByRows(d, native),
           \A e \in DOMAIN d.exts : \A i \in VideoBlocks(d.exts[e]) :
               /\ <<e, i>> \in Declares(d, "video")
               /\ d.exts[e][i].codes # <<>> => 1 \in DOMAIN d.exts[e][i].codes
    PROVE  NativeOf(d, native)
<1> DEFINE vics == UNION {CountingCodes(d.exts[e], d.natives) : e \in DOMAIN d.exts}
           Both == ListedCodes \cup ({v + 128 : v \in ListedCodes} \cap NativeCodes)
<1>1. \A x \in Both : /\ x \in NativeCodes => x - 128 \in ListedCodes
                      /\ x \notin NativeCodes => x \in ListedCodes
  BY DEF ListedCodes, NativeCodes
<1>2. \A v \in ListedCodes : /\ v - 1 \in VicRows /\ v \in 1..127
                             /\ VicRow(v - 1) = [from |-> "vic", at |-> v]
  <2> SUFFICES ASSUME NEW v \in ListedCodes
               PROVE  /\ v - 1 \in VicRows /\ v \in 1..127
                      /\ VicRow(v - 1) = [from |-> "vic", at |-> v]
    OBVIOUS
  <2>1. v \in 1..14 /\ v # 8
    BY DEF ListedCodes
  <2>2. VicFormat(v - 1) = v
    <3>1. v - 1 \in (0..13) \ {7} /\ v - 1 \notin 14..56 /\ v - 1 \notin 57..97 /\ (v - 1) + 1 = v
      BY ONLY <2>1
    <3> QED
      BY <3>1 DEF VicFormat
  <2> QED
    BY <2>1, <2>2 DEF VicRow, VicRows
<1>3. ASSUME NEW e \in DOMAIN d.exts, NEW i \in VideoBlocks(d.exts[e])
      PROVE  \A x \in Range(d.exts[e][i].codes) : x \in Both
  BY DEF CodesWithin, BlockAt
<1>4. ASSUME NEW e \in DOMAIN d.exts, NEW i \in VideoBlocks(d.exts[e]),
             d.exts[e][i].codes # <<>>
      PROVE  d.exts[e][i].codes[1] \in Range(d.exts[e][i].codes)
  BY <1>4 DEF Range
<1> HIDE DEF Both
<1>5. ASSUME NEW e \in DOMAIN d.exts, NEW r \in NativeRows(d.exts[e], d.natives)
      PROVE  /\ r + 1 \in CountingCodes(d.exts[e], d.natives)
             /\ VicRow(r) = [from |-> "vic", at |-> r + 1]
  <2> DEFINE c(i) == d.exts[e][i].codes
  <2>1. PICK i \in VideoBlocks(d.exts[e]) :
          \/ \E x \in Range(c(i)) \cap NativeCodes : r = x - 129
          \/ /\ d.natives = 0 /\ c(i) # <<>>
             /\ \A j \in VideoBlocks(d.exts[e]) : j < i => c(j) = <<>>
             /\ c(i)[1] \notin NativeCodes
             /\ r = c(i)[1] - 1
    BY DEF NativeRows
  <2>2. CASE \E x \in Range(c(i)) \cap NativeCodes : r = x - 129
    <3>1. PICK x \in Range(c(i)) \cap NativeCodes : r = x - 129
      BY <2>2
    <3>2. x - 128 \in ListedCodes
      BY <1>1, <1>3
    <3>3. x \in 129..192
      BY DEF NativeCodes
    <3>4. r + 1 \in ListedCodes /\ r + 1 + 128 = x /\ r = (r + 1) - 1
      BY <3>1, <3>2, <3>3
    <3>5. r + 1 \in 1..127 /\ VicRow(r) = [from |-> "vic", at |-> r + 1]
      BY <1>2, <3>4
    <3>6. (r + 1) + 128 \in Range(c(i)) \cap NativeCodes
      BY <3>4
    <3> QED
      BY <3>5, <3>6 DEF CountingCodes
  <2>3. CASE /\ d.natives = 0 /\ c(i) # <<>>
             /\ \A j \in VideoBlocks(d.exts[e]) : j < i => c(j) = <<>>
             /\ c(i)[1] \notin NativeCodes
             /\ r = c(i)[1] - 1
    <3>1. c(i)[1] \in ListedCodes
      BY <1>1, <1>3, <1>4, <2>3
    <3>2. r + 1 = c(i)[1] /\ r = c(i)[1] - 1
      BY <2>3, <3>1 DEF ListedCodes
    <3>3. r + 1 \in 1..127 /\ VicRow(r) = [from |-> "vic", at |-> r + 1]
      BY <1>2, <3>1, <3>2
    <3> QED
      BY <2>3, <3>2, <3>3 DEF CountingCodes
  <2> QED
    BY <2>1, <2>2, <2>3
<1>6. ASSUME NEW e \in DOMAIN d.exts, NEW v \in CountingCodes(d.exts[e], d.natives)
      PROVE  v - 1 \in NativeRows(d.exts[e], d.natives)
  <2> DEFINE c(i) == d.exts[e][i].codes
  <2>1. PICK i \in VideoBlocks(d.exts[e]) :
          \/ v + 128 \in Range(c(i)) \cap NativeCodes
          \/ /\ d.natives = 0 /\ c(i) # <<>>
             /\ \A j \in VideoBlocks(d.exts[e]) : j < i => c(j) = <<>>
             /\ c(i)[1] \notin NativeCodes
             /\ v = c(i)[1]
    BY DEF CountingCodes
  <2>2. v \in 1..127
    BY DEF CountingCodes
  <2>3. CASE v + 128 \in Range(c(i)) \cap NativeCodes
    <3>1. (v + 128) - 128 \in ListedCodes
      BY <1>1, <1>3, <2>3
    <3>3. (v + 128) - 128 = v
      BY ONLY <2>2
    <3>4. v - 1 = (v + 128) - 129
      BY ONLY <2>2
    <3>5. v \in ListedCodes
      BY <3>1, <3>3
    <3>2. v - 1 \in VicRows /\ v - 1 = (v + 128) - 129
      BY <1>2, <3>4, <3>5
    <3> QED
      BY <2>3, <3>2 DEF NativeRows
  <2>4. CASE /\ d.natives = 0 /\ c(i) # <<>>
             /\ \A j \in VideoBlocks(d.exts[e]) : j < i => c(j) = <<>>
             /\ c(i)[1] \notin NativeCodes
             /\ v = c(i)[1]
    <3>1. v \in ListedCodes
      BY <1>1, <1>3, <1>4, <2>4
    <3>2. v - 1 \in VicRows
      BY <1>2, <3>1
    <3> QED
      BY <2>4, <3>2 DEF NativeRows
  <2> QED
    BY <2>1, <2>3, <2>4
<1>8. \A r \in RowsOf(d) : r + 1 \in vics /\ VicRow(r) = [from |-> "vic", at |-> r + 1]
  BY <1>5 DEF RowsOf
<1>7. RowsOf(d) # {} <=> vics # {}
  <2>1. \A v \in vics : v - 1 \in RowsOf(d)
    BY <1>6 DEF RowsOf
  <2> HIDE DEF vics
  <2> QED
    BY <1>8, <2>1
<1>9. CASE RowsOf(d) # {}
  <2>1. PICK r \in RowsOf(d) : native = VicRow(r)
    BY <1>9 DEF NativeByRows
  <2>2. native \in {[from |-> "vic", at |-> v] : v \in vics}
    BY <1>8, <2>1
  <2> QED
    BY <1>7, <1>9, <2>2 DEF NativeOf
<1>10. CASE RowsOf(d) = {}
  BY <1>7, <1>10 DEF NativeOf, NativeByRows
<1> QED
  BY <1>9, <1>10

\* and a native timing that it declares.
LEMMA ParsesNative ==
    \A d \in Displays :
        Readable(d) /\ CodesWithin(d, ListedCodes) => NativeOf(d, Parsed(d).native)
<1> SUFFICES ASSUME NEW d \in Displays, Readable(d), CodesWithin(d, ListedCodes)
             PROVE  NativeOf(d, Parsed(d).native)
  OBVIOUS
<1>1. DisplayOK(d)
  BY ParsedIs
<1>2. NativeByRows(d, Parsed(d).native)
  BY ParsedIs, DisplayParsed, ListedHaveRows
<1>3. ASSUME NEW e \in DOMAIN d.exts, NEW i \in VideoBlocks(d.exts[e])
      PROVE  /\ <<e, i>> \in Declares(d, "video")
             /\ d.exts[e][i].codes # <<>> => 1 \in DOMAIN d.exts[e][i].codes
  <2> DEFINE blocks == d.exts[e]
  <2>1. blocks \in Seq(DataBlocks)
    BY <1>1, DisplayTypes DEF DisplayOK
  <2>2. i \in DOMAIN blocks /\ blocks[i].kind = "video"
    BY DEF VideoBlocks
  <2>3. i \in 1..Len(blocks) /\ blocks[i] \in DataBlocks
    BY <2>1, <2>2, LenProperties, EndsOf
  <2>4. <<e, i>> \in Declares(d, "video")
    BY <1>1, <2>2, <2>3, PlacesOf DEF Declares, BlockAt
  <2>5. blocks[i].codes \in Seq(0..255)
    BY <2>2, <2>3 DEF DataBlocks
  <2>6. blocks[i].codes # <<>> => 1 \in DOMAIN blocks[i].codes
    <3> DEFINE s == blocks[i].codes
    <3>1. s \in Seq(0..255)
      BY <2>5
    <3> HIDE DEF s
    <3>2. s # <<>> => 1 \in DOMAIN s
      BY <3>1, EmptySeq, LenProperties
    <3> QED
      BY <3>2 DEF s
  <2> QED
    BY <2>4, <2>6
<1> QED
  BY <1>2, <1>3, ListedRows

-----------------------------------------------------------------------------
(* What the getters answer *)

\* Whatever the cable does between the reads of a call, what dsGetTVHDRCapabilities
\* and dsGetEDID answer comes from the EDID of one display that was plugged during the
\* call, or else the cable moved and the structure is what it was before it was
\* parsed; the bytes that dsGetEDIDBytes gives are of such a display.
OneDisplayIsRead ==
    \A t \in Callers :
        /\ Done(t, "hdr") =>
             \E data : /\ answer[t].standards = Standards(data, driver)
                       /\ \/ ~Steady(t) /\ data \in Garbage \cup {Blank}
                          \/ \E p \in plugged[t] : p[1] \in Displays /\ data = Parsed(p[1])
        /\ Done(t, "edid") =>
             \E data : /\ answer[t].name = data.name /\ answer[t].address = data.address
                       /\ \/ ~Steady(t) /\ data = Blank
                          \/ \E p \in plugged[t] : p[1] \in Displays /\ data = Parsed(p[1])
        /\ Done(t, "bytes") /\ answer[t].given =>
             \E p \in plugged[t] : p[1] = answer[t].of

\* No answer mixes two displays, for any displays, drivers and moves of the cable.
THEOREM AnswersAreOfOneDisplay == Spec => []OneDisplayIsRead
<1>1. ParseInv => OneDisplayIsRead
  <2> SUFFICES ASSUME ParseInv, NEW t \in Callers, pc[t] = "done"
               PROVE  /\ Done(t, "hdr") =>
                           \E data : /\ answer[t].standards = Standards(data, driver)
                                     /\ \/ ~Steady(t) /\ data \in Garbage \cup {Blank}
                                        \/ \E p \in plugged[t] :
                                             p[1] \in Displays /\ data = Parsed(p[1])
                      /\ Done(t, "edid") =>
                           \E data : /\ answer[t].name = data.name
                                     /\ answer[t].address = data.address
                                     /\ \/ ~Steady(t) /\ data = Blank
                                        \/ \E p \in plugged[t] :
                                             p[1] \in Displays /\ data = Parsed(p[1])
                      /\ Done(t, "bytes") /\ answer[t].given =>
                           \E p \in plugged[t] : p[1] = answer[t].of
    BY DEF OneDisplayIsRead, Done, At
  <2>1. Answered(t) /\ (Moved(t) => ~Steady(t))
    BY SteadyOne DEF ParseInv, Parses
  <2>2. ASSUME Done(t, "hdr")
        PROVE  /\ answer[t].standards = Standards(edidData[t], driver)
               /\ \/ ~Steady(t) /\ edidData[t] \in Garbage \cup {Blank}
                  \/ \E p \in plugged[t] : p[1] \in Displays /\ edidData[t] = Parsed(p[1])
    BY <2>1, <2>2 DEF Answered, OfOneParse, Unparsed
  <2>3. ASSUME Done(t, "edid")
        PROVE  /\ answer[t].name = edidData[t].name /\ answer[t].address = edidData[t].address
               /\ \/ ~Steady(t) /\ edidData[t] = Blank
                  \/ \E p \in plugged[t] : p[1] \in Displays /\ edidData[t] = Parsed(p[1])
    BY <2>1, <2>3 DEF Answered, OfOneParse, Unparsed, Done
  <2>4. Done(t, "bytes") /\ answer[t].given => \E p \in plugged[t] : p[1] = answer[t].of
    BY <2>1 DEF Answered
  <2> QED
    BY <2>2, <2>3, <2>4
<1> QED
  BY <1>1, ParseInvariant, PTL

\* dsGetTVHDRCapabilities gives what the display declares, wherever its blocks stand,
\* whatever other calls, cable and output do.
THEOREM TvHdrIsThatOfTheDisplay == Spec => []TvHdrIsDeclared
<1>1. Spec => [](driver \in BOOLEAN)
  <2>1. Init => driver \in BOOLEAN
    BY DEF Init
  <2>2. driver \in BOOLEAN /\ [Next]_vars => (driver \in BOOLEAN)'
    <3> SUFFICES ASSUME [Next]_vars PROVE UNCHANGED driver
      OBVIOUS
    <3>1. ASSUME NEW t \in Callers, Step(t) PROVE UNCHANGED driver
      BY <3>1 DEF Step, Leave, DeviceFails, NoConnector, GetConnector, GetBlob, AnswerEDID, AnswerHDR,
         ReadColor, ReadEotf, ReadMatrix, device
    <3> QED
      BY <3>1 DEF Next, Call, MoveCable, SwitchOutput, Finished, vars
  <2> QED
    BY <2>1, <2>2, PTL DEF Spec
<1>2. ParseInv /\ driver \in BOOLEAN => TvHdrIsDeclared
  <2> SUFFICES ASSUME ParseInv, driver \in BOOLEAN, NEW t \in Callers, Done(t, "hdr"),
                      Steady(t), Readable(sink)
               PROVE  answer[t].standards = DeclaredStandards(sink, driver)
    BY DEF TvHdrIsDeclared
  <2>1. OfOneParse(t) /\ answer[t].standards = Standards(edidData[t], driver)
    BY DEF ParseInv, Parses, Answered
  <2>2. sink \in Displays /\ edidData[t] = Parsed(sink)
    BY <2>1, SteadyParse DEF Done, At
  <2> QED
    BY <2>1, <2>2, ParsesHdr
<1> QED
  BY <1>1, <1>2, ParseInvariant, PTL

\* Whatever the cable does, dsGetEDID gives the name and the address that one display
\* declares, or none at all.
THEOREM EdidNamesOneDisplay == Spec => []EdidIsOfADisplay
<1>1. ParseInv => EdidIsOfADisplay
  <2> SUFFICES ASSUME ParseInv, NEW t \in Callers, Done(t, "edid")
               PROVE  /\ \/ ~Steady(t) /\ answer[t].name = 0
                              /\ answer[t].address = <<0, 0, 0, 0>>
                         \/ \E p \in plugged[t] :
                              /\ p[1] # NoDisplay /\ p[1].name = answer[t].name
                              /\ AddressOf(p[1], answer[t].address)
                      /\ answer[t].hdmi => \E p \in plugged[t] :
                              p[1] # NoDisplay /\ Declares(p[1], "hdmi") # {}
    BY DEF EdidIsOfADisplay
  <2>0. pc[t] # "idle" /\ call[t] = "edid"
    BY DEF Done, At
  <2>1. /\ OfOneParse(t)
        /\ answer[t].name = edidData[t].name /\ answer[t].address = edidData[t].address
    BY DEF ParseInv, Parses, Answered
  <2>2. answer[t].hdmi => \E p \in plugged[t] :
          p[1] # NoDisplay /\ Declares(p[1], "hdmi") # {}
    BY DEF ParseInv, Parses, Answered
  <2>3. CASE Moved(t) /\ Unparsed(t)
    <3>1. edidData[t] = Blank
      BY <2>0, <2>3 DEF Unparsed
    <3>2. ~Steady(t)
      BY <2>0, <2>3, SteadyOne
    <3> QED
      BY <2>1, <2>2, <3>1, <3>2 DEF Blank
  <2>4. ASSUME NEW p \in plugged[t], p[1] \in Displays, edidData[t] = Parsed(p[1])
        PROVE  /\ p[1] # NoDisplay /\ p[1].name = answer[t].name
               /\ AddressOf(p[1], answer[t].address)
    <3>1. p[1] # NoDisplay
      BY <2>4, SinkAssumption
    <3> QED
      BY <2>1, <2>4, <3>1, ParsesIdentity
  <2> QED
    BY <2>1, <2>2, <2>3, <2>4 DEF OfOneParse
<1> QED
  BY <1>1, ParseInvariant, PTL

\* The native timing that the parser settles on is one that the display that stayed
\* plugged declares, if the codes of its video blocks are before those that the table
\* leaves out.
THEOREM NativeIsThatOfTheDisplay == Spec => []NativeIsDeclared
<1>1. ParseInv => NativeIsDeclared
  <2> SUFFICES ASSUME ParseInv, NEW t \in Callers, At(t, "parsed"), Steady(t),
                      Readable(sink), CodesWithin(sink, ListedCodes)
               PROVE  NativeOf(sink, edidData[t].native)
    BY DEF NativeIsDeclared
  <2>1. OfOneParse(t)
    BY DEF ParseInv, Parses, Answered, At
  <2>2. sink \in Displays /\ edidData[t] = Parsed(sink)
    BY <2>1, SteadyParse DEF At
  <2> QED
    BY <2>2, ParsesNative
<1> QED
  BY <1>1, ParseInvariant, PTL

-----------------------------------------------------------------------------
(* Types *)

Shades == {ColorOf(c) : c \in ColorSpaces} \cup {"none"}

LEMMA SinkBounds == MaxCalls \in Nat /\ MaxMoves \in Nat
BY SinkAssumption

\* What the structure is before it is parsed has the types of what it is after.
LEMMA UnparsedTypes == \A data \in Garbage \cup {Blank} : DataOK(data)
<1>1. DataOK(Blank)
  BY DEF DataOK, Blank, NoTiming
<1>2. ASSUME NEW data \in Garbage PROVE DataOK(data)
  <2>1. PICK h \in {{}, {"HDR10"}, {"HDR10", "HLG"}}, v \in {{}, {"Native"}} :
          data = [Blank EXCEPT !.hdr = h, !.dv = v]
    BY DEF Garbage
  <2>2. data.name = 0 /\ data.native = NoTiming /\ data.hdr = h
    BY <2>1 DEF Blank
  <2> QED
    BY <2>2 DEF DataOK, NoTiming
<1> QED
  BY <1>1, <1>2

\* The types hold at the start,
LEMMA InitTypes == Init => TypeOK
<1> SUFFICES ASSUME Init PROVE TypeOK
  OBVIOUS
<1>1. blob \in 0..MaxMoves /\ calls \in 0..MaxCalls /\ moves \in 0..MaxMoves
  BY SinkBounds DEF Init
<1>2. held \in [Callers -> 0..MaxMoves]
  BY SinkBounds DEF Init
<1>3. \A t \in Callers : DataOK(edidData[t])
  BY UnparsedTypes DEF Init
<1>4. /\ sink \in Sinks /\ driver \in BOOLEAN /\ output \in Outputs
      /\ pc \in [Callers -> {"idle", "blob", "parsed", "eotf", "done", "crashed"} \cup AllOps]
      /\ call \in [Callers -> AllOps \cup {"none"}]
      /\ part \in [Callers -> Shades]
      /\ ret \in [Callers -> {"none", "general", "invalid state"}]
  BY DEF Init, Shades
<1>5. unread \in [Callers -> BOOLEAN]
  BY DEF Init
<1> QED
  BY <1>1, <1>2, <1>3, <1>4, <1>5 DEF TypeOK, Shades

\* The blobs are numbered by the moves of the cable.
Numbered == TypeOK /\ ParseInv /\ blob <= moves

\* and every step keeps them.
LEMMA NextSinkTypes == Numbered /\ [Next]_vars => TypeOK' /\ (blob <= moves)'
<1> SUFFICES ASSUME Numbered, [Next]_vars
             PROVE  TypeOK' /\ (blob <= moves)'
  OBVIOUS
<1>0. DOMAIN edidData = Callers
  BY DEF Numbered, ParseInv, SinkLocals
<1>1. ASSUME NEW t \in Callers, NEW op \in Ops, Call(t, op)
      PROVE  TypeOK' /\ (blob <= moves)'
  <2>1. op \in AllOps
    BY SinkAssumption
  <2>2. /\ pc' = [pc EXCEPT ![t] = op] /\ call' = [call EXCEPT ![t] = op]
        /\ calls < MaxCalls /\ calls' = calls + 1
        /\ UNCHANGED <<sink, blob, driver, output, held, edidData, part, ret, unread, moves>>
    BY <1>1 DEF Call, Goto
  <2>3. calls' \in 0..MaxCalls
    <3>1. calls \in 0..MaxCalls
      BY DEF Numbered, TypeOK
    <3> QED
      BY ONLY <2>2, <3>1, SinkBounds
  <2>4. /\ pc' \in [Callers -> {"idle", "blob", "parsed", "eotf", "done", "crashed"} \cup AllOps]
        /\ call' \in [Callers -> AllOps \cup {"none"}]
    BY <2>1, <2>2 DEF Numbered, TypeOK
  <2> QED
    BY <2>2, <2>3, <2>4 DEF Numbered, TypeOK
<1>2. ASSUME NEW t \in Callers, Leave(t)
      PROVE  TypeOK' /\ (blob <= moves)'
  <2>1. /\ pc' = [pc EXCEPT ![t] = "idle"] /\ call' = [call EXCEPT ![t] = "none"]
        /\ held' = [held EXCEPT ![t] = 0] /\ edidData' = [edidData EXCEPT ![t] = Blank]
        /\ part' = [part EXCEPT ![t] = "none"] /\ ret' = [ret EXCEPT ![t] = "none"]
        /\ unread' = [unread EXCEPT ![t] = FALSE]
        /\ UNCHANGED <<sink, blob, driver, output, calls, moves>>
    BY <1>2 DEF Leave, Goto
  <2>2. \A o \in Callers : DataOK(edidData'[o])
    BY <1>0, <2>1, UnparsedTypes DEF Numbered, TypeOK
  <2>3. /\ pc' \in [Callers -> {"idle", "blob", "parsed", "eotf", "done", "crashed"} \cup AllOps]
        /\ call' \in [Callers -> AllOps \cup {"none"}]
    BY <2>1 DEF Numbered, TypeOK
  <2>4. held' \in [Callers -> 0..MaxMoves]
    <3>1. 0 \in 0..MaxMoves
      BY ONLY SinkBounds
    <3> QED
      BY <2>1, <3>1 DEF Numbered, TypeOK
  <2>5. /\ part' \in [Callers -> Shades]
        /\ ret' \in [Callers -> {"none", "general", "invalid state"}]
        /\ unread' \in [Callers -> BOOLEAN]
    BY <2>1 DEF Numbered, TypeOK, Shades
  <2> QED
    BY <2>1, <2>2, <2>3, <2>4, <2>5 DEF Numbered, TypeOK, Shades
<1>3. ASSUME NEW t \in Callers,
             \/ DeviceFails(t) \/ NoConnector(t) \/ GetConnector(t) \/ GetBlob(t)
             \/ AnswerEDID(t) \/ AnswerHDR(t) \/ ReadColor(t) \/ ReadEotf(t)
             \/ ReadMatrix(t)
      PROVE  TypeOK' /\ (blob <= moves)'
  <2>1. UNCHANGED <<sink, blob, driver, output, call, calls, moves>>
    BY <1>3 DEF DeviceFails, NoConnector, GetConnector, GetBlob, AnswerEDID, AnswerHDR, ReadColor,
       ReadEotf, ReadMatrix, device
  <2>2. /\ \E l \in {"blob", "parsed", "eotf", "done", "crashed"} : pc' = [pc EXCEPT ![t] = l]
        /\ \/ ret' = ret
           \/ \E r \in {"none", "general", "invalid state"} : ret' = [ret EXCEPT ![t] = r]
    <3>1. CASE \/ DeviceFails(t) \/ AnswerEDID(t) \/ AnswerHDR(t)
               \/ ReadEotf(t) \/ ReadMatrix(t)
      BY <3>1 DEF DeviceFails, AnswerEDID, AnswerHDR, ReadEotf, ReadMatrix, Return, Goto
    <3>2. CASE ReadColor(t) \/ NoConnector(t) \/ GetConnector(t)
      BY <3>2 DEF ReadColor, NoConnector, GetConnector, Return, Goto
    <3>3. CASE GetBlob(t)
      BY <3>3 DEF GetBlob, Return, Goto
    <3> QED
      BY <1>3, <3>1, <3>2, <3>3
  <2>3. held' = held \/ held' = [held EXCEPT ![t] = blob]
    BY <1>3 DEF DeviceFails, NoConnector, GetConnector, GetBlob, AnswerEDID, AnswerHDR, ReadColor,
       ReadEotf, ReadMatrix
  <2>4. part' = part \/ part' = [part EXCEPT ![t] = ColorOf(output.color)]
    BY <1>3 DEF DeviceFails, NoConnector, GetConnector, GetBlob, AnswerEDID, AnswerHDR, ReadColor,
       ReadEotf, ReadMatrix
  <2>5. ColorOf(output.color) \in Shades
    BY SinkAssumption DEF Numbered, TypeOK, AllOutputs, Shades
  <2>9. unread' = unread \/ \E r \in BOOLEAN : unread' = [unread EXCEPT ![t] = r]
    BY <1>3 DEF DeviceFails, NoConnector, GetConnector, GetBlob, AnswerEDID, AnswerHDR,
       ReadColor, ReadEotf, ReadMatrix
  <2>6. \A o \in Callers : DataOK(edidData'[o])
    <3>1. CASE edidData' = edidData
      BY <3>1 DEF Numbered, TypeOK
    <3>2. CASE GetConnector(t)
      <4>1. \/ edidData' = edidData
            \/ \E d \in Garbage \cup {Blank} : edidData' = [edidData EXCEPT ![t] = d]
        BY <3>2 DEF GetConnector
      <4> QED
        BY <1>0, <4>1, UnparsedTypes DEF Numbered, TypeOK
    <3>3. CASE GetBlob(t)
      <4>1. \/ edidData' = [edidData EXCEPT ![t] = @]
            \/ sink \in Displays /\ edidData' = [edidData EXCEPT ![t] = Parsed(sink)]
        BY <3>3 DEF GetBlob, Numbered, TypeOK, Sinks
      <4> QED
        BY <1>0, <4>1, ParsesTypes DEF Numbered, TypeOK
    <3> QED
      BY <1>3, <3>1, <3>2, <3>3 DEF DeviceFails, NoConnector, AnswerEDID, AnswerHDR, ReadColor,
         ReadEotf, ReadMatrix
  <2>7. /\ pc' \in [Callers -> {"idle", "blob", "parsed", "eotf", "done", "crashed"} \cup AllOps]
        /\ ret' \in [Callers -> {"none", "general", "invalid state"}]
    BY <2>2 DEF Numbered, TypeOK
  <2>8. /\ held' \in [Callers -> 0..MaxMoves]
        /\ part' \in [Callers -> Shades]
        /\ unread' \in [Callers -> BOOLEAN]
    <3>1. part \in [Callers -> Shades] /\ unread \in [Callers -> BOOLEAN]
      BY DEF Numbered, TypeOK, Shades
    <3>2. part' \in [Callers -> Shades]
      BY <2>4, <2>5, <3>1
    <3>3. unread' \in [Callers -> BOOLEAN]
      BY <2>9, <3>1
    <3> QED
      BY <2>3, <3>2, <3>3 DEF Numbered, TypeOK
  <2> QED
    BY <2>1, <2>6, <2>7, <2>8 DEF Numbered, TypeOK, Shades
<1>4. ASSUME NEW d \in Swapped \cup {NoDisplay}, MoveCable(d)
      PROVE  TypeOK' /\ (blob <= moves)'
  <2>1. d \in Sinks
    BY SinkAssumption DEF Sinks
  <2>2. /\ sink' = d /\ blob' = blob + 1 /\ moves' = moves + 1 /\ moves < MaxMoves
        /\ UNCHANGED <<driver, output, calls, pc, call, held, edidData, part, ret, unread>>
    BY <1>4 DEF MoveCable, locals
  <2>3. /\ blob' \in 0..MaxMoves /\ moves' \in 0..MaxMoves /\ blob' <= moves'
    <3>1. blob \in 0..MaxMoves /\ moves \in 0..MaxMoves /\ blob <= moves
      BY DEF Numbered, TypeOK
    <3> QED
      BY ONLY <2>2, <3>1, SinkBounds
  <2> QED
    BY <2>1, <2>2, <2>3 DEF Numbered, TypeOK
<1>5. ASSUME NEW o \in Outputs, SwitchOutput(o)
      PROVE  TypeOK' /\ (blob <= moves)'
  <2>1. /\ output' = o /\ moves' = moves + 1 /\ moves < MaxMoves
        /\ UNCHANGED <<sink, blob, driver, calls, pc, call, held, edidData, part, ret, unread>>
    BY <1>5 DEF SwitchOutput, locals
  <2>2. moves' \in 0..MaxMoves /\ blob' <= moves'
    <3>1. blob \in 0..MaxMoves /\ moves \in 0..MaxMoves /\ blob <= moves
      BY DEF Numbered, TypeOK
    <3> QED
      BY ONLY <2>1, <3>1, SinkBounds
  <2> QED
    BY <2>1, <2>2 DEF Numbered, TypeOK
<1>6. CASE Finished \/ UNCHANGED vars
  <2>1. UNCHANGED vars
    BY <1>6 DEF Finished
  <2> QED
    BY <2>1 DEF vars, Numbered, TypeOK
<1> QED
  BY <1>1, <1>2, <1>3, <1>4, <1>5, <1>6 DEF Next, Step

\* The variables have their types, and what is read of a display fits its fields.
THEOREM SinkTypes == Spec => []TypeOK
<1>1. Init => Numbered
  BY InitTypes, InitParses DEF Init, Numbered
<1>2. Numbered /\ [Next]_vars => Numbered'
  BY NextSinkTypes, NextParses DEF Numbered
<1>3. Numbered => TypeOK
  BY DEF Numbered
<1> QED
  BY <1>1, <1>2, <1>3, PTL DEF Spec
=============================================================================
