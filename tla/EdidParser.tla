----------------------------- MODULE EdidParser -----------------------------
(***************************************************************************)
(* EDID_Parse of edid-parser.c as operators on the bytes of an EDID.       *)
(*                                                                         *)
(* bytes[i] is the byte at offset i.  Of edid_data_t the module keeps what *)
(* has structure: the length of monitor_name, the physical address, the    *)
(* sets of HDR and Dolby Vision capabilities and where the native timing   *)
(* comes from: the offset of a detailed timing, or a row of the table vic, *)
(* given by the code whose format the row holds.  The numbers copied as they are (product, serial, week, year) and  *)
(* the timings that are only printed are left out.                         *)
(***************************************************************************)
EXTENDS Integers, Sequences, SequencesExt

\* n bits of a byte from bit "from" on.
Bits(byte, from, n) == (byte \div 2^from) % 2^n
Bit(byte, i) == Bits(byte, i, 1) = 1

\* Tag and length in the first byte of a data block.
Tag(byte) == byte \div 32
Length(byte) == byte % 32

NoTiming == [from |-> "none", at |-> 0]      \* EDID_NOT_NATIVE
Detailed(offset) == [from |-> "dtd", at |-> offset]
VicRows == 0..107

\* The code of CTA-861 whose format a row of the table vic holds, 0 for none.  The
\* table leaves out the codes 15 to 24, has code 67 twice and ends ten rows early;
\* its row of code 8 is interlaced, which no code is.
VicFormat(row) ==
    CASE row \in (0..13) \ {7} -> row + 1
      [] row \in 14..56 -> row + 11
      [] row \in 57..97 -> row + 10
      [] OTHER -> 0
VicRow(row) == [from |-> "vic", at |-> VicFormat(row)]

\* The structure after memset.
Blank == [name |-> 0, address |-> <<0, 0, 0, 0>>, hdr |-> {}, dv |-> {},
          colorimetry |-> 0, native |-> NoTiming]

-----------------------------------------------------------------------------
(* Detailed timings and monitor descriptors *)

Printable == 32..126

\* Mutant of MonitorName: the end of the name is not looked for.
WholeMonitorName(bytes, p) == 14

\* The loop over the characters stops after 14, one more than a descriptor has.
MonitorName(bytes, p) ==
    Min({k \in 0..14 : k = 14 \/ bytes[p + 5 + k] \notin Printable})

parse_monitor_descriptor(bytes, p, data) ==
    IF bytes[p + 2] = 0 /\ bytes[p + 3] = 252
    THEN [data EXCEPT !.name = MonitorName(bytes, p)] ELSE data

\* Two zero bytes of pixel clock mark a descriptor, a single one an invalid timing.
parse_dtd(bytes, p, native, data) ==
    CASE bytes[p] = 0 /\ bytes[p + 1] = 0 -> parse_monitor_descriptor(bytes, p, data)
      [] bytes[p] # 0 /\ bytes[p + 1] # 0 /\ native ->
           [data EXCEPT !.native = Detailed(p)]
      [] OTHER -> data

-----------------------------------------------------------------------------
(* The data blocks of a CTA extension; p is the offset of a block *)

NativeCodes == 129..192

\* Mutant of parse_ext_video: every code counts, native or not.
parse_any_video(codes, natives, res) ==
    IF res # NoTiming \/ codes = <<>> \/ (codes[1] % 128) - 1 \notin VicRows
    THEN res ELSE VicRow((codes[1] % 128) - 1)

\* found_native stays set once a code counted: a later code is then taken as it
\* is, without the subtraction, if the one that counted was outside the table.
parse_ext_video(codes, natives, res) ==
    LET Counts(i) == codes[i] \in NativeCodes \/ (natives = 0 /\ i = 1)
        Row(i) == IF Counts(i) THEN (IF codes[i] \in NativeCodes THEN codes[i] % 128
                                                               ELSE codes[i]) - 1
                               ELSE codes[i]
        Rows == {i \in DOMAIN codes : Row(i) \in VicRows /\ \E j \in 1..i : Counts(j)}
    IN IF res = NoTiming /\ Rows # {} THEN VicRow(Row(Min(Rows))) ELSE res

HDR10_PLUS_IEEE_OUI == <<139, 132, 144>>
DV_IEEE_OUI == <<70, 208, 0>>

\* Capabilities of a Dolby Vision block of a version and length it may have.
DolbyVersion(bytes, p) == Bits(bytes[p + 5], 5, 3)
DolbyLengths == <<{25}, {11, 14}, 11..31>>
DolbyCapabilities(bytes, p, length) ==
    LET version == DolbyVersion(bytes, p)
        Has(capability, cond) == IF cond THEN {capability} ELSE {}
        interface == IF version = 2 THEN bytes[p + 7] % 4 ELSE bytes[p + 8] % 4
    IN Has("Native", Bit(bytes[p + 5], 0))
         \cup Has("4K60", version = 2 \/ Bit(bytes[p + 5], 1))
         \cup Has("Sink_led", version < 2 \/ interface > 1)
         \cup Has("Source_led", version = 2 \/ (version = 1 /\ length = 11 /\ interface = 1))
         \cup Has("444_DeepColor", version = 2 /\ (Bit(bytes[p + 8], 0) \/ Bit(bytes[p + 9], 0)))

\* A length that does not fit the version leaves no Dolby Vision capability.
parse_vendor_specific_video_data_block(bytes, p, data) ==
    LET ieeeoui == <<bytes[p + 2], bytes[p + 3], bytes[p + 4]>>
        length == Length(bytes[p])
        version == DolbyVersion(bytes, p)
    IN CASE ieeeoui = HDR10_PLUS_IEEE_OUI ->
              [data EXCEPT !.hdr = @ \cup {"HDR10_PLUS"}]
         [] ieeeoui = DV_IEEE_OUI /\ version <= 2 ->
              IF length \in DolbyLengths[version + 1]
              THEN [data EXCEPT !.dv = DolbyCapabilities(bytes, p, length),
                                !.hdr = @ \cup {"DolbyVision"}]
              ELSE [data EXCEPT !.dv = {}]
         [] OTHER -> data

HdrOf(eotfs) ==
    {s \in {"SDR", "Traditional_HDR", "HDR10", "HLG"} :
       Bit(eotfs, CASE s = "SDR" -> 0 [] s = "Traditional_HDR" -> 1
                    [] s = "HDR10" -> 2 [] s = "HLG" -> 3)}

\* The block of static metadata starts the HDR capabilities afresh.
parse_extended_db(bytes, p, data) ==
    CASE bytes[p + 1] = 1 -> parse_vendor_specific_video_data_block(bytes, p, data)
      [] bytes[p + 1] = 5 ->
           [data EXCEPT !.colorimetry = bytes[p + 2] * 256 + bytes[p + 3]]
      [] bytes[p + 1] = 6 -> [data EXCEPT !.hdr = HdrOf(bytes[p + 2])]
      [] OTHER -> data

\* Mutant of parse_vendor_specific_block: the nibbles are exchanged.
parse_swapped_vendor_block(bytes, p, data) ==
    [data EXCEPT !.address = <<bytes[p + 4] % 16, bytes[p + 4] \div 16,
                               bytes[p + 3] \div 16, bytes[p + 5] % 16>>]

\* Whoever the vendor is; the third number is read from the identifier of the vendor.
parse_vendor_specific_block(bytes, p, data) ==
    [data EXCEPT !.address = <<bytes[p + 4] \div 16, bytes[p + 4] % 16,
                               bytes[p + 3] \div 16, bytes[p + 5] % 16>>]

-----------------------------------------------------------------------------
(* Extensions; base is the offset of the extension *)

\* Mutant of NextBlock: the header byte of a block is not stepped over.
NextBlockShort(bytes, p) == p + Max({1, Length(bytes[p])})

NextBlock(bytes, p) == p + 1 + Length(bytes[p])

\* The loop is at the block at acc.at; acc.video is ext_video_res, the native timing
\* of this extension's video blocks.
ParseBlock(bytes, natives, acc) ==
    LET p == acc.at
        tag == Tag(bytes[p])
        codes == [i \in 1..Length(bytes[p]) |-> bytes[p + i]]
        next == [acc EXCEPT !.at = NextBlock(bytes, p)]
    IN CASE tag = 2 -> [next EXCEPT !.video = parse_ext_video(codes, natives, @)]
         [] tag = 3 -> [next EXCEPT !.data = parse_vendor_specific_block(bytes, p, @)]
         [] tag = 7 -> [next EXCEPT !.data = parse_extended_db(bytes, p, @)]
         [] OTHER -> next

\* The loop over the data blocks from offset "from" to the first timing at "to": every
\* turn goes on by a byte at least.
BlockLoop(bytes, natives, from, to, data) ==
    LET turns == Max({0, to - from})
        walked[i \in 0..turns] ==
            IF i = 0 THEN [at |-> from, data |-> data, video |-> NoTiming]
            ELSE LET acc == walked[i - 1]
                 IN IF acc.at < to THEN ParseBlock(bytes, natives, acc) ELSE acc
    IN walked[turns]

\* The loop over the four detailed timings of an extension.
TimingLoop(bytes, dtds, data) ==
    LET Next(acc, k) == parse_dtd(bytes, dtds + 18 * k, acc.native = NoTiming, acc)
    IN Next(Next(Next(Next(data, 0), 1), 2), 3)

\* The native timing of a video block goes before one found already, which goes
\* before the detailed timings of this extension.
parse_ext_timing(bytes, base, data) ==
    LET dtds == base + bytes[base + 2]
        walked == BlockLoop(bytes, bytes[base + 3] % 8, base + 4, dtds, data)
        known == IF walked.video = NoTiming THEN walked.data
                 ELSE [walked.data EXCEPT !.native = walked.video]
    IN IF known.native # NoTiming THEN known ELSE TimingLoop(bytes, dtds, known)

AdditionalTiming == 2
ExtensionTagBlockMap == 240

parse_extension_block(bytes, base, data) ==
    IF bytes[base] = AdditionalTiming THEN parse_ext_timing(bytes, base, data) ELSE data

\* A block too many is taken for an extension that was not counted.  More than
\* one extension needs the map of blocks, which is skipped.
parse_extension_blocks(extensions, bytes, count, data) ==
    LET n == IF count = 128 * (2 + extensions) THEN extensions + 1 ELSE extensions
        skip == IF n > 1 THEN 1 ELSE 0
        parsed[k \in 0..(n - skip)] ==
            IF k = 0 THEN data
                     ELSE parse_extension_block(bytes, 128 * (k + skip), parsed[k - 1])
    IN CASE count < 128 * (1 + extensions) -> [status |-> "invalid header", data |-> data]
         [] count >= 128 * (1 + extensions) /\ n > 1 /\ bytes[128] # ExtensionTagBlockMap ->
              [status |-> "not supported", data |-> data]
         [] OTHER ->
              [status |-> "ok", data |-> parsed[n - skip]]

-----------------------------------------------------------------------------

Header == <<0, 255, 255, 255, 255, 255, 255, 0>>

EDID_Verify(bytes, count) ==
    count >= 128 /\ \A i \in 1..8 : bytes[i - 1] = Header[i]

\* What the structure holds after the call, and the status.  A header that is not
\* one of an EDID leaves the structure as it was before.
EDID_Parse(bytes, count, before) ==
    LET first == parse_dtd(bytes, 54, TRUE, Blank)
        second == parse_dtd(bytes, 72, FALSE, first)
        third == parse_dtd(bytes, 90, FALSE, second)
        base == parse_dtd(bytes, 108, FALSE, third)
    IN CASE ~EDID_Verify(bytes, count) -> [status |-> "invalid", data |-> before]
         [] EDID_Verify(bytes, count) /\ bytes[126] = 0 -> [status |-> "ok", data |-> base]
         [] OTHER -> parse_extension_blocks(bytes[126], bytes, count, base)
=============================================================================
