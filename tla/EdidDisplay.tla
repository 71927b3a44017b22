---------------------------- MODULE EdidDisplay ----------------------------
(***************************************************************************)
(* Displays and the EDID they carry: what a display declares, and the      *)
(* bytes in which E-EDID and CTA-861 write it.  The module belongs to the  *)
(* environment: it is what EdidParser has to understand.                   *)
(*                                                                         *)
(* A display is a record                                                   *)
(*   name     length of its name, 0 for none, at most 13                   *)
(*   place    descriptor (2..4) that holds the name; the others are        *)
(*            monitor descriptors too                                      *)
(*   odd      whether the clock of its first timing has a zero byte        *)
(*   natives  number of native detailed timings                            *)
(*   exts     the CTA extensions, each a sequence of data blocks           *)
(*   map      "none", "counted" or "uncounted": the map of the blocks      *)
(***************************************************************************)
EXTENDS Integers, Sequences

\* Data blocks.
Audio == [kind |-> "audio"]
Video(codes) == [kind |-> "video", codes |-> codes]
Hdmi(address) == [kind |-> "hdmi", address |-> address]
Forum == [kind |-> "forum"]
Static(eotfs) == [kind |-> "static", eotfs |-> eotfs]
Dolby(version, length) == [kind |-> "dolby", version |-> version, length |-> length]
Hdr10Plus == [kind |-> "hdr10plus"]
Colorimetry(bits) == [kind |-> "colorimetry", bits |-> bits]

StaticEotfs == {"SDR", "HDR10", "HLG"}
DataBlocks ==
    [kind : {"audio", "forum", "hdr10plus"}]
      \cup [kind : {"video"}, codes : {s \in Seq(0..255) : Len(s) <= 31}]
      \cup [kind : {"hdmi"}, address : (0..15) \X (0..15) \X (0..15) \X (0..15)]
      \cup [kind : {"static"}, eotfs : SUBSET StaticEotfs]
      \cup [kind : {"dolby"}, version : 0..7, length : 11..31]
      \cup [kind : {"colorimetry"}, bits : 0..255]

-----------------------------------------------------------------------------
(* Data blocks and descriptors as bytes *)

BlockHead(tag, length) == tag * 32 + length
EotfByte(eotfs) ==
    (IF "SDR" \in eotfs THEN 1 ELSE 0) + (IF "HDR10" \in eotfs THEN 4 ELSE 0)
      + (IF "HLG" \in eotfs THEN 8 ELSE 0)

\* The bytes of a block after the one that holds its kind and their number.
Payload(b) ==
    CASE b.kind = "audio" -> <<9, 7, 7>>
      [] b.kind = "video" -> b.codes
      [] b.kind = "hdmi" ->
           <<3, 12, 0, b.address[1] * 16 + b.address[2], b.address[3] * 16 + b.address[4]>>
      [] b.kind = "forum" -> <<216, 93, 196, 1, 120, 128, 0>>
      [] b.kind = "static" -> <<6, EotfByte(b.eotfs), 1>>
      [] b.kind = "dolby" ->
           [i \in 1..b.length |-> CASE i = 1 -> 1 [] i = 2 -> 70 [] i = 3 -> 208 [] i = 4 -> 0
                                    [] i = 5 -> b.version * 32 + 2 [] OTHER -> 1]
      [] b.kind = "hdr10plus" -> <<1, 139, 132, 144, 1>>
      [] b.kind = "colorimetry" -> <<5, b.bits, 0>>

TagOf(b) ==
    CASE b.kind = "audio" -> 1
      [] b.kind = "video" -> 2
      [] b.kind \in {"hdmi", "forum"} -> 3
      [] OTHER -> 7

\* The byte k of a block, from 0 on.
BlockByte(b, k) == IF k = 0 THEN BlockHead(TagOf(b), Len(Payload(b))) ELSE Payload(b)[k]

\* Descriptors of 18 bytes: a timing with the first byte of its clock, the name, a
\* range of frequencies.
TimingByte(clock, k) == CASE k = 0 -> clock [] k = 1 -> 58 [] OTHER -> 24
NameByte(length, k) ==
    CASE k = 3 -> 252
      [] k \in {0, 1, 2, 4} -> 0
      [] k \in 5..(4 + length) -> 65
      [] k = 5 + length -> 10
      [] OTHER -> 32
RangeByte(k) == CASE k = 3 -> 253 [] k \in {0, 1, 2, 4} -> 0 [] OTHER -> 40

-----------------------------------------------------------------------------
(* The EDID *)

\* Where the blocks of an extension end: the block i begins where the one before ends.
Ends(blocks) ==
    LET at[i \in 0..Len(blocks)] ==
            IF i = 0 THEN 4 ELSE at[i - 1] + 1 + Len(Payload(blocks[i]))
    IN at
End(blocks) == Ends(blocks)[Len(blocks)]

ExtensionByte(blocks, natives, p) ==
    LET end == End(blocks)
        Begin(j) == Ends(blocks)[j - 1]
        i == CHOOSE j \in 1..Len(blocks) : p \in Begin(j)..(Ends(blocks)[j] - 1)
    IN CASE p = 0 -> 2
         [] p = 1 -> 3
         [] p = 2 -> end
         [] p = 3 -> natives
         [] p \in 4..(end - 1) -> BlockByte(blocks[i], p - Begin(i))
         [] p \in end..(end + 18 * natives - 1) -> TimingByte(2, (p - end) % 18)
         [] OTHER -> 0

\* The number the display writes into its extension flag.
Flag(d) == Len(d.exts) + (IF d.map = "counted" THEN 1 ELSE 0)

BaseByte(d, p) ==
    LET descriptor == ((p - 54) \div 18) + 1
        k == (p - 54) % 18
    IN CASE p \in 1..6 -> 255
         [] p = 126 -> Flag(d)
         [] p \in 54..125 ->
              (CASE descriptor = 1 -> TimingByte(IF d.odd THEN 0 ELSE 2, k)
                 [] descriptor = d.place /\ d.name > 0 -> NameByte(d.name, k)
                 [] OTHER -> RangeByte(k))
         [] OTHER -> 0

Maps(d) == IF d.map = "none" THEN 0 ELSE 1
EdidLength(d) == 128 * (1 + Len(d.exts) + Maps(d))

EdidBytes(d) ==
    [p \in 0..(EdidLength(d) - 1) |->
       LET block == p \div 128
           k == p % 128
       IN CASE block = 0 -> BaseByte(d, k)
            [] block = 1 /\ d.map # "none" -> IF k = 0 THEN 240 ELSE 0
            [] OTHER -> ExtensionByte(d.exts[block - Maps(d)], d.natives, k)]

-----------------------------------------------------------------------------
(* What the display declares *)

Places(d) == UNION {{e} \X DOMAIN d.exts[e] : e \in DOMAIN d.exts}
BlockAt(d, place) == d.exts[place[1]][place[2]]
Declares(d, kind) == {place \in Places(d) : BlockAt(d, place).kind = kind}

DeclaredEotfs(d) == UNION {BlockAt(d, place).eotfs : place \in Declares(d, "static")}
DeclaredAddress(d) ==
    IF Declares(d, "hdmi") = {} THEN <<0, 0, 0, 0>>
    ELSE BlockAt(d, CHOOSE place \in Declares(d, "hdmi") : TRUE).address

\* The video blocks of an extension.
VideoBlocks(blocks) == {i \in DOMAIN blocks : blocks[i].kind = "video"}

\* A display that keeps to the standards: its blocks and four timings have room in an
\* extension, and it declares HDMI, static metadata and Dolby Vision once at most.  It has
\* at most 30 extensions: their number is the byte after a name that fills the last
\* descriptor, and from 32 on that byte is a letter.
DisplayOK(d) ==
    /\ d.name \in 0..13 /\ d.place \in 2..4 /\ d.odd \in BOOLEAN /\ d.natives \in 0..4
    /\ d.map \in {"none", "counted", "uncounted"}
    /\ d.exts \in Seq(Seq(DataBlocks)) /\ Len(d.exts) <= 30
    /\ \A e \in DOMAIN d.exts : End(d.exts[e]) <= 56
    /\ \A kind \in {"hdmi", "static", "dolby"} : \A p, q \in Declares(d, kind) : p = q
=============================================================================
