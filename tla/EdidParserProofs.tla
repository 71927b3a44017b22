-------------------------- MODULE EdidParserProofs --------------------------
(***************************************************************************)
(* Theorems about EDID_Parse for any bytes: it ends, fills edid_data_t     *)
(* with values of its fields, and finds what the data blocks say, wherever *)
(* they stand.  At the end, where the bytes of a display are in its EDID.  *)
(***************************************************************************)
EXTENDS EdidParser, EdidDisplay, NaturalsInduction, WellFoundedInduction,
        SequenceTheorems, TLAPS

(***************************************************************************)
(* Loops.  A loop of n turns is a function on 0..n: g[i] is the state of   *)
(* the loop after i turns, F[i] what turn i makes of the state before it.  *)
(***************************************************************************)
Runs(g, A, a, n, F) ==
    g \in [0..n -> A] /\ g[0] = a /\ \A i \in 1..n : g[i] = F[i][g[i - 1]]

\* A set of numbers that is not empty has a least one.
LEMMA Least ==
    ASSUME NEW T, T \subseteq Nat, T # {}
    PROVE  \E m \in T : \A n \in T : m <= n
<1> DEFINE R == {p \in Nat \X Nat : p[1] < p[2]}
<1>1. IsWellFoundedOn(R, Nat)
  BY NatLessThanWellFounded DEF OpToRel
<1>2. PICK m \in T : \A n \in T : ~(<<n, m>> \in R)
  BY <1>1, WFMin
<1>3. \A n \in T : n \in Nat /\ m \in Nat /\ ~(n < m)
  BY <1>2
<1> QED
  BY <1>3

\* Induction over the turns of a loop, for the set of turns that have a property.
LEMMA EveryTurn ==
    ASSUME NEW n \in Nat, NEW S, 0 \in S, \A i \in 1..n : i - 1 \in S => i \in S
    PROVE  0..n \subseteq S
<1> DEFINE T == {i \in 0..n : i \notin S}
<1> SUFFICES ASSUME T # {} PROVE FALSE
  OBVIOUS
<1>1. PICK m \in T : \A i \in T : m <= i
  <2>1. T \subseteq Nat
    OBVIOUS
  <2> HIDE DEF T
  <2> QED
    BY <2>1, Least
<1>2. m \in 1..n /\ m - 1 \in 0..n
  OBVIOUS
<1>3. m - 1 \notin T
  BY <1>1, <1>2
<1> QED
  BY <1>2, <1>3

\* A loop whose turns keep its states in a set has a run.
LEMMA LoopRuns ==
    ASSUME NEW A, NEW a \in A, NEW n \in Nat, NEW F \in [1..n -> [A -> A]]
    PROVE  \E g : Runs(g, A, a, n, F)
<1> DEFINE S == {k \in 0..n : \E g : Runs(g, A, a, k, F)}
<1>1. 0 \in S
  <2> DEFINE g == [i \in 0..0 |-> a]
  <2>1. Runs(g, A, a, 0, F)
    BY DEF Runs
  <2> HIDE DEF g
  <2> QED
    BY <2>1
<1>2. ASSUME NEW k \in 1..n, k - 1 \in S
      PROVE  k \in S
  <2>1. PICK g : Runs(g, A, a, k - 1, F)
    BY <1>2
  <2> DEFINE h == [i \in 0..k |-> IF i = k THEN F[k][g[k - 1]] ELSE g[i]]
  <2>2. F[k][g[k - 1]] \in A
    BY <2>1 DEF Runs
  <2>3. h \in [0..k -> A] /\ h[0] = a
    BY <2>1, <2>2 DEF Runs
  <2>4. ASSUME NEW i \in 1..k PROVE h[i] = F[i][h[i - 1]]
    <3>1. CASE i = k
      BY <3>1
    <3>2. CASE i # k
      BY <2>1, <3>2 DEF Runs
    <3> QED
      BY <3>1, <3>2
  <2>5. Runs(h, A, a, k, F)
    <3> HIDE DEF h
    <3> QED
      BY <2>3, <2>4 DEF Runs
  <2> HIDE DEF h
  <2> QED
    BY <2>5
<1> HIDE DEF S
<1>3. 0..n \subseteq S
  BY <1>1, <1>2, EveryTurn
<1>4. n \in S
  BY <1>3
<1> QED
  BY <1>4 DEF S

\* What no turn changes after the first ones is at the end what they left.
LEMMA StaysSince ==
    ASSUME NEW n \in Nat, NEW first \in 0..n, NEW h,
           \A i \in (first + 1)..n : h[i] = h[i - 1]
    PROVE  h[n] = h[first]
<1> DEFINE S == {i \in 0..n : i >= first => h[i] = h[first]}
<1>1. 0 \in S
  OBVIOUS
<1>2. \A i \in 1..n : i - 1 \in S => i \in S
  OBVIOUS
<1>3. 0..n \subseteq S
  <2> HIDE DEF S
  <2> QED
    BY <1>1, <1>2, EveryTurn
<1> QED
  BY <1>3

-----------------------------------------------------------------------------
(***************************************************************************)
(* Types: edid_data_t when names are the lengths its name may have.        *)
(***************************************************************************)
Names == 0..14
Nibble == 0..15
Addresses == Nibble \X Nibble \X Nibble \X Nibble
Eotfs == {"SDR", "Traditional_HDR", "HDR10", "HLG"}
HdrCapabilities == Eotfs \cup {"HDR10_PLUS", "DolbyVision"}
HdrSets == SUBSET HdrCapabilities
DvSets == SUBSET {"Native", "4K60", "Sink_led", "Source_led", "444_DeepColor"}
Colorimetries == {c \in Nat : c < 65536}
Timings == {NoTiming} \cup {Detailed(p) : p \in Nat} \cup {VicRow(r) : r \in VicRows}

EdidData(names) ==
    [name : names, address : Addresses, hdr : HdrSets, dv : DvSets,
     colorimetry : Colorimetries, native : Timings]

\* The bytes at the offsets from..to can be read.
AreBytes(bytes, from, to) == \A p \in from..to : bytes[p] \in 0..255

\* At p there is a timing, or a descriptor with a name; if so, of one of the lengths.
IsTiming(bytes, p) == bytes[p] # 0 /\ bytes[p + 1] # 0
IsName(bytes, p) ==
    bytes[p] = 0 /\ bytes[p + 1] = 0 /\ bytes[p + 2] = 0 /\ bytes[p + 3] = 252
Named(bytes, p, names) == IsName(bytes, p) => MonitorName(bytes, p) \in names

\* The least number of a set is in it.
LEMMA MinIsIn ==
    ASSUME NEW S, S \subseteq Nat, S # {}
    PROVE  Min(S) \in S
<1>1. \E x \in S : \A y \in S : x <= y
  BY Least
<1> QED
  BY <1>1 DEF Min

\* The loop over the characters of a name stops after 14.
LEMMA NameLength ==
    ASSUME NEW bytes, NEW p
    PROVE  Named(bytes, p, Names)
<1> DEFINE S == {k \in 0..14 : k = 14 \/ bytes[p + 5 + k] \notin Printable}
<1>1. 14 \in S /\ S \subseteq Nat
  OBVIOUS
<1> HIDE DEF S
<1>2. Min(S) \in S
  BY <1>1, MinIsIn
<1> QED
  BY <1>2 DEF S, Named, MonitorName, Names

\* A descriptor or timing leaves everything but the name and the native timing.
OnlyNameOrNative(data, new, names) ==
    /\ new \in EdidData(names)
    /\ new.address = data.address /\ new.hdr = data.hdr /\ new.dv = data.dv

DtdSays(bytes, p, native, data, new) ==
    /\ new.name = IF IsName(bytes, p) THEN MonitorName(bytes, p) ELSE data.name
    /\ new.native = IF IsTiming(bytes, p) /\ native THEN Detailed(p) ELSE data.native

\* A descriptor or a timing changes the name or the native timing, as DtdSays says.
LEMMA DtdTypes ==
    ASSUME NEW names, NEW data \in EdidData(names), NEW bytes, NEW p \in Nat,
           NEW native \in BOOLEAN, Named(bytes, p, names)
    PROVE  LET new == parse_dtd(bytes, p, native, data)
           IN OnlyNameOrNative(data, new, names) /\ DtdSays(bytes, p, native, data, new)
<1> DEFINE new == parse_dtd(bytes, p, native, data)
<1>1. OnlyNameOrNative(data, data, names)
  BY DEF OnlyNameOrNative
<1>2. CASE IsName(bytes, p)
  <2>1. new = [data EXCEPT !.name = MonitorName(bytes, p)]
    BY <1>2 DEF IsName, parse_dtd, parse_monitor_descriptor
  <2>2. MonitorName(bytes, p) \in names /\ ~IsTiming(bytes, p)
    BY <1>2 DEF Named, IsName, IsTiming
  <2> QED
    BY <1>2, <2>1, <2>2 DEF OnlyNameOrNative, DtdSays, EdidData
<1>3. CASE IsTiming(bytes, p) /\ native
  <2>1. new = [data EXCEPT !.native = Detailed(p)]
    BY <1>3 DEF IsTiming, parse_dtd
  <2>2. Detailed(p) \in Timings /\ ~IsName(bytes, p)
    BY <1>3 DEF Timings, IsName, IsTiming
  <2> QED
    BY <1>3, <2>1, <2>2 DEF OnlyNameOrNative, DtdSays, EdidData
<1>4. CASE ~IsName(bytes, p) /\ ~(IsTiming(bytes, p) /\ native)
  <2>1. new = data
    BY <1>4 DEF IsName, IsTiming, parse_dtd, parse_monitor_descriptor
  <2> QED
    BY <1>1, <1>4, <2>1 DEF DtdSays
<1> QED
  BY <1>2, <1>3, <1>4

\* A native timing of a video block is a row of the table: the index is tested.
LEMMA VideoTypes ==
    ASSUME NEW res \in Timings, NEW natives, NEW n \in Nat, NEW codes, DOMAIN codes = 1..n
    PROVE  parse_ext_video(codes, natives, res) \in Timings
<1> DEFINE Counts(i) == codes[i] \in NativeCodes \/ (natives = 0 /\ i = 1)
           Row(i) == IF Counts(i) THEN (IF codes[i] \in NativeCodes THEN codes[i] % 128
                                                                  ELSE codes[i]) - 1
                                  ELSE codes[i]
           Rows == {i \in DOMAIN codes : Row(i) \in VicRows /\ \E j \in 1..i : Counts(j)}
<1>1. parse_ext_video(codes, natives, res) =
        IF res = NoTiming /\ Rows # {} THEN VicRow(Row(Min(Rows))) ELSE res
  BY DEF parse_ext_video
<1>2. Rows \subseteq Nat
  OBVIOUS
<1>3. ASSUME Rows # {} PROVE VicRow(Row(Min(Rows))) \in Timings
  <2>1. Min(Rows) \in Rows
    <3> HIDE DEF Rows
    <3> QED
      BY <1>2, <1>3, MinIsIn
  <2>2. Row(Min(Rows)) \in VicRows
    BY <2>1
  <2> HIDE DEF Rows, Row
  <2> QED
    BY <2>2 DEF Timings
<1> HIDE DEF Rows, Row
<1> QED
  BY <1>1, <1>3

\* The rows of the codes that count as native: the native ones, and the first where
\* no detailed timing is native.  The codes that are known have a row in the table.
CodeRows(codes, n, natives) ==
    {codes[i] - 129 : i \in {k \in 1..n : codes[k] \in NativeCodes}}
    \cup (IF natives = 0 /\ n > 0 /\ codes[1] \notin NativeCodes THEN {codes[1] - 1} ELSE {})
Known(codes, n) == \A i \in 1..n : codes[i] \in NativeCodes \cup 1..108

RowOf(rows, timing) == \E r \in rows : timing = VicRow(r)

\* Of codes that are known the first that counts gives the timing.
LEMMA VideoSays ==
    ASSUME NEW natives, NEW n \in Nat, NEW codes, DOMAIN codes = 1..n, Known(codes, n)
    PROVE  LET rows == CodeRows(codes, n, natives)
               found == parse_ext_video(codes, natives, NoTiming)
           IN IF rows = {} THEN found = NoTiming ELSE RowOf(rows, found)
<1> DEFINE Counts(i) == codes[i] \in NativeCodes \/ (natives = 0 /\ i = 1)
           Row(i) == IF Counts(i) THEN (IF codes[i] \in NativeCodes THEN codes[i] % 128
                                                                  ELSE codes[i]) - 1
                                  ELSE codes[i]
           Rows == {i \in DOMAIN codes : Row(i) \in VicRows /\ \E j \in 1..i : Counts(j)}
           Counting == {i \in 1..n : Counts(i)}
           rows == CodeRows(codes, n, natives)
<1>1. parse_ext_video(codes, natives, NoTiming) =
        IF Rows # {} THEN VicRow(Row(Min(Rows))) ELSE NoTiming
  BY DEF parse_ext_video
<1>2. ASSUME NEW i \in Counting
      PROVE  Row(i) \in VicRows /\ Row(i) \in rows
  <2>1. CASE codes[i] \in NativeCodes
    <3>1. \A c \in NativeCodes : (c % 128) - 1 = c - 129 /\ c - 129 \in VicRows
      BY DEF NativeCodes, VicRows
    <3>2. Row(i) = codes[i] - 129 /\ Row(i) \in VicRows
      BY <2>1, <3>1
    <3> QED
      BY <2>1, <3>2 DEF CodeRows
  <2>2. CASE codes[i] \notin NativeCodes
    <3>1. i = 1 /\ natives = 0 /\ n > 0
      BY <2>2
    <3>2. codes[1] \in 1..108 /\ Row(1) = codes[1] - 1
      BY <2>2, <3>1 DEF Known
    <3> QED
      BY <2>2, <3>1, <3>2 DEF CodeRows, VicRows
  <2> QED
    BY <2>1, <2>2
<1>3. rows # {} => Counting # {}
  BY DEF CodeRows
<1>4. ASSUME NEW i \in Rows, \A k \in Rows : i <= k
      PROVE  i \in Counting
  <2>1. PICK j \in 1..i : Counts(j)
    OBVIOUS
  <2>2. i \in 1..n /\ j \in 1..n
    OBVIOUS
  <2>3. j \in Counting
    BY <2>1, <2>2
  <2>4. j \in Rows
    BY <1>2, <2>1, <2>2, <2>3
  <2> QED
    BY <1>4, <2>2, <2>3, <2>4
<1>5. Counting # {} => Rows # {}
  BY <1>2
<1>6. Rows \subseteq Nat
  OBVIOUS
<1> HIDE DEF Rows
<1>7. ASSUME Rows # {}
      PROVE  Min(Rows) \in Counting
  <2>1. \E x \in Rows : \A y \in Rows : x <= y
    BY <1>6, <1>7, Least
  <2>2. Min(Rows) \in Rows /\ \A y \in Rows : Min(Rows) <= y
    BY <2>1 DEF Min
  <2> HIDE DEF Counting
  <2> QED
    BY <1>4, <2>2
<1>8. Rows # {} => RowOf(rows, VicRow(Row(Min(Rows)))) /\ rows # {}
  <2> HIDE DEF Counting, Row, rows
  <2> QED
    BY <1>2, <1>7 DEF RowOf
<1> HIDE DEF Row, Counting, rows
<1> QED
  BY <1>1, <1>3, <1>5, <1>8 DEF rows

(***************************************************************************)
(* What the block at p says, and what a block of its kind leaves.          *)
(***************************************************************************)
IsVendor(bytes, p) == Tag(bytes[p]) = 3
IsStatic(bytes, p) == Tag(bytes[p]) = 7 /\ bytes[p + 1] = 6
IsDolby(bytes, p) ==
    /\ Tag(bytes[p]) = 7 /\ bytes[p + 1] = 1
    /\ <<bytes[p + 2], bytes[p + 3], bytes[p + 4]>> = DV_IEEE_OUI
    /\ DolbyVersion(bytes, p) <= 2

AddressAt(bytes, p) ==
    <<bytes[p + 4] \div 16, bytes[p + 4] % 16, bytes[p + 3] \div 16, bytes[p + 5] % 16>>
DolbyAt(bytes, p) ==
    IF Length(bytes[p]) \in DolbyLengths[DolbyVersion(bytes, p) + 1]
    THEN DolbyCapabilities(bytes, p, Length(bytes[p])) ELSE {}

\* The block at p changes the structure from data to new.
BlockSays(bytes, p, data, new) ==
    /\ new.name = data.name /\ new.native = data.native
    /\ new.address = IF IsVendor(bytes, p) THEN AddressAt(bytes, p) ELSE data.address
    /\ new.hdr \cap Eotfs = IF IsStatic(bytes, p) THEN HdrOf(bytes[p + 2])
                                                  ELSE data.hdr \cap Eotfs
    /\ new.dv = IF IsDolby(bytes, p) THEN DolbyAt(bytes, p) ELSE data.dv

\* The first byte of a block has a tag of 3 bits and a length of 5.
LEMMA HeaderTypes ==
    ASSUME NEW byte \in 0..255
    PROVE  Length(byte) \in 0..31 /\ Tag(byte) \in 0..7
BY DEF Length, Tag

\* The capabilities of a Dolby Vision block are among those that have a name.
LEMMA DolbyTypes ==
    ASSUME NEW bytes, NEW p
    PROVE  DolbyAt(bytes, p) \in DvSets
<1> DEFINE length == Length(bytes[p])
<1>1. DolbyCapabilities(bytes, p, length) \in DvSets
  BY DEF DolbyCapabilities, DvSets
<1> QED
  BY <1>1 DEF DolbyAt, DvSets

\* The vendor's block of video data.
LEMMA VideoDataBlock ==
    ASSUME NEW names, NEW data \in EdidData(names), NEW bytes, NEW p \in Nat,
           Tag(bytes[p]) = 7, bytes[p + 1] = 1
    PROVE  LET new == parse_vendor_specific_video_data_block(bytes, p, data)
           IN new \in EdidData(names) /\ BlockSays(bytes, p, data, new)
<1> DEFINE new == parse_vendor_specific_video_data_block(bytes, p, data)
           ieeeoui == <<bytes[p + 2], bytes[p + 3], bytes[p + 4]>>
<1>1. ~IsVendor(bytes, p) /\ ~IsStatic(bytes, p)
  BY DEF IsVendor, IsStatic
<1>2. HDR10_PLUS_IEEE_OUI # DV_IEEE_OUI
  BY DEF HDR10_PLUS_IEEE_OUI, DV_IEEE_OUI
<1>3. /\ data.hdr \cup {"HDR10_PLUS"} \in HdrSets /\ data.hdr \cup {"DolbyVision"} \in HdrSets
      /\ (data.hdr \cup {"HDR10_PLUS"}) \cap Eotfs = data.hdr \cap Eotfs
      /\ (data.hdr \cup {"DolbyVision"}) \cap Eotfs = data.hdr \cap Eotfs
  BY DEF EdidData, HdrSets, HdrCapabilities, Eotfs
<1>4. CASE ieeeoui = HDR10_PLUS_IEEE_OUI
  <2>1. new = [data EXCEPT !.hdr = @ \cup {"HDR10_PLUS"}]
    <3>1. ieeeoui # DV_IEEE_OUI
      BY <1>2, <1>4
    <3> QED
      BY <1>4, <3>1 DEF parse_vendor_specific_video_data_block
  <2>2. ~IsDolby(bytes, p)
    BY <1>2, <1>4 DEF IsDolby
  <2> QED
    BY <1>1, <1>3, <2>1, <2>2 DEF EdidData, BlockSays
<1>5. CASE ieeeoui = DV_IEEE_OUI /\ DolbyVersion(bytes, p) <= 2
  <2>1. new = IF Length(bytes[p]) \in DolbyLengths[DolbyVersion(bytes, p) + 1]
              THEN [data EXCEPT !.dv = DolbyCapabilities(bytes, p, Length(bytes[p])),
                                !.hdr = @ \cup {"DolbyVision"}]
              ELSE [data EXCEPT !.dv = {}]
    BY <1>2, <1>5 DEF parse_vendor_specific_video_data_block
  <2>2. IsDolby(bytes, p)
    BY <1>5 DEF IsDolby
  <2>3. DolbyAt(bytes, p) \in DvSets
    BY DolbyTypes
  <2>4. CASE Length(bytes[p]) \in DolbyLengths[DolbyVersion(bytes, p) + 1]
    BY <1>1, <1>3, <2>1, <2>2, <2>3, <2>4 DEF EdidData, BlockSays, DolbyAt
  <2>5. CASE Length(bytes[p]) \notin DolbyLengths[DolbyVersion(bytes, p) + 1]
    BY <1>1, <2>1, <2>2, <2>3, <2>5 DEF EdidData, BlockSays, DolbyAt
  <2> QED
    BY <2>4, <2>5
<1>6. CASE ieeeoui # HDR10_PLUS_IEEE_OUI /\ ~(ieeeoui = DV_IEEE_OUI /\ DolbyVersion(bytes, p) <= 2)
  <2>1. new = data
    BY <1>6 DEF parse_vendor_specific_video_data_block
  <2>2. ~IsDolby(bytes, p)
    BY <1>6 DEF IsDolby
  <2> QED
    BY <1>1, <2>1, <2>2 DEF BlockSays
<1> QED
  BY <1>4, <1>5, <1>6

\* Two bytes of colorimetry make a number below 2^16.
LEMMA Word ==
    ASSUME NEW high \in 0..255, NEW low \in 0..255
    PROVE  high * 256 + low \in Colorimetries
BY DEF Colorimetries

\* A block with an extended tag.
LEMMA ExtendedBlock ==
    ASSUME NEW names, NEW data \in EdidData(names), NEW bytes, NEW p \in Nat,
           Tag(bytes[p]) = 7, AreBytes(bytes, p, p + 5)
    PROVE  LET new == parse_extended_db(bytes, p, data)
           IN new \in EdidData(names) /\ BlockSays(bytes, p, data, new)
<1> DEFINE new == parse_extended_db(bytes, p, data)
<1>1. ~IsVendor(bytes, p)
  BY DEF IsVendor
<1>2. CASE bytes[p + 1] = 1
  <2>1. new = parse_vendor_specific_video_data_block(bytes, p, data)
    BY <1>2 DEF parse_extended_db
  <2> QED
    BY <1>2, <2>1, VideoDataBlock
<1>3. CASE bytes[p + 1] = 5
  <2>1. new = [data EXCEPT !.colorimetry = bytes[p + 2] * 256 + bytes[p + 3]]
    BY <1>3 DEF parse_extended_db
  <2>2. bytes[p + 2] \in 0..255 /\ bytes[p + 3] \in 0..255
    BY DEF AreBytes
  <2>3. bytes[p + 2] * 256 + bytes[p + 3] \in Colorimetries
    BY <2>2, Word
  <2>4. ~IsStatic(bytes, p) /\ ~IsDolby(bytes, p)
    BY <1>3 DEF IsStatic, IsDolby
  <2> QED
    BY <1>1, <2>1, <2>3, <2>4 DEF EdidData, BlockSays
<1>4. CASE bytes[p + 1] = 6
  <2>1. new = [data EXCEPT !.hdr = HdrOf(bytes[p + 2])]
    BY <1>4 DEF parse_extended_db
  <2>2. HdrOf(bytes[p + 2]) \in HdrSets /\ HdrOf(bytes[p + 2]) \cap Eotfs = HdrOf(bytes[p + 2])
    BY DEF HdrOf, HdrSets, HdrCapabilities, Eotfs
  <2>3. IsStatic(bytes, p) /\ ~IsDolby(bytes, p)
    BY <1>4 DEF IsStatic, IsDolby
  <2> QED
    BY <1>1, <2>1, <2>2, <2>3 DEF EdidData, BlockSays
<1>5. CASE bytes[p + 1] \notin {1, 5, 6}
  <2>1. new = data
    BY <1>5 DEF parse_extended_db
  <2>2. ~IsStatic(bytes, p) /\ ~IsDolby(bytes, p)
    BY <1>5 DEF IsStatic, IsDolby
  <2> QED
    BY <1>1, <2>1, <2>2 DEF BlockSays
<1> QED
  BY <1>2, <1>3, <1>4, <1>5

\* A vendor's block changes the address.
LEMMA VendorBlock ==
    ASSUME NEW names, NEW data \in EdidData(names), NEW bytes, NEW p \in Nat,
           Tag(bytes[p]) = 3, AreBytes(bytes, p, p + 5)
    PROVE  LET new == parse_vendor_specific_block(bytes, p, data)
           IN new \in EdidData(names) /\ BlockSays(bytes, p, data, new)
<1> DEFINE new == parse_vendor_specific_block(bytes, p, data)
<1>1. IsVendor(bytes, p) /\ ~IsStatic(bytes, p) /\ ~IsDolby(bytes, p)
  BY DEF IsVendor, IsStatic, IsDolby
<1>2. new = [data EXCEPT !.address = AddressAt(bytes, p)]
  BY DEF parse_vendor_specific_block, AddressAt
<1>3. bytes[p + 3] \in 0..255 /\ bytes[p + 4] \in 0..255 /\ bytes[p + 5] \in 0..255
  BY DEF AreBytes
<1>4. AddressAt(bytes, p) \in Addresses
  BY <1>3 DEF AddressAt, Addresses, Nibble
<1> QED
  BY <1>1, <1>2, <1>4 DEF EdidData, BlockSays

(***************************************************************************)
(* The walk over the blocks.                                               *)
(***************************************************************************)
Walks(names) == [at : Nat, data : EdidData(names), video : Timings]
Codes(bytes, p) == [i \in 1..Length(bytes[p]) |-> bytes[p + i]]

\* A turn goes on to the next block and takes what the block at hand says.
LEMMA BlockTypes ==
    ASSUME NEW names, NEW acc \in Walks(names), NEW bytes, NEW natives,
           AreBytes(bytes, acc.at, acc.at + 32)
    PROVE  LET new == ParseBlock(bytes, natives, acc)
           IN /\ new \in Walks(names)
              /\ new.at = NextBlock(bytes, acc.at) /\ new.at \in (acc.at + 1)..(acc.at + 32)
              /\ BlockSays(bytes, acc.at, acc.data, new.data)
              /\ new.video = IF Tag(bytes[acc.at]) = 2
                             THEN parse_ext_video(Codes(bytes, acc.at), natives, acc.video)
                             ELSE acc.video
<1> DEFINE p == acc.at
           new == ParseBlock(bytes, natives, acc)
           next == [acc EXCEPT !.at = NextBlock(bytes, p)]
<1>1. p \in Nat /\ acc.data \in EdidData(names) /\ acc.video \in Timings
  BY DEF Walks
<1>2. Length(bytes[p]) \in 0..31 /\ Tag(bytes[p]) \in 0..7
  <2>1. bytes[p] \in 0..255
    <3>1. p \in p..(p + 32)
      BY <1>1
    <3> QED
      BY <3>1 DEF AreBytes
  <2> QED
    BY <2>1, HeaderTypes
<1>3. NextBlock(bytes, p) \in (p + 1)..(p + 32)
  BY <1>1, <1>2 DEF NextBlock
<1>4. AreBytes(bytes, p, p + 5)
  BY <1>1 DEF AreBytes
<1>5. next \in Walks(names) /\ next.at = NextBlock(bytes, p)
      /\ next.data = acc.data /\ next.video = acc.video
  BY <1>1, <1>3 DEF Walks
<1>6. Tag(bytes[p]) \notin {3, 7} => BlockSays(bytes, p, acc.data, acc.data)
  BY DEF BlockSays, IsVendor, IsStatic, IsDolby
<1> HIDE DEF next
<1>7. CASE Tag(bytes[p]) = 2
  <2>1. new = [next EXCEPT !.video = parse_ext_video(Codes(bytes, p), natives, @)]
    BY <1>7 DEF ParseBlock, Codes, next
  <2>2. parse_ext_video(Codes(bytes, p), natives, acc.video) \in Timings
    <3>1. DOMAIN Codes(bytes, p) = 1..Length(bytes[p]) /\ Length(bytes[p]) \in Nat
      BY <1>2 DEF Codes
    <3> QED
      BY <1>1, <3>1, VideoTypes
  <2> QED
    BY <1>3, <1>5, <1>6, <1>7, <2>1, <2>2 DEF Walks
<1>8. CASE Tag(bytes[p]) = 3
  <2>1. new = [next EXCEPT !.data = parse_vendor_specific_block(bytes, p, @)]
    BY <1>8 DEF ParseBlock, next
  <2> DEFINE data == parse_vendor_specific_block(bytes, p, acc.data)
  <2>2. data \in EdidData(names) /\ BlockSays(bytes, p, acc.data, data)
    BY <1>1, <1>4, <1>8, VendorBlock
  <2> HIDE DEF data
  <2>3. new = [next EXCEPT !.data = data]
    BY <1>5, <2>1 DEF data
  <2> QED
    BY <1>3, <1>5, <1>8, <2>2, <2>3 DEF Walks
<1>9. CASE Tag(bytes[p]) = 7
  <2>1. new = [next EXCEPT !.data = parse_extended_db(bytes, p, @)]
    BY <1>9 DEF ParseBlock, next
  <2> DEFINE data == parse_extended_db(bytes, p, acc.data)
  <2>2. data \in EdidData(names) /\ BlockSays(bytes, p, acc.data, data)
    BY <1>1, <1>4, <1>9, ExtendedBlock
  <2> HIDE DEF data
  <2>3. new = [next EXCEPT !.data = data]
    BY <1>5, <2>1 DEF data
  <2> QED
    BY <1>3, <1>5, <1>9, <2>2, <2>3 DEF Walks
<1>10. CASE Tag(bytes[p]) \notin {2, 3, 7}
  <2>1. new = next
    BY <1>10 DEF ParseBlock, next
  <2> QED
    BY <1>3, <1>5, <1>6, <1>10, <2>1
<1> QED
  BY <1>7, <1>8, <1>9, <1>10

Start(from, data) == [at |-> from, data |-> data, video |-> NoTiming]
Turns(from, to) == Max({0, to - from})
From(names, from) == {acc \in Walks(names) : acc.at >= from}

\* The walk as a run: it goes on as long as it is before "to".
IsWalk(g, bytes, natives, names, from, to, data) ==
    /\ g \in [0..Turns(from, to) -> From(names, from)]
    /\ g[0] = Start(from, data)
    /\ \A i \in 1..Turns(from, to) :
         g[i] = IF g[i - 1].at < to THEN ParseBlock(bytes, natives, g[i - 1]) ELSE g[i - 1]

\* The number of turns is that of the bytes between the two offsets.
LEMMA TurnsTypes ==
    ASSUME NEW from \in Nat, NEW to \in Nat
    PROVE  /\ Turns(from, to) \in Nat
           /\ Turns(from, to) = IF from < to THEN to - from ELSE 0
BY DEF Turns, Max

\* The walk is a run of its turns.
LEMMA WalkRuns ==
    ASSUME NEW names, NEW data \in EdidData(names), NEW bytes, NEW natives,
           NEW from \in Nat, NEW to \in Nat, AreBytes(bytes, from, to + 32)
    PROVE  \E g : /\ IsWalk(g, bytes, natives, names, from, to, data)
                  /\ BlockLoop(bytes, natives, from, to, data) = g[Turns(from, to)]
<1> DEFINE n == Turns(from, to)
           A == From(names, from)
           After(acc) == IF acc.at < to THEN ParseBlock(bytes, natives, acc) ELSE acc
           F == [i \in 1..n |-> [acc \in A |-> After(acc)]]
           walked == CHOOSE f : f = [i \in 0..n |->
                       IF i = 0 THEN Start(from, data)
                       ELSE LET acc == f[i - 1]
                            IN IF acc.at < to THEN ParseBlock(bytes, natives, acc) ELSE acc]
<1>1. n \in Nat
  BY TurnsTypes
<1>2. Start(from, data) \in A
  BY DEF Start, From, Walks, Timings
<1>3. ASSUME NEW acc \in A PROVE After(acc) \in A
  <2>1. CASE acc.at < to
    <3>1. acc \in Walks(names) /\ acc.at \in Nat /\ acc.at >= from
      BY DEF From, Walks
    <3>2. AreBytes(bytes, acc.at, acc.at + 32)
      BY <2>1, <3>1 DEF AreBytes
    <3>3. /\ ParseBlock(bytes, natives, acc) \in Walks(names)
          /\ ParseBlock(bytes, natives, acc).at \in (acc.at + 1)..(acc.at + 32)
      BY <3>1, <3>2, BlockTypes
    <3> QED
      BY <2>1, <3>1, <3>3 DEF From
  <2> QED
    BY <2>1
<1>4. BlockLoop(bytes, natives, from, to, data) = walked[n]
  BY DEF BlockLoop, Turns, Start
<1> HIDE DEF n, A, After
<1>5. F \in [1..n -> [A -> A]]
  BY <1>3
<1>6. PICK g : Runs(g, A, Start(from, data), n, F)
  <2> HIDE DEF F
  <2> QED
    BY <1>1, <1>2, <1>5, LoopRuns
<1>7. ASSUME NEW i \in 1..n PROVE g[i] = After(g[i - 1])
  <2>1. i - 1 \in 0..n
    BY <1>1
  <2>2. g[i - 1] \in A /\ g[i] = F[i][g[i - 1]]
    BY <1>6, <2>1 DEF Runs
  <2> QED
    BY <2>2
<1>8. g = [i \in 0..n |->
             IF i = 0 THEN Start(from, data)
             ELSE LET acc == g[i - 1]
                  IN IF acc.at < to THEN ParseBlock(bytes, natives, acc) ELSE acc]
  BY <1>6, <1>7 DEF Runs, After
<1>9. walked = [i \in 0..n |->
             IF i = 0 THEN Start(from, data)
             ELSE LET acc == walked[i - 1]
                  IN IF acc.at < to THEN ParseBlock(bytes, natives, acc) ELSE acc]
  BY <1>8
<1> HIDE DEF walked
<1>10. ASSUME NEW i \in 1..n PROVE walked[i] = After(walked[i - 1])
  <2>1. i \in 0..n /\ i # 0
    BY <1>1
  <2> QED
    BY <1>9, <2>1 DEF After
<1>11. walked[0] = Start(from, data)
  BY <1>1, <1>9
<1> DEFINE S == {i \in 0..n : walked[i] \in A}
<1>12. 0 \in S
  BY <1>1, <1>2, <1>11
<1>13. \A i \in 1..n : i - 1 \in S => i \in S
  BY <1>3, <1>10
<1>14. 0..n \subseteq S
  <2> HIDE DEF S
  <2> QED
    BY <1>1, <1>12, <1>13, EveryTurn
<1>15. walked \in [0..n -> A]
  <2>1. walked = [i \in 0..n |-> walked[i]]
    BY <1>9
  <2> QED
    BY <1>14, <2>1
<1>16. IsWalk(walked, bytes, natives, names, from, to, data)
  BY <1>10, <1>11, <1>15 DEF IsWalk, n, A, After
<1> QED
  BY <1>4, <1>16 DEF n

\* The walk over the data blocks ends, whatever their lengths: after at most one turn
\* for each byte between the blocks' start and the first timing it is at the timing or
\* past it by less than a block, and it has left name and native timing alone.
THEOREM WalkEnds ==
    ASSUME NEW names, NEW data \in EdidData(names), NEW bytes, NEW natives,
           NEW from \in Nat, NEW to \in Nat, AreBytes(bytes, from, to + 32)
    PROVE  LET end == BlockLoop(bytes, natives, from, to, data)
           IN /\ end \in Walks(names)
              /\ from < to => end.at \in to..(to + 31)
              /\ from >= to => end = Start(from, data)
              /\ end.data.name = data.name /\ end.data.native = data.native
<1> DEFINE n == Turns(from, to)
<1>1. n \in Nat /\ n = IF from < to THEN to - from ELSE 0
  BY TurnsTypes
<1>2. PICK g : /\ IsWalk(g, bytes, natives, names, from, to, data)
               /\ BlockLoop(bytes, natives, from, to, data) = g[n]
  BY WalkRuns
<1> DEFINE S == {i \in 0..n : /\ g[i].at >= to \/ g[i].at >= from + i
                              /\ g[i].at <= to + 31 \/ i = 0
                              /\ g[i].data.name = data.name
                              /\ g[i].data.native = data.native}
<1>3. 0 \in S
  BY <1>1, <1>2 DEF IsWalk, Start
<1>4. ASSUME NEW i \in 1..n, i - 1 \in S
      PROVE  i \in S
  <2> DEFINE acc == g[i - 1]
  <2>1. /\ acc \in Walks(names) /\ acc.at \in Nat /\ acc.at >= from
        /\ g[i] = IF acc.at < to THEN ParseBlock(bytes, natives, acc) ELSE acc
    BY <1>1, <1>2 DEF IsWalk, From, Walks
  <2>2. i - 1 = 0 => acc.at = from
    BY <1>2 DEF IsWalk, Start
  <2>3. from < to
    BY <1>1
  <2> HIDE DEF acc
  <2>4. /\ acc.at >= to \/ acc.at >= from + (i - 1)
        /\ acc.at <= to + 31
        /\ acc.data.name = data.name /\ acc.data.native = data.native
    BY <1>4, <2>1, <2>2, <2>3 DEF acc
  <2>5. CASE acc.at < to
    <3>1. AreBytes(bytes, acc.at, acc.at + 32)
      BY <2>1, <2>5 DEF AreBytes
    <3>2. /\ g[i].at \in (acc.at + 1)..(acc.at + 32)
          /\ BlockSays(bytes, acc.at, acc.data, g[i].data)
      BY <2>1, <2>5, <3>1, BlockTypes
    <3> QED
      BY <2>1, <2>4, <2>5, <3>2 DEF BlockSays
  <2>6. CASE acc.at >= to
    BY <2>1, <2>4, <2>6
  <2> QED
    BY <2>1, <2>5, <2>6
<1>5. 0..n \subseteq S
  <2> HIDE DEF S, n
  <2> QED
    BY <1>1, <1>3, <1>4, EveryTurn
<1>6. n \in S
  BY <1>1, <1>5
<1>7. g[n] \in Walks(names) /\ g[n].at \in Nat
  BY <1>1, <1>2 DEF IsWalk, From, Walks
<1>8. from >= to => g[n] = Start(from, data)
  BY <1>1, <1>2 DEF IsWalk
<1> QED
  BY <1>1, <1>2, <1>6, <1>7, <1>8

(***************************************************************************)
(* Blocks that stand end to end between "from" and "to", n of them, the    *)
(* i-th at o[i]: the walk takes each of them once and in their order.      *)
(***************************************************************************)
EndToEnd(bytes, o, n, from, to) ==
    /\ n \in Nat /\ o \in [1..(n + 1) -> Nat]
    /\ o[1] = from /\ o[n + 1] = to
    /\ \A i \in 1..n : o[i] \in from..(to - 1) /\ o[i + 1] = NextBlock(bytes, o[i])

Visits(g, bytes, natives, names, o, n, from, to, data) ==
    /\ g \in [0..n -> Walks(names)]
    /\ g[0] = Start(from, data)
    /\ g[n] = BlockLoop(bytes, natives, from, to, data)
    /\ \A i \in 1..n : g[i - 1].at = o[i] /\ g[i] = ParseBlock(bytes, natives, g[i - 1])

\* After the n blocks the walk stands at the timings, and the turns left do nothing.
LEMMA WalkVisits ==
    ASSUME NEW names, NEW data \in EdidData(names), NEW bytes, NEW natives,
           NEW from \in Nat, NEW to \in Nat, AreBytes(bytes, from, to + 32),
           NEW o, NEW n, EndToEnd(bytes, o, n, from, to)
    PROVE  \E g : Visits(g, bytes, natives, names, o, n, from, to, data)
<1> DEFINE m == Turns(from, to)
<1>0. /\ n \in Nat /\ o \in [1..(n + 1) -> Nat] /\ o[1] = from /\ o[n + 1] = to
      /\ \A i \in 1..n : o[i] \in from..(to - 1) /\ o[i + 1] = NextBlock(bytes, o[i])
  BY DEF EndToEnd
<1>1. m \in Nat /\ m = IF from < to THEN to - from ELSE 0
  BY TurnsTypes
<1>2. PICK g : /\ IsWalk(g, bytes, natives, names, from, to, data)
               /\ BlockLoop(bytes, natives, from, to, data) = g[m]
  BY WalkRuns
<1> DEFINE S == {i \in 0..n : /\ o[i + 1] >= from + i
                              /\ i <= m => g[i].at = o[i + 1]}
<1>3. 0 \in S
  BY <1>0, <1>1, <1>2 DEF IsWalk, Start
<1>4. ASSUME NEW i \in 1..n, i - 1 \in S
      PROVE  i \in S
  <2>1. o[i] \in Nat /\ o[i] >= from + (i - 1) /\ o[i] < to /\ o[i + 1] = NextBlock(bytes, o[i])
    BY <1>0, <1>4
  <2>2. o[i] \in from..(to + 32) /\ Length(bytes[o[i]]) \in 0..31
    <3>1. o[i] \in from..(to + 32)
      BY <1>0, <2>1
    <3> QED
      BY <3>1, HeaderTypes DEF AreBytes
  <2>3. o[i + 1] \in Nat /\ o[i + 1] >= o[i] + 1
    BY <2>1, <2>2 DEF NextBlock
  <2>4. ASSUME i <= m PROVE g[i].at = o[i + 1]
    <3> DEFINE acc == g[i - 1]
    <3>1. acc.at = o[i]
      BY <1>1, <1>4, <2>4
    <3>2. acc \in Walks(names) /\ g[i] = ParseBlock(bytes, natives, acc)
      BY <1>1, <1>2, <2>1, <2>4, <3>1 DEF IsWalk, From
    <3>3. AreBytes(bytes, acc.at, acc.at + 32)
      <4>1. (o[i])..(o[i] + 32) \subseteq from..(to + 32)
        BY <2>1, <2>2
      <4> QED
        BY <3>1, <4>1 DEF AreBytes
    <3> HIDE DEF acc
    <3> QED
      BY <2>1, <3>1, <3>2, <3>3, BlockTypes
  <2> QED
    BY <2>1, <2>3, <2>4
<1>5. 0..n \subseteq S
  <2> HIDE DEF S
  <2> QED
    BY <1>0, <1>3, <1>4, EveryTurn
<1>6. n <= m
  <2>1. o[n + 1] >= from + n
    BY <1>0, <1>5
  <2> QED
    BY <1>0, <1>1, <2>1
<1>7. ASSUME NEW i \in 1..n
      PROVE  g[i - 1].at = o[i] /\ g[i] = ParseBlock(bytes, natives, g[i - 1])
  <2>1. i - 1 \in S /\ i \in 1..m /\ i - 1 <= m /\ (i - 1) + 1 = i
    <3>1. i - 1 \in 0..n /\ i \in 1..m /\ i - 1 <= m /\ (i - 1) + 1 = i
      <4> HIDE DEF S, m
      <4> QED
        BY <1>0, <1>1, <1>6
    <3> HIDE DEF S, m
    <3> QED
      BY <1>5, <3>1
  <2>2. g[i - 1].at = o[i]
    BY <2>1
  <2>3. o[i] < to /\ o[i] \in Nat
    BY <1>0
  <2> QED
    BY <1>2, <2>1, <2>2, <2>3 DEF IsWalk
<1>8. g[m] = g[n]
  <2>1. g[n].at = to
    BY <1>0, <1>5, <1>6
  <2> DEFINE T == {i \in 0..m : i >= n => g[i] = g[n]}
  <2>2. 0 \in T
    BY <1>0, <1>1
  <2>3. ASSUME NEW i \in 1..m, i - 1 \in T
        PROVE  i \in T
    <3>1. CASE i <= n
      BY <1>0, <3>1
    <3>2. CASE i > n
      <4>1. g[i - 1] = g[n]
        BY <1>0, <1>1, <2>3, <3>2
      <4>2. ~(g[i - 1].at < to)
        BY <2>1, <4>1
      <4> QED
        BY <1>2, <2>3, <4>1, <4>2 DEF IsWalk
    <3> QED
      BY <1>0, <1>1, <3>1, <3>2
  <2>4. 0..m \subseteq T
    <3> HIDE DEF T, m
    <3> QED
      BY <1>1, <2>2, <2>3, EveryTurn
  <2> QED
    BY <1>0, <1>1, <1>6, <2>4
<1> DEFINE h == [i \in 0..n |-> g[i]]
<1>9. h \in [0..n -> Walks(names)]
  BY <1>0, <1>1, <1>2, <1>6 DEF IsWalk, From
<1>10. /\ h[0] = Start(from, data) /\ h[n] = BlockLoop(bytes, natives, from, to, data)
       /\ \A i \in 1..n : h[i - 1].at = o[i] /\ h[i] = ParseBlock(bytes, natives, h[i - 1])
  BY <1>0, <1>2, <1>7, <1>8 DEF IsWalk
<1> HIDE DEF h
<1> QED
  BY <1>9, <1>10 DEF Visits

(***************************************************************************)
(* Of several blocks of a kind the last one counts; without one the        *)
(* structure keeps what it had.                                            *)
(***************************************************************************)
AddressIsLast(bytes, o, n, data, new) ==
    /\ (\A i \in 1..n : ~IsVendor(bytes, o[i])) => new.address = data.address
    /\ \A j \in 1..n :
         IsVendor(bytes, o[j]) /\ (\A i \in (j + 1)..n : ~IsVendor(bytes, o[i]))
           => new.address = AddressAt(bytes, o[j])

EotfsAreLast(bytes, o, n, data, new) ==
    /\ (\A i \in 1..n : ~IsStatic(bytes, o[i])) => new.hdr \cap Eotfs = data.hdr \cap Eotfs
    /\ \A j \in 1..n :
         IsStatic(bytes, o[j]) /\ (\A i \in (j + 1)..n : ~IsStatic(bytes, o[i]))
           => new.hdr \cap Eotfs = HdrOf(bytes[o[j] + 2])

DolbyIsLast(bytes, o, n, data, new) ==
    /\ (\A i \in 1..n : ~IsDolby(bytes, o[i])) => new.dv = data.dv
    /\ \A j \in 1..n :
         IsDolby(bytes, o[j]) /\ (\A i \in (j + 1)..n : ~IsDolby(bytes, o[i]))
           => new.dv = DolbyAt(bytes, o[j])

LastCounts(bytes, o, n, data, new) ==
    /\ AddressIsLast(bytes, o, n, data, new)
    /\ EotfsAreLast(bytes, o, n, data, new)
    /\ DolbyIsLast(bytes, o, n, data, new)

\* The walk takes from the blocks of an extension the last one of each kind.
LEMMA LoopSays ==
    ASSUME NEW names, NEW data \in EdidData(names), NEW bytes, NEW natives,
           NEW from \in Nat, NEW to \in Nat, AreBytes(bytes, from, to + 32),
           NEW o, NEW n, EndToEnd(bytes, o, n, from, to)
    PROVE  LastCounts(bytes, o, n, data, BlockLoop(bytes, natives, from, to, data).data)
<1> DEFINE new == BlockLoop(bytes, natives, from, to, data).data
<1>0. n \in Nat /\ \A i \in 1..n : o[i] \in from..(to - 1)
  BY DEF EndToEnd
<1>1. PICK g : Visits(g, bytes, natives, names, o, n, from, to, data)
  BY WalkVisits
<1>2. g[0].data = data /\ g[n].data = new
  BY <1>1 DEF Start, Visits
<1>3. ASSUME NEW i \in 1..n
      PROVE  BlockSays(bytes, o[i], g[i - 1].data, g[i].data)
  <2>1. g[i - 1] \in Walks(names) /\ g[i - 1].at = o[i] /\ g[i] = ParseBlock(bytes, natives, g[i - 1])
    BY <1>0, <1>1 DEF Visits
  <2>2. (o[i])..(o[i] + 32) \subseteq from..(to + 32)
    BY <1>0
  <2>3. AreBytes(bytes, g[i - 1].at, g[i - 1].at + 32)
    BY <2>1, <2>2 DEF AreBytes
  <2> QED
    BY <2>1, <2>3, BlockTypes
<1> HIDE DEF new
<1>4. AddressIsLast(bytes, o, n, data, new)
  <2> DEFINE h == [i \in 0..n |-> g[i].data.address]
  <2>1. ASSUME NEW first \in 0..n, \A i \in (first + 1)..n : ~IsVendor(bytes, o[i])
        PROVE  h[n] = h[first]
    <3>1. ASSUME NEW i \in (first + 1)..n PROVE h[i] = h[i - 1]
      <4>1. i \in 1..n /\ i \in 0..n /\ i - 1 \in 0..n
        BY <1>0
      <4> QED
        BY <1>3, <2>1, <4>1 DEF BlockSays
    <3> HIDE DEF h
    <3> QED
      BY <1>0, <3>1, StaysSince
  <2>2. h[n] = new.address /\ h[0] = data.address
    BY <1>0, <1>2
  <2>3. ASSUME NEW j \in 1..n, IsVendor(bytes, o[j]) PROVE h[j] = AddressAt(bytes, o[j])
    BY <1>0, <1>3, <2>3 DEF BlockSays
  <2> HIDE DEF h
  <2>4. ASSUME NEW j \in 1..n, IsVendor(bytes, o[j]),
               \A i \in (j + 1)..n : ~IsVendor(bytes, o[i])
        PROVE  new.address = AddressAt(bytes, o[j])
    BY <1>0, <2>1, <2>2, <2>3, <2>4
  <2>5. (\A i \in 1..n : ~IsVendor(bytes, o[i])) => new.address = data.address
    BY <1>0, <2>1, <2>2
  <2> QED
    BY <2>4, <2>5 DEF AddressIsLast
<1>5. EotfsAreLast(bytes, o, n, data, new)
  <2> DEFINE h == [i \in 0..n |-> g[i].data.hdr \cap Eotfs]
  <2>1. ASSUME NEW first \in 0..n, \A i \in (first + 1)..n : ~IsStatic(bytes, o[i])
        PROVE  h[n] = h[first]
    <3>1. ASSUME NEW i \in (first + 1)..n PROVE h[i] = h[i - 1]
      <4>1. i \in 1..n /\ i \in 0..n /\ i - 1 \in 0..n
        BY <1>0
      <4> QED
        BY <1>3, <2>1, <4>1 DEF BlockSays
    <3> HIDE DEF h
    <3> QED
      BY <1>0, <3>1, StaysSince
  <2>2. h[n] = new.hdr \cap Eotfs /\ h[0] = data.hdr \cap Eotfs
    BY <1>0, <1>2
  <2>3. ASSUME NEW j \in 1..n, IsStatic(bytes, o[j]) PROVE h[j] = HdrOf(bytes[o[j] + 2])
    <3>1. g[j].data.hdr \cap Eotfs = HdrOf(bytes[o[j] + 2])
      BY <1>3, <2>3 DEF BlockSays
    <3>2. j \in 0..n
      BY <1>0
    <3>3. h[j] = g[j].data.hdr \cap Eotfs
      BY <3>2
    <3> HIDE DEF h
    <3> QED
      BY <3>1, <3>3
  <2> HIDE DEF h
  <2>4. ASSUME NEW j \in 1..n, IsStatic(bytes, o[j]),
               \A i \in (j + 1)..n : ~IsStatic(bytes, o[i])
        PROVE  new.hdr \cap Eotfs = HdrOf(bytes[o[j] + 2])
    BY <1>0, <2>1, <2>2, <2>3, <2>4
  <2>5. (\A i \in 1..n : ~IsStatic(bytes, o[i])) => new.hdr \cap Eotfs = data.hdr \cap Eotfs
    BY <1>0, <2>1, <2>2
  <2> QED
    BY <2>4, <2>5 DEF EotfsAreLast
<1>6. DolbyIsLast(bytes, o, n, data, new)
  <2> DEFINE h == [i \in 0..n |-> g[i].data.dv]
  <2>1. ASSUME NEW first \in 0..n, \A i \in (first + 1)..n : ~IsDolby(bytes, o[i])
        PROVE  h[n] = h[first]
    <3>1. ASSUME NEW i \in (first + 1)..n PROVE h[i] = h[i - 1]
      <4>1. i \in 1..n /\ i \in 0..n /\ i - 1 \in 0..n
        BY <1>0
      <4> QED
        BY <1>3, <2>1, <4>1 DEF BlockSays
    <3> HIDE DEF h
    <3> QED
      BY <1>0, <3>1, StaysSince
  <2>2. h[n] = new.dv /\ h[0] = data.dv
    BY <1>0, <1>2
  <2>3. ASSUME NEW j \in 1..n, IsDolby(bytes, o[j]) PROVE h[j] = DolbyAt(bytes, o[j])
    BY <1>0, <1>3, <2>3 DEF BlockSays
  <2> HIDE DEF h
  <2>4. ASSUME NEW j \in 1..n, IsDolby(bytes, o[j]),
               \A i \in (j + 1)..n : ~IsDolby(bytes, o[i])
        PROVE  new.dv = DolbyAt(bytes, o[j])
    BY <1>0, <2>1, <2>2, <2>3, <2>4
  <2>5. (\A i \in 1..n : ~IsDolby(bytes, o[i])) => new.dv = data.dv
    BY <1>0, <2>1, <2>2
  <2> QED
    BY <2>4, <2>5 DEF DolbyIsLast
<1> QED
  BY <1>4, <1>5, <1>6 DEF LastCounts, new

\* The rows that the video blocks of an extension declare native: those of the first
\* block that has one.
BlockRows(bytes, p, natives) ==
    IF Tag(bytes[p]) = 2 THEN CodeRows(Codes(bytes, p), Length(bytes[p]), natives) ELSE {}
Leading(bytes, natives, o, n) ==
    {i \in 1..n : \A j \in 1..(i - 1) : BlockRows(bytes, o[j], natives) = {}}
WalkRows(bytes, natives, o, n) ==
    UNION {BlockRows(bytes, o[i], natives) : i \in Leading(bytes, natives, o, n)}
AllKnown(bytes, o, n) ==
    \A i \in 1..n : Tag(bytes[o[i]]) = 2 => Known(Codes(bytes, o[i]), Length(bytes[o[i]]))

\* A block adds its rows if no block before it had one.
LEMMA RowsUpto ==
    ASSUME NEW bytes, NEW natives, NEW o, NEW i \in Nat \ {0}
    PROVE  LET before == WalkRows(bytes, natives, o, i - 1)
           IN WalkRows(bytes, natives, o, i) =
                IF before = {} THEN BlockRows(bytes, o[i], natives) ELSE before
<1> DEFINE B(j) == BlockRows(bytes, o[j], natives)
           L(k) == {j \in 1..k : \A m \in 1..(j - 1) : B(m) = {}}
           W(k) == UNION {B(j) : j \in L(k)}
<1>1. \A k : WalkRows(bytes, natives, o, k) = W(k)
  BY DEF WalkRows, Leading
<1> HIDE DEF B
<1>2. CASE \A j \in 1..(i - 1) : B(j) = {}
  <2>1. W(i - 1) = {}
    BY <1>2
  <2>2. i \in L(i)
    BY <1>2
  <2>3. \A j \in L(i) : j = i \/ B(j) = {}
    BY <1>2
  <2> HIDE DEF L
  <2>4. W(i) = B(i)
    BY <2>2, <2>3
  <2> QED
    BY <1>1, <2>1, <2>4 DEF B
<1>3. CASE \E j \in 1..(i - 1) : B(j) # {}
  <2> DEFINE Filled == {j \in 1..(i - 1) : B(j) # {}}
  <2>1. Filled \subseteq Nat /\ Filled # {}
    BY <1>3
  <2>2. PICK k \in Filled : \A j \in Filled : k <= j
    <3> HIDE DEF Filled
    <3> QED
      BY <2>1, Least
  <2>3. k \in 1..(i - 1) /\ B(k) # {} /\ \A m \in 1..(k - 1) : B(m) = {}
    BY <2>2
  <2>4. L(i) = L(i - 1)
    <3>1. \A j \in 1..i : j \in 1..(i - 1) \/ (j = i /\ k \in 1..(j - 1))
      BY <2>3
    <3>2. \A j \in 1..(i - 1) : j \in 1..i
      OBVIOUS
    <3> QED
      BY <2>3, <3>1, <3>2
  <2>5. k \in L(i - 1)
    BY <2>3
  <2> HIDE DEF L
  <2>6. W(i) = W(i - 1) /\ W(i - 1) # {}
    BY <2>3, <2>4, <2>5
  <2> QED
    BY <1>1, <2>6
<1> QED
  BY <1>2, <1>3

\* The walk takes its timing from the rows of the first block that has one.
LEMMA LoopVideo ==
    ASSUME NEW names, NEW data \in EdidData(names), NEW bytes, NEW natives,
           NEW from \in Nat, NEW to \in Nat, AreBytes(bytes, from, to + 32),
           NEW o, NEW n, EndToEnd(bytes, o, n, from, to), AllKnown(bytes, o, n)
    PROVE  LET rows == WalkRows(bytes, natives, o, n)
               video == BlockLoop(bytes, natives, from, to, data).video
           IN IF rows = {} THEN video = NoTiming ELSE RowOf(rows, video)
<1>0. n \in Nat /\ \A i \in 1..n : o[i] \in from..(to - 1)
  BY DEF EndToEnd
<1>1. PICK g : Visits(g, bytes, natives, names, o, n, from, to, data)
  BY WalkVisits
<1> DEFINE Upto(i) == WalkRows(bytes, natives, o, i)
           Right(i) == IF Upto(i) = {} THEN g[i].video = NoTiming ELSE RowOf(Upto(i), g[i].video)
           S == {i \in 0..n : Right(i)}
<1>2. 0 \in S
  <2>1. Upto(0) = {}
    BY DEF WalkRows, Leading
  <2> QED
    BY <1>0, <1>1, <2>1 DEF Visits, Start
<1>3. ASSUME NEW i \in 1..n, i - 1 \in S
      PROVE  i \in S
  <2> DEFINE p == o[i]
             rows == BlockRows(bytes, p, natives)
  <2>1. /\ g[i - 1] \in Walks(names) /\ g[i - 1].at = p
        /\ g[i] = ParseBlock(bytes, natives, g[i - 1])
    BY <1>0, <1>1 DEF Visits
  <2>2. p..(p + 32) \subseteq from..(to + 32) /\ p \in p..(p + 32)
    BY <1>0
  <2>3. /\ AreBytes(bytes, g[i - 1].at, g[i - 1].at + 32)
        /\ bytes[p] \in 0..255
    BY <2>1, <2>2 DEF AreBytes
  <2>4. g[i].video = IF Tag(bytes[p]) = 2
                     THEN parse_ext_video(Codes(bytes, p), natives, g[i - 1].video)
                     ELSE g[i - 1].video
    BY <2>1, <2>3, BlockTypes
  <2>5. Length(bytes[p]) \in Nat /\ DOMAIN Codes(bytes, p) = 1..Length(bytes[p])
    <3>1. Length(bytes[p]) \in 0..31
      BY <2>3, HeaderTypes
    <3>2. Length(bytes[p]) \in Nat
      BY <3>1
    <3> QED
      BY <3>2 DEF Codes
  <2>6. Upto(i) = IF Upto(i - 1) = {} THEN rows ELSE Upto(i - 1)
    BY <1>0, RowsUpto
  <2>7. Right(i - 1) /\ i \in 0..n
    BY <1>0, <1>3
  <2>8. g[i - 1].video = NoTiming =>
          IF rows = {} THEN g[i].video = NoTiming ELSE RowOf(rows, g[i].video)
    <3>1. CASE Tag(bytes[p]) = 2
      <4>1. Known(Codes(bytes, p), Length(bytes[p]))
        BY <3>1 DEF AllKnown
      <4> QED
        BY <2>4, <2>5, <3>1, <4>1, VideoSays DEF BlockRows
    <3>2. CASE Tag(bytes[p]) # 2
      BY <2>4, <3>2 DEF BlockRows
    <3> QED
      BY <3>1, <3>2
  <2>9. g[i - 1].video # NoTiming => g[i].video = g[i - 1].video
    BY <2>4 DEF parse_ext_video
  <2>10. \A r \in VicRows : VicRow(r) # NoTiming
    BY DEF VicRow, NoTiming
  <2>11. \A T, t : RowOf(T, t) => t # NoTiming /\ T # {}
    BY DEF RowOf, VicRow, NoTiming
  <2> HIDE DEF rows, Upto
  <2>13. Right(i)
    <3>1. CASE g[i - 1].video = NoTiming
      <4>1. Upto(i - 1) = {}
        BY <2>7, <2>11, <3>1
      <4> QED
        BY <2>6, <2>8, <3>1, <4>1
    <3>2. CASE g[i - 1].video # NoTiming
      <4>1. Upto(i - 1) # {} /\ RowOf(Upto(i - 1), g[i - 1].video)
        BY <2>7, <3>2
      <4> QED
        BY <2>6, <2>9, <3>2, <4>1
    <3> QED
      BY <3>1, <3>2
  <2> QED
    BY <2>7, <2>13
<1>4. 0..n \subseteq S
  <2> HIDE DEF S
  <2> QED
    BY <1>0, <1>2, <1>3, EveryTurn
<1>5. Right(n)
  <2>1. n \in S
    <3> HIDE DEF S
    <3> QED
      BY <1>0, <1>4
  <2> QED
    BY <2>1
<1> QED
  BY <1>1, <1>5 DEF Visits

(***************************************************************************)
(* Extensions.  What an extension that is parsed has to be: the bytes of   *)
(* its blocks are there, and a name among its timings is of one of the     *)
(* lengths.                                                                *)
(***************************************************************************)
First(bytes, base) == base + bytes[base + 2]      \* the first timing

Sound(bytes, base, names) ==
    bytes[base] = AdditionalTiming =>
        /\ bytes[base + 2] \in 0..255
        /\ AreBytes(bytes, base + 4, First(bytes, base) + 32)
        /\ \A k \in 0..3 : Named(bytes, First(bytes, base) + 18 * k, names)

\* Its blocks, n of them at the offsets o, are end to end up to the first timing.
Laid(bytes, base, o, n) ==
    IF bytes[base] = AdditionalTiming
    THEN EndToEnd(bytes, o, n, base + 4, First(bytes, base)) ELSE n = 0

\* Timings after which no name and no native timing was found stay without.
TimingsSay(bytes, dtds, data, new) ==
    /\ (\A k \in 0..3 : ~IsName(bytes, dtds + 18 * k)) => new.name = data.name
    /\ data.native # NoTiming => new.native = data.native
    /\ data.native = NoTiming =>
         IF \E k \in 0..3 : IsTiming(bytes, dtds + 18 * k)
         THEN \E p \in Nat : new.native = Detailed(p) ELSE new.native = NoTiming

\* The four timings of an extension change the name or the native timing.
LEMMA TimingTypes ==
    ASSUME NEW names, NEW data \in EdidData(names), NEW bytes, NEW dtds \in Nat,
           \A k \in 0..3 : Named(bytes, dtds + 18 * k, names)
    PROVE  LET new == TimingLoop(bytes, dtds, data)
           IN OnlyNameOrNative(data, new, names) /\ TimingsSay(bytes, dtds, data, new)
<1> DEFINE Next(acc, k) == parse_dtd(bytes, dtds + 18 * k, acc.native = NoTiming, acc)
           p(k) == dtds + 18 * k
           Says(acc, k, new) == /\ OnlyNameOrNative(acc, new, names)
                                /\ DtdSays(bytes, p(k), acc.native = NoTiming, acc, new)
<1>1. ASSUME NEW acc \in EdidData(names), NEW k \in 0..3
      PROVE  Says(acc, k, Next(acc, k))
  <2>1. p(k) \in Nat
    OBVIOUS
  <2> QED
    BY <2>1, DtdTypes
<1>2. TimingLoop(bytes, dtds, data) = Next(Next(Next(Next(data, 0), 1), 2), 3)
  BY DEF TimingLoop
<1>3. \A k \in 0..3 : p(k) \in Nat /\ Detailed(p(k)) # NoTiming
  BY DEF Detailed, NoTiming
<1> HIDE DEF Next, p
<1> DEFINE a == Next(data, 0)   b == Next(a, 1)   c == Next(b, 2)   d == Next(c, 3)
<1>4. \A k \in 0..3 : k = 0 \/ k = 1 \/ k = 2 \/ k = 3
  OBVIOUS
<1>5. Says(data, 0, a)
  BY <1>1, <1>4
<1>6. Says(a, 1, b)
  BY <1>1, <1>4, <1>5 DEF OnlyNameOrNative
<1>7. Says(b, 2, c)
  BY <1>1, <1>4, <1>6 DEF OnlyNameOrNative
<1>8. Says(c, 3, d)
  BY <1>1, <1>4, <1>7 DEF OnlyNameOrNative
<1> HIDE DEF a, b, c, d
<1>9. OnlyNameOrNative(data, d, names)
  BY <1>5, <1>6, <1>7, <1>8 DEF OnlyNameOrNative
<1>10. (\A k \in 0..3 : ~IsName(bytes, p(k))) => d.name = data.name
  BY <1>4, <1>5, <1>6, <1>7, <1>8 DEF DtdSays
<1>11. data.native # NoTiming => d.native = data.native
  BY <1>5, <1>6, <1>7, <1>8 DEF DtdSays
<1>12. ASSUME data.native = NoTiming, NEW k \in 0..3, IsTiming(bytes, p(k))
       PROVE  \E q \in Nat : d.native = Detailed(q)
  BY <1>3, <1>4, <1>5, <1>6, <1>7, <1>8, <1>12 DEF DtdSays
<1>13. ASSUME data.native = NoTiming, \A k \in 0..3 : ~IsTiming(bytes, p(k))
       PROVE  d.native = NoTiming
  BY <1>4, <1>5, <1>6, <1>7, <1>8, <1>13 DEF DtdSays
<1>14. TimingsSay(bytes, dtds, data, d)
  BY <1>10, <1>11, <1>12, <1>13 DEF TimingsSay, p
<1> QED
  BY <1>2, <1>9, <1>14 DEF a, b, c, d

\* A row of this extension goes before what was known, that before its timings.
NativeSays(bytes, base, o, n, data, new) ==
    LET rows == WalkRows(bytes, bytes[base + 3] % 8, o, n)
        timing == \E k \in 0..3 : IsTiming(bytes, First(bytes, base) + 18 * k)
    IN IF bytes[base] = AdditionalTiming /\ rows # {} THEN RowOf(rows, new.native)
       ELSE IF bytes[base] = AdditionalTiming /\ data.native = NoTiming /\ timing
       THEN \E p \in Nat : new.native = Detailed(p)
       ELSE new.native = data.native

NoName(bytes, base) ==
    bytes[base] = AdditionalTiming =>
        \A k \in 0..3 : ~IsName(bytes, First(bytes, base) + 18 * k)

\* What an extension changes: the last block of a kind, and the native timing.
LEMMA ExtensionSays ==
    ASSUME NEW names, NEW data \in EdidData(names), NEW bytes, NEW base \in Nat,
           Sound(bytes, base, names)
    PROVE  LET new == parse_extension_block(bytes, base, data)
           IN /\ new \in EdidData(names)
              /\ NoName(bytes, base) => new.name = data.name
              /\ \A o, n : Laid(bytes, base, o, n) =>
                   /\ LastCounts(bytes, o, n, data, new)
                   /\ AllKnown(bytes, o, n) => NativeSays(bytes, base, o, n, data, new)
<1> DEFINE new == parse_extension_block(bytes, base, data)
           dtds == First(bytes, base)
           natives == bytes[base + 3] % 8
           walked == BlockLoop(bytes, natives, base + 4, dtds, data)
           known == IF walked.video = NoTiming THEN walked.data
                    ELSE [walked.data EXCEPT !.native = walked.video]
<1>1. CASE bytes[base] # AdditionalTiming
  <2>1. new = data
    BY <1>1 DEF parse_extension_block
  <2>2. ASSUME NEW o, NEW n, Laid(bytes, base, o, n)
        PROVE  LastCounts(bytes, o, n, data, data)
    <3>1. n = 0
      BY <1>1, <2>2 DEF Laid
    <3>2. 1..n = {}
      BY <3>1
    <3> QED
      BY <3>2 DEF LastCounts, AddressIsLast, EotfsAreLast, DolbyIsLast
  <2>3. \A o, n : NativeSays(bytes, base, o, n, data, data)
    BY <1>1 DEF NativeSays
  <2> QED
    BY <2>1, <2>2, <2>3
<1>2. CASE bytes[base] = AdditionalTiming
  <2>1. /\ dtds \in Nat /\ AreBytes(bytes, base + 4, dtds + 32)
        /\ \A k \in 0..3 : Named(bytes, dtds + 18 * k, names)
    BY <1>2 DEF Sound, First
  <2>2. new = IF known.native # NoTiming THEN known ELSE TimingLoop(bytes, dtds, known)
    BY <1>2 DEF parse_extension_block, parse_ext_timing, First
  <2> HIDE DEF dtds, natives
  <2>3. /\ walked \in Walks(names)
        /\ walked.data.name = data.name /\ walked.data.native = data.native
    BY <2>1, WalkEnds
  <2> HIDE DEF walked
  <2>4. /\ OnlyNameOrNative(walked.data, known, names)
        /\ known.name = data.name
        /\ known.native = IF walked.video = NoTiming THEN data.native ELSE walked.video
    BY <2>3 DEF Walks, OnlyNameOrNative, EdidData
  <2> HIDE DEF known
  <2> DEFINE timed == TimingLoop(bytes, dtds, known)
  <2>5. OnlyNameOrNative(known, timed, names) /\ TimingsSay(bytes, dtds, known, timed)
    BY <2>1, <2>4, TimingTypes DEF OnlyNameOrNative
  <2> HIDE DEF timed, new
  <2>6. new = IF known.native # NoTiming THEN known ELSE timed
    BY <2>2 DEF timed
  <2>7. OnlyNameOrNative(walked.data, new, names)
    BY <2>4, <2>5, <2>6 DEF OnlyNameOrNative
  <2>8. NoName(bytes, base) => new.name = data.name
    BY <1>2, <2>4, <2>5, <2>6 DEF NoName, TimingsSay, dtds
  <2>9. ASSUME NEW o, NEW n, Laid(bytes, base, o, n)
        PROVE  LastCounts(bytes, o, n, data, new)
    <3>1. EndToEnd(bytes, o, n, base + 4, dtds)
      BY <1>2, <2>9 DEF Laid, dtds
    <3>2. LastCounts(bytes, o, n, data, walked.data)
      BY <2>1, <3>1, LoopSays DEF walked
    <3> QED
      BY <2>7, <3>2 DEF LastCounts, AddressIsLast, EotfsAreLast, DolbyIsLast, OnlyNameOrNative
  <2>10. ASSUME NEW o, NEW n, Laid(bytes, base, o, n), AllKnown(bytes, o, n)
         PROVE  NativeSays(bytes, base, o, n, data, new)
    <3> DEFINE rows == WalkRows(bytes, natives, o, n)
               timing == \E k \in 0..3 : IsTiming(bytes, dtds + 18 * k)
    <3>1. EndToEnd(bytes, o, n, base + 4, dtds)
      BY <1>2, <2>10 DEF Laid, dtds
    <3>2. IF rows = {} THEN walked.video = NoTiming ELSE RowOf(rows, walked.video)
      BY <2>1, <2>10, <3>1, LoopVideo DEF walked
    <3>3. \A r : VicRow(r) # NoTiming
      BY DEF VicRow, NoTiming
    <3>4. CASE rows # {}
      <4>1. RowOf(rows, walked.video) /\ walked.video # NoTiming
        BY <3>2, <3>3, <3>4 DEF RowOf
      <4>2. new.native = walked.video
        BY <2>4, <2>6, <4>1
      <4> QED
        BY <1>2, <3>4, <4>1, <4>2 DEF NativeSays, natives
    <3>5. CASE rows = {}
      <4>1. known.native = data.native
        BY <2>4, <3>2, <3>5
      <4>2. data.native # NoTiming => new.native = data.native
        BY <2>6, <4>1
      <4>3. data.native = NoTiming =>
              IF timing THEN \E p \in Nat : new.native = Detailed(p) ELSE new.native = data.native
        BY <2>5, <2>6, <4>1 DEF TimingsSay
      <4> QED
        BY <1>2, <3>5, <4>2, <4>3 DEF NativeSays, natives, dtds
    <3> QED
      BY <3>4, <3>5
  <2> QED
    BY <2>7, <2>8, <2>9, <2>10 DEF OnlyNameOrNative, new
<1> QED
  BY <1>1, <1>2

(***************************************************************************)
(* The whole EDID.  The extensions that are parsed, from 1 on: after the   *)
(* map of the blocks if there is more than one, and one more than is       *)
(* declared if there are bytes of one more.                                *)
(***************************************************************************)
Present(extensions, count) ==
    IF count = 128 * (2 + extensions) THEN extensions + 1 ELSE extensions
Map(extensions, count) == IF Present(extensions, count) > 1 THEN 1 ELSE 0
ToParse(extensions, count) == Present(extensions, count) - Map(extensions, count)
Base(extensions, count, e) == 128 * (e + Map(extensions, count))

Accepted(extensions, bytes, count) ==
    /\ count >= 128 * (1 + extensions)
    /\ Present(extensions, count) > 1 => bytes[128] = ExtensionTagBlockMap

\* Where the blocks of each extension stand.
AllLaid(extensions, bytes, count, o, n) ==
    \A e \in 1..ToParse(extensions, count) :
        Laid(bytes, Base(extensions, count, e), o[e], n[e])

AllSound(extensions, bytes, count, names) ==
    \A e \in 1..ToParse(extensions, count) : Sound(bytes, Base(extensions, count, e), names)

NoNames(extensions, bytes, count) ==
    \A e \in 1..ToParse(extensions, count) : NoName(bytes, Base(extensions, count, e))

\* Of all the blocks of a kind in all extensions the last one counts.
LastAddress(extensions, bytes, count, o, n, data, new) ==
    LET N == ToParse(extensions, count)
    IN /\ (\A e \in 1..N : \A i \in 1..n[e] : ~IsVendor(bytes, o[e][i]))
            => new.address = data.address
       /\ \A e \in 1..N : \A j \in 1..n[e] :
            /\ IsVendor(bytes, o[e][j])
            /\ \A i \in (j + 1)..n[e] : ~IsVendor(bytes, o[e][i])
            /\ \A f \in (e + 1)..N : \A i \in 1..n[f] : ~IsVendor(bytes, o[f][i])
            => new.address = AddressAt(bytes, o[e][j])

LastEotfs(extensions, bytes, count, o, n, data, new) ==
    LET N == ToParse(extensions, count)
    IN /\ (\A e \in 1..N : \A i \in 1..n[e] : ~IsStatic(bytes, o[e][i]))
            => new.hdr \cap Eotfs = data.hdr \cap Eotfs
       /\ \A e \in 1..N : \A j \in 1..n[e] :
            /\ IsStatic(bytes, o[e][j])
            /\ \A i \in (j + 1)..n[e] : ~IsStatic(bytes, o[e][i])
            /\ \A f \in (e + 1)..N : \A i \in 1..n[f] : ~IsStatic(bytes, o[f][i])
            => new.hdr \cap Eotfs = HdrOf(bytes[o[e][j] + 2])

LastDolby(extensions, bytes, count, o, n, data, new) ==
    LET N == ToParse(extensions, count)
    IN /\ (\A e \in 1..N : \A i \in 1..n[e] : ~IsDolby(bytes, o[e][i])) => new.dv = data.dv
       /\ \A e \in 1..N : \A j \in 1..n[e] :
            /\ IsDolby(bytes, o[e][j])
            /\ \A i \in (j + 1)..n[e] : ~IsDolby(bytes, o[e][i])
            /\ \A f \in (e + 1)..N : \A i \in 1..n[f] : ~IsDolby(bytes, o[f][i])
            => new.dv = DolbyAt(bytes, o[e][j])

\* The loop over the extensions as a run.
IsPass(g, extensions, bytes, count, names, data) ==
    /\ g \in [0..ToParse(extensions, count) -> EdidData(names)]
    /\ g[0] = data
    /\ \A e \in 1..ToParse(extensions, count) :
         g[e] = parse_extension_block(bytes, Base(extensions, count, e), g[e - 1])

\* The extensions that are parsed are at offsets that are numbers.
LEMMA CountTypes ==
    ASSUME NEW extensions \in Nat \ {0}, NEW count \in Nat
    PROVE  /\ ToParse(extensions, count) \in Nat
           /\ \A e \in 1..ToParse(extensions, count) : Base(extensions, count, e) \in Nat
BY DEF ToParse, Present, Map, Base

\* The loop over the extensions is a run of its turns.
LEMMA PassRuns ==
    ASSUME NEW names, NEW data \in EdidData(names), NEW extensions \in Nat \ {0}, NEW bytes,
           NEW count \in Nat, AllSound(extensions, bytes, count, names),
           Accepted(extensions, bytes, count)
    PROVE  \E g : /\ IsPass(g, extensions, bytes, count, names, data)
                  /\ parse_extension_blocks(extensions, bytes, count, data) =
                       [status |-> "ok", data |-> g[ToParse(extensions, count)]]
<1> DEFINE N == ToParse(extensions, count)
           A == EdidData(names)
           After(e, acc) == parse_extension_block(bytes, Base(extensions, count, e), acc)
           F == [e \in 1..N |-> [acc \in A |-> After(e, acc)]]
           parsed == CHOOSE parsed : parsed = [k \in 0..N |->
                       IF k = 0 THEN data
                       ELSE parse_extension_block(bytes, 128 * (k + Map(extensions, count)),
                                                  parsed[k - 1])]
<1>1. N \in Nat /\ \A e \in 1..N : Base(extensions, count, e) \in Nat
  BY CountTypes
<1>2. ASSUME NEW e \in 1..N, NEW acc \in A PROVE After(e, acc) \in A
  BY <1>1, ExtensionSays DEF AllSound
<1>3. parse_extension_blocks(extensions, bytes, count, data) = [status |-> "ok", data |-> parsed[N]]
  <2>1. parse_extension_blocks(extensions, bytes, count, data) =
          CASE count < 128 * (1 + extensions) -> [status |-> "invalid header", data |-> data]
            [] count >= 128 * (1 + extensions) /\ Present(extensions, count) > 1
                 /\ bytes[128] # ExtensionTagBlockMap -> [status |-> "not supported", data |-> data]
            [] OTHER -> [status |-> "ok", data |-> parsed[N]]
    BY DEF parse_extension_blocks, ToParse, Present, Map
  <2>2. /\ ~(count < 128 * (1 + extensions))
        /\ ~(Present(extensions, count) > 1 /\ bytes[128] # ExtensionTagBlockMap)
    BY DEF Accepted
  <2> HIDE DEF parsed, N
  <2> QED
    BY <2>1, <2>2
<1> HIDE DEF N, A, After
<1>4. F \in [1..N -> [A -> A]]
  BY <1>2
<1>5. PICK g : Runs(g, A, data, N, F)
  <2> HIDE DEF F
  <2>1. data \in A
    BY DEF A
  <2> QED
    BY <1>1, <1>4, <2>1, LoopRuns
<1>6. ASSUME NEW e \in 1..N PROVE g[e] = After(e, g[e - 1])
  <2>1. e - 1 \in 0..N
    BY <1>1
  <2>2. g[e - 1] \in A /\ g[e] = F[e][g[e - 1]]
    BY <1>5, <2>1 DEF Runs
  <2> QED
    BY <2>2
<1>7. g = [e \in 0..N |->
             IF e = 0 THEN data
             ELSE parse_extension_block(bytes, 128 * (e + Map(extensions, count)), g[e - 1])]
  BY <1>5, <1>6 DEF Runs, After, Base
<1>8. parsed = [e \in 0..N |->
             IF e = 0 THEN data
             ELSE parse_extension_block(bytes, 128 * (e + Map(extensions, count)), parsed[e - 1])]
  BY <1>7
<1> HIDE DEF parsed
<1>9. ASSUME NEW e \in 1..N PROVE parsed[e] = After(e, parsed[e - 1])
  <2>1. e \in 0..N /\ e # 0
    BY <1>1
  <2> QED
    BY <1>8, <2>1 DEF After, Base
<1>10. parsed[0] = data
  BY <1>1, <1>8
<1> DEFINE S == {e \in 0..N : parsed[e] \in A}
<1>11. 0 \in S
  BY <1>1, <1>10 DEF A
<1>12. \A e \in 1..N : e - 1 \in S => e \in S
  BY <1>2, <1>9
<1>13. 0..N \subseteq S
  <2> HIDE DEF S
  <2> QED
    BY <1>1, <1>11, <1>12, EveryTurn
<1>14. parsed \in [0..N -> A]
  <2>1. parsed = [e \in 0..N |-> parsed[e]]
    BY <1>8
  <2> QED
    BY <1>13, <2>1
<1>15. IsPass(parsed, extensions, bytes, count, names, data)
  BY <1>9, <1>10, <1>14 DEF IsPass, N, A, After
<1> QED
  BY <1>3, <1>15 DEF N

\* What all extensions together change.
LEMMA ExtensionsSay ==
    ASSUME NEW names, NEW data \in EdidData(names), NEW extensions \in Nat \ {0}, NEW bytes,
           NEW count \in Nat, AllSound(extensions, bytes, count, names),
           Accepted(extensions, bytes, count)
    PROVE  LET new == parse_extension_blocks(extensions, bytes, count, data).data
           IN /\ new \in EdidData(names)
              /\ NoNames(extensions, bytes, count) => new.name = data.name
              /\ \A o, n : AllLaid(extensions, bytes, count, o, n) =>
                   /\ LastAddress(extensions, bytes, count, o, n, data, new)
                   /\ LastEotfs(extensions, bytes, count, o, n, data, new)
                   /\ LastDolby(extensions, bytes, count, o, n, data, new)
<1> DEFINE N == ToParse(extensions, count)
           new == parse_extension_blocks(extensions, bytes, count, data).data
<1>1. N \in Nat /\ \A e \in 1..N : Base(extensions, count, e) \in Nat
  BY CountTypes
<1>2. PICK g : /\ IsPass(g, extensions, bytes, count, names, data)
               /\ parse_extension_blocks(extensions, bytes, count, data) =
                    [status |-> "ok", data |-> g[N]]
  BY PassRuns
<1>3. new = g[N] /\ g[0] = data /\ g[N] \in EdidData(names)
  BY <1>1, <1>2 DEF IsPass
<1> HIDE DEF new
<1>5. ASSUME NoNames(extensions, bytes, count)
      PROVE  new.name = data.name
  <2> DEFINE h == [e \in 0..N |-> g[e].name]
  <2>1. ASSUME NEW e \in 1..N PROVE h[e] = h[e - 1]
    <3>1. e \in 0..N /\ e - 1 \in 0..N
      BY <1>1
    <3>2. /\ g[e - 1] \in EdidData(names)
          /\ g[e] = parse_extension_block(bytes, Base(extensions, count, e), g[e - 1])
          /\ Sound(bytes, Base(extensions, count, e), names)
          /\ NoName(bytes, Base(extensions, count, e))
      BY <1>2, <1>5, <3>1 DEF IsPass, AllSound, NoNames
    <3>3. g[e].name = g[e - 1].name
      BY <1>1, <3>2, ExtensionSays
    <3> QED
      BY <3>1, <3>3
  <2>2. h[N] = new.name /\ h[0] = data.name
    BY <1>1, <1>3
  <2> HIDE DEF h, N
  <2>3. h[N] = h[0]
    BY <1>1, <2>1, StaysSince
  <2> QED
    BY <2>2, <2>3
<1>4. ASSUME NEW o, NEW n, AllLaid(extensions, bytes, count, o, n)
      PROVE  /\ LastAddress(extensions, bytes, count, o, n, data, new)
             /\ LastEotfs(extensions, bytes, count, o, n, data, new)
             /\ LastDolby(extensions, bytes, count, o, n, data, new)
  <2>1. ASSUME NEW e \in 1..N
        PROVE  /\ e \in 0..N /\ e - 1 \in 0..N
               /\ LastCounts(bytes, o[e], n[e], g[e - 1], g[e])
    <3>1. e \in 0..N /\ e - 1 \in 0..N
      BY <1>1
    <3>2. /\ g[e - 1] \in EdidData(names)
          /\ g[e] = parse_extension_block(bytes, Base(extensions, count, e), g[e - 1])
      BY <1>2, <3>1 DEF IsPass
    <3>3. /\ Sound(bytes, Base(extensions, count, e), names)
          /\ Laid(bytes, Base(extensions, count, e), o[e], n[e])
      BY <1>4 DEF AllSound, AllLaid
    <3> QED
      BY <1>1, <3>1, <3>2, <3>3, ExtensionSays
  <2>2. LastAddress(extensions, bytes, count, o, n, data, new)
    <3> DEFINE h == [e \in 0..N |-> g[e].address]
               Free(e) == \A i \in 1..n[e] : ~IsVendor(bytes, o[e][i])
    <3>1. ASSUME NEW first \in 0..N, \A e \in (first + 1)..N : Free(e)
          PROVE  h[N] = h[first]
      <4>1. ASSUME NEW e \in (first + 1)..N PROVE h[e] = h[e - 1]
        <5>1. e \in 1..N
          BY <1>1
        <5>2. Free(e) /\ AddressIsLast(bytes, o[e], n[e], g[e - 1], g[e])
          BY <2>1, <3>1, <5>1 DEF LastCounts
        <5> QED
          BY <2>1, <5>1, <5>2 DEF AddressIsLast
      <4> HIDE DEF h, N
      <4> QED
        BY <1>1, <4>1, StaysSince
    <3>2. h[N] = new.address /\ h[0] = data.address
      BY <1>1, <1>3
    <3>3. (\A e \in 1..N : Free(e)) => new.address = data.address
      <4> HIDE DEF h, Free, N
      <4> QED
        BY <1>1, <3>1, <3>2
    <3>4. ASSUME NEW e \in 1..N, NEW j \in 1..n[e], IsVendor(bytes, o[e][j]),
                 \A i \in (j + 1)..n[e] : ~IsVendor(bytes, o[e][i]),
                 \A f \in (e + 1)..N : Free(f)
          PROVE  new.address = AddressAt(bytes, o[e][j])
      <4>1. AddressIsLast(bytes, o[e], n[e], g[e - 1], g[e]) /\ e \in 0..N
        BY <2>1 DEF LastCounts
      <4>2. h[e] = AddressAt(bytes, o[e][j])
        BY <3>4, <4>1 DEF AddressIsLast
      <4> HIDE DEF h, Free, N
      <4> QED
        BY <3>1, <3>2, <3>4, <4>1, <4>2
    <3> HIDE DEF h
    <3> QED
      BY <3>3, <3>4 DEF LastAddress
  <2>3. LastEotfs(extensions, bytes, count, o, n, data, new)
    <3> DEFINE h == [e \in 0..N |-> g[e].hdr \cap Eotfs]
               Free(e) == \A i \in 1..n[e] : ~IsStatic(bytes, o[e][i])
    <3>1. ASSUME NEW first \in 0..N, \A e \in (first + 1)..N : Free(e)
          PROVE  h[N] = h[first]
      <4>1. ASSUME NEW e \in (first + 1)..N PROVE h[e] = h[e - 1]
        <5>1. e \in 1..N
          BY <1>1
        <5>2. Free(e) /\ EotfsAreLast(bytes, o[e], n[e], g[e - 1], g[e])
          BY <2>1, <3>1, <5>1 DEF LastCounts
        <5> QED
          BY <2>1, <5>1, <5>2 DEF EotfsAreLast
      <4> HIDE DEF h, N
      <4> QED
        BY <1>1, <4>1, StaysSince
    <3>2. h[N] = new.hdr \cap Eotfs /\ h[0] = data.hdr \cap Eotfs
      BY <1>1, <1>3
    <3>3. (\A e \in 1..N : Free(e)) => new.hdr \cap Eotfs = data.hdr \cap Eotfs
      <4> HIDE DEF h, Free, N
      <4> QED
        BY <1>1, <3>1, <3>2
    <3>4. ASSUME NEW e \in 1..N, NEW j \in 1..n[e], IsStatic(bytes, o[e][j]),
                 \A i \in (j + 1)..n[e] : ~IsStatic(bytes, o[e][i]),
                 \A f \in (e + 1)..N : Free(f)
          PROVE  new.hdr \cap Eotfs = HdrOf(bytes[o[e][j] + 2])
      <4>1. EotfsAreLast(bytes, o[e], n[e], g[e - 1], g[e]) /\ e \in 0..N
        BY <2>1 DEF LastCounts
      <4>2. g[e].hdr \cap Eotfs = HdrOf(bytes[o[e][j] + 2])
        BY <3>4, <4>1 DEF EotfsAreLast
      <4>3. h[e] = g[e].hdr \cap Eotfs
        BY <4>1
      <4> HIDE DEF h, Free, N
      <4> QED
        BY <3>1, <3>2, <3>4, <4>1, <4>2, <4>3
    <3> HIDE DEF h
    <3> QED
      BY <3>3, <3>4 DEF LastEotfs
  <2>4. LastDolby(extensions, bytes, count, o, n, data, new)
    <3> DEFINE h == [e \in 0..N |-> g[e].dv]
               Free(e) == \A i \in 1..n[e] : ~IsDolby(bytes, o[e][i])
    <3>1. ASSUME NEW first \in 0..N, \A e \in (first + 1)..N : Free(e)
          PROVE  h[N] = h[first]
      <4>1. ASSUME NEW e \in (first + 1)..N PROVE h[e] = h[e - 1]
        <5>1. e \in 1..N
          BY <1>1
        <5>2. Free(e) /\ DolbyIsLast(bytes, o[e], n[e], g[e - 1], g[e])
          BY <2>1, <3>1, <5>1 DEF LastCounts
        <5> QED
          BY <2>1, <5>1, <5>2 DEF DolbyIsLast
      <4> HIDE DEF h, N
      <4> QED
        BY <1>1, <4>1, StaysSince
    <3>2. h[N] = new.dv /\ h[0] = data.dv
      BY <1>1, <1>3
    <3>3. (\A e \in 1..N : Free(e)) => new.dv = data.dv
      <4> HIDE DEF h, Free, N
      <4> QED
        BY <1>1, <3>1, <3>2
    <3>4. ASSUME NEW e \in 1..N, NEW j \in 1..n[e], IsDolby(bytes, o[e][j]),
                 \A i \in (j + 1)..n[e] : ~IsDolby(bytes, o[e][i]),
                 \A f \in (e + 1)..N : Free(f)
          PROVE  new.dv = DolbyAt(bytes, o[e][j])
      <4>1. DolbyIsLast(bytes, o[e], n[e], g[e - 1], g[e]) /\ e \in 0..N
        BY <2>1 DEF LastCounts
      <4>2. h[e] = DolbyAt(bytes, o[e][j])
        BY <3>4, <4>1 DEF DolbyIsLast
      <4> HIDE DEF h, Free, N
      <4> QED
        BY <3>1, <3>2, <3>4, <4>1, <4>2
    <3> HIDE DEF h
    <3> QED
      BY <3>3, <3>4 DEF LastDolby
  <2> QED
    BY <2>2, <2>3, <2>4
<1> QED
  BY <1>3, <1>4, <1>5 DEF new

\* The native timing after all extensions: of a row that one of them declares, else
\* what was known before, else one of their timings.
ExtensionRows(bytes, base, o, n) ==
    IF bytes[base] = AdditionalTiming THEN WalkRows(bytes, bytes[base + 3] % 8, o, n) ELSE {}
HasTiming(bytes, base) ==
    /\ bytes[base] = AdditionalTiming
    /\ \E k \in 0..3 : IsTiming(bytes, First(bytes, base) + 18 * k)

Settled(rows, timing, before, native) ==
    IF rows # {} THEN RowOf(rows, native)
    ELSE IF before = NoTiming /\ timing THEN \E p \in Nat : native = Detailed(p)
    ELSE native = before

NativeOfAll(extensions, bytes, count, o, n, data, new) ==
    LET N == ToParse(extensions, count)
        B(e) == Base(extensions, count, e)
    IN Settled(UNION {ExtensionRows(bytes, B(e), o[e], n[e]) : e \in 1..N},
               \E e \in 1..N : HasTiming(bytes, B(e)), data.native, new.native)

\* The native timing that all extensions together settle.
LEMMA ExtensionsNative ==
    ASSUME NEW names, NEW data \in EdidData(names), NEW extensions \in Nat \ {0}, NEW bytes,
           NEW count \in Nat, AllSound(extensions, bytes, count, names),
           Accepted(extensions, bytes, count),
           NEW o, NEW n, AllLaid(extensions, bytes, count, o, n),
           \A e \in 1..ToParse(extensions, count) : AllKnown(bytes, o[e], n[e])
    PROVE  NativeOfAll(extensions, bytes, count, o, n, data,
                       parse_extension_blocks(extensions, bytes, count, data).data)
<1> DEFINE N == ToParse(extensions, count)
           B(e) == Base(extensions, count, e)
           new == parse_extension_blocks(extensions, bytes, count, data).data
           R(e) == ExtensionRows(bytes, B(e), o[e], n[e])
           T(e) == HasTiming(bytes, B(e))
           Rows(i) == UNION {R(e) : e \in 1..i}
           Timing(i) == \E e \in 1..i : T(e)
<1>1. N \in Nat /\ \A e \in 1..N : B(e) \in Nat
  BY CountTypes
<1>2. PICK g : /\ IsPass(g, extensions, bytes, count, names, data)
               /\ parse_extension_blocks(extensions, bytes, count, data) =
                    [status |-> "ok", data |-> g[N]]
  BY PassRuns
<1>3. new = g[N] /\ g[0] = data
  BY <1>2 DEF IsPass
<1> HIDE DEF new
<1> DEFINE Right(i) == Settled(Rows(i), Timing(i), data.native, g[i].native)
           S == {i \in 0..N : Right(i)}
<1>4. 0 \in S
  BY <1>1, <1>3 DEF Settled
<1>5. ASSUME NEW i \in 1..N, i - 1 \in S
      PROVE  i \in S
  <2>1. i \in 0..N /\ i - 1 \in 0..N /\ Right(i - 1)
    <3>1. i \in 0..N /\ i - 1 \in 0..N
      BY <1>1
    <3> HIDE DEF N, Right
    <3> QED
      BY <1>5, <3>1
  <2>2. /\ g[i - 1] \in EdidData(names)
        /\ g[i] = parse_extension_block(bytes, B(i), g[i - 1])
        /\ Sound(bytes, B(i), names) /\ Laid(bytes, B(i), o[i], n[i])
        /\ AllKnown(bytes, o[i], n[i])
    BY <1>2, <2>1 DEF IsPass, AllSound, AllLaid
  <2>3. NativeSays(bytes, B(i), o[i], n[i], g[i - 1], g[i])
    BY <1>1, <2>2, ExtensionSays
  <2>4. Settled(R(i), T(i), g[i - 1].native, g[i].native)
    BY <2>3 DEF NativeSays, Settled, ExtensionRows, HasTiming
  <2>5. 1..i = (1..(i - 1)) \cup {i}
    BY <1>1
  <2> HIDE DEF R, T
  <2>6. Rows(i) = Rows(i - 1) \cup R(i) /\ (Timing(i) <=> Timing(i - 1) \/ T(i))
    BY <2>5
  <2>7. \A X, Y, t : RowOf(X, t) => t # NoTiming /\ RowOf(X \cup Y, t) /\ RowOf(Y \cup X, t)
    BY DEF RowOf, VicRow, NoTiming
  <2>8. \A p : Detailed(p) # NoTiming
    BY DEF Detailed, NoTiming
  <2> HIDE DEF Rows, Timing
  <2>9. Right(i)
    <3>1. CASE R(i) # {}
      BY <2>4, <2>6, <2>7, <3>1 DEF Settled
    <3>2. CASE R(i) = {} /\ Rows(i - 1) # {}
      BY <2>1, <2>4, <2>6, <2>7, <3>2 DEF Settled
    <3>3. CASE R(i) = {} /\ Rows(i - 1) = {}
      BY <2>1, <2>4, <2>6, <2>8, <3>3 DEF Settled
    <3> QED
      BY <3>1, <3>2, <3>3
  <2> QED
    BY <2>1, <2>9
<1>6. N \in S
  <2> HIDE DEF S, N
  <2> QED
    BY <1>1, <1>4, <1>5, EveryTurn
<1>7. Right(N)
  BY <1>6
<1> QED
  BY <1>3, <1>7 DEF NativeOfAll, new

(***************************************************************************)
(* The call.                                                               *)
(***************************************************************************)
BaseData(bytes) ==
    parse_dtd(bytes, 108, FALSE, parse_dtd(bytes, 90, FALSE,
        parse_dtd(bytes, 72, FALSE, parse_dtd(bytes, 54, TRUE, Blank))))

Descriptors == {54, 72, 90, 108}

\* What the first block leaves: the name of its last descriptor with one, and its
\* first timing.
LEMMA BaseTypes ==
    ASSUME NEW names, 0 \in names, NEW bytes, \A p \in Descriptors : Named(bytes, p, names)
    PROVE  LET base == BaseData(bytes)
           IN /\ base \in EdidData(names)
              /\ base.address = <<0, 0, 0, 0>> /\ base.hdr = {} /\ base.dv = {}
              /\ base.native = IF IsTiming(bytes, 54) THEN Detailed(54) ELSE NoTiming
              /\ (\A p \in Descriptors : ~IsName(bytes, p)) => base.name = 0
              /\ \A p \in Descriptors :
                   IsName(bytes, p) /\ (\A q \in Descriptors : q > p => ~IsName(bytes, q))
                     => base.name = MonitorName(bytes, p)
<1> DEFINE a == parse_dtd(bytes, 54, TRUE, Blank)
           b == parse_dtd(bytes, 72, FALSE, a)
           c == parse_dtd(bytes, 90, FALSE, b)
           d == parse_dtd(bytes, 108, FALSE, c)
<1>1. d = BaseData(bytes)
  BY DEF BaseData
<1>2. /\ Blank \in EdidData(names) /\ Blank.address = <<0, 0, 0, 0>> /\ Blank.hdr = {}
      /\ Blank.dv = {} /\ Blank.name = 0 /\ Blank.native = NoTiming
  BY DEF Blank, EdidData, Addresses, Nibble, HdrSets, DvSets, Colorimetries, Timings
<1>3. /\ 54 \in Descriptors /\ 72 \in Descriptors /\ 90 \in Descriptors /\ 108 \in Descriptors
      /\ \A p \in Descriptors : p \in Nat
  BY DEF Descriptors
<1>4. OnlyNameOrNative(Blank, a, names) /\ DtdSays(bytes, 54, TRUE, Blank, a)
  <2>1. Blank \in EdidData(names) /\ 54 \in Nat /\ TRUE \in BOOLEAN /\ Named(bytes, 54, names)
    BY <1>2, <1>3
  <2> QED
    BY ONLY <2>1, DtdTypes DEF a
<1> HIDE DEF a
<1>5. OnlyNameOrNative(a, b, names) /\ DtdSays(bytes, 72, FALSE, a, b)
  <2>1. a \in EdidData(names) /\ 72 \in Nat /\ FALSE \in BOOLEAN /\ Named(bytes, 72, names)
    BY <1>3, <1>4 DEF OnlyNameOrNative
  <2> QED
    BY ONLY <2>1, DtdTypes DEF b
<1> HIDE DEF b
<1>6. OnlyNameOrNative(b, c, names) /\ DtdSays(bytes, 90, FALSE, b, c)
  BY <1>3, <1>5, DtdTypes DEF OnlyNameOrNative
<1> HIDE DEF c
<1>7. OnlyNameOrNative(c, d, names) /\ DtdSays(bytes, 108, FALSE, c, d)
  BY <1>3, <1>6, DtdTypes DEF OnlyNameOrNative
<1> HIDE DEF d
<1>8. /\ d \in EdidData(names)
      /\ d.address = <<0, 0, 0, 0>> /\ d.hdr = {} /\ d.dv = {}
  BY <1>2, <1>4, <1>5, <1>6, <1>7 DEF OnlyNameOrNative
<1>9. d.native = IF IsTiming(bytes, 54) THEN Detailed(54) ELSE NoTiming
  BY <1>2, <1>4, <1>5, <1>6, <1>7 DEF DtdSays
<1>10. (\A p \in Descriptors : ~IsName(bytes, p)) => d.name = 0
  BY <1>2, <1>3, <1>4, <1>5, <1>6, <1>7 DEF DtdSays
<1>11. ASSUME NEW p \in Descriptors, IsName(bytes, p),
              \A q \in Descriptors : q > p => ~IsName(bytes, q)
       PROVE  d.name = MonitorName(bytes, p)
  BY <1>4, <1>5, <1>6, <1>7, <1>11 DEF DtdSays, Descriptors
<1> QED
  BY <1>1, <1>8, <1>9, <1>10, <1>11

\* Extensions that are refused change nothing.
LEMMA Refused ==
    ASSUME NEW extensions \in Nat, NEW bytes, NEW count \in Nat, NEW data,
           ~Accepted(extensions, bytes, count)
    PROVE  parse_extension_blocks(extensions, bytes, count, data).data = data
<1>1. CASE count < 128 * (1 + extensions)
  BY <1>1 DEF parse_extension_blocks
<1>2. CASE count >= 128 * (1 + extensions)
  <2>1. Present(extensions, count) > 1 /\ bytes[128] # ExtensionTagBlockMap
    BY <1>2 DEF Accepted
  <2> QED
    BY <1>2, <2>1 DEF parse_extension_blocks, Present
<1> QED
  BY <1>1, <1>2

\* After the first block come the extensions, if there are any and they are accepted.
LEMMA ParseParts ==
    ASSUME NEW bytes, bytes[126] \in 0..255, NEW count \in Nat, NEW before
    PROVE  LET parsed == EDID_Parse(bytes, count, before).data
               extensions == bytes[126]
           IN /\ ~EDID_Verify(bytes, count) => parsed = before
              /\ EDID_Verify(bytes, count) =>
                   parsed = IF extensions # 0 /\ Accepted(extensions, bytes, count)
                            THEN parse_extension_blocks(extensions, bytes, count,
                                                        BaseData(bytes)).data
                            ELSE BaseData(bytes)
<1> DEFINE parsed == EDID_Parse(bytes, count, before).data
           extensions == bytes[126]
           base == BaseData(bytes)
<1>1. EDID_Parse(bytes, count, before) =
        CASE ~EDID_Verify(bytes, count) -> [status |-> "invalid", data |-> before]
          [] EDID_Verify(bytes, count) /\ extensions = 0 -> [status |-> "ok", data |-> base]
          [] OTHER -> parse_extension_blocks(extensions, bytes, count, base)
  BY DEF EDID_Parse, BaseData
<1> HIDE DEF base
<1>2. ~Accepted(extensions, bytes, count) =>
        parse_extension_blocks(extensions, bytes, count, base).data = base
  BY Refused
<1>3. CASE ~EDID_Verify(bytes, count)
  BY <1>1, <1>3
<1>4. CASE EDID_Verify(bytes, count) /\ extensions = 0
  BY <1>1, <1>4 DEF base
<1>5. CASE EDID_Verify(bytes, count) /\ extensions # 0
  <2>1. parsed = parse_extension_blocks(extensions, bytes, count, base).data
    BY <1>1, <1>5
  <2> QED
    BY <1>2, <1>5, <2>1 DEF base
<1> QED
  BY <1>3, <1>4, <1>5

\* If the names have lengths of the set names, the call keeps the type.
LEMMA EdidTypes ==
    ASSUME NEW names, 0 \in names, NEW bytes, bytes[126] \in 0..255, NEW count \in Nat,
           NEW before \in EdidData(names), \A p \in Descriptors : Named(bytes, p, names),
           AllSound(bytes[126], bytes, count, names)
    PROVE  EDID_Parse(bytes, count, before).data \in EdidData(names)
<1>1. BaseData(bytes) \in EdidData(names)
  BY BaseTypes
<1>2. ASSUME bytes[126] # 0, Accepted(bytes[126], bytes, count)
      PROVE  parse_extension_blocks(bytes[126], bytes, count, BaseData(bytes)).data
               \in EdidData(names)
  <2>1. bytes[126] \in Nat \ {0}
    BY <1>2
  <2> QED
    BY <1>1, <1>2, <2>1, ExtensionsSay
<1> QED
  BY <1>1, <1>2, ParseParts

\* Whatever bytes follow each other in memory and however many of them are an EDID, the
\* parser ends and leaves a value of its type in every field: four digits of an address,
\* capabilities that have a name, a native timing that is a row of the table, a timing
\* of the EDID or none.  A name has up to 14 characters and then no end.
THEOREM AnyEdidFits ==
    ASSUME NEW bytes \in [Nat -> 0..255], NEW count \in Nat, NEW before \in EdidData(Names)
    PROVE  EDID_Parse(bytes, count, before).data \in EdidData(Names)
<1>1. \A p \in Nat : bytes[p] \in 0..255
  OBVIOUS
<1>2. \A p : Named(bytes, p, Names)
  BY NameLength
<1>3. ASSUME NEW base \in Nat
      PROVE  Sound(bytes, base, Names)
  <2>1. bytes[base + 2] \in 0..255
    BY <1>1
  <2>2. \A p \in (base + 4)..(First(bytes, base) + 32) : p \in Nat
    OBVIOUS
  <2> QED
    BY <1>1, <1>2, <2>1, <2>2 DEF Sound, AreBytes
<1>4. bytes[126] \in 0..255
  BY <1>1
<1>5. ASSUME bytes[126] # 0
      PROVE  AllSound(bytes[126], bytes, count, Names)
  <2>1. bytes[126] \in Nat \ {0}
    BY <1>4, <1>5
  <2> QED
    BY <1>3, <2>1, CountTypes DEF AllSound
<1>6. ASSUME bytes[126] = 0
      PROVE  AllSound(bytes[126], bytes, count, Names)
  <2>1. \A e \in 1..ToParse(0, count) : Base(0, count, e) \in Nat
    BY DEF ToParse, Present, Map, Base
  <2> QED
    BY <1>3, <1>6, <2>1 DEF AllSound
<1> QED
  BY <1>2, <1>4, <1>5, <1>6, EdidTypes DEF Names

-----------------------------------------------------------------------------
(***************************************************************************)
(* The bytes of displays (EdidDisplay).                                    *)
(***************************************************************************)
LEMMA LenOf ==
    ASSUME NEW S, NEW n \in Nat, NEW s \in [1..n -> S]
    PROVE  s \in Seq(S) /\ Len(s) = n
<1>1. s \in Seq(S)
  BY SeqDef
<1>2. Len(s) \in Nat /\ DOMAIN s = 1..Len(s)
  BY <1>1, LenProperties
<1> QED
  BY <1>1, <1>2

\* The payload of a block has a length that the block can say, and is made of bytes.
PayloadOK(b) ==
    /\ Len(Payload(b)) \in 0..31
    /\ \A k \in 1..Len(Payload(b)) : Payload(b)[k] \in 0..255

\* Each block is one that an extension can hold.
LEMMA PayloadTypes ==
    ASSUME NEW b \in DataBlocks
    PROVE  PayloadOK(b)
<1>1. CASE b \in [kind : {"audio", "forum", "hdr10plus"}]
  <2>1. CASE b.kind = "audio"
    <3>1. Payload(b) = <<9, 7, 7>>
      BY <2>1 DEF Payload
    <3> QED
      BY <3>1 DEF PayloadOK
  <2>2. CASE b.kind = "forum"
    <3>1. Payload(b) = <<216, 93, 196, 1, 120, 128, 0>>
      BY <2>2 DEF Payload
    <3> QED
      BY <3>1 DEF PayloadOK
  <2>3. CASE b.kind = "hdr10plus"
    <3>1. Payload(b) = <<1, 139, 132, 144, 1>>
      BY <2>3 DEF Payload
    <3> QED
      BY <3>1 DEF PayloadOK
  <2> QED
    BY <1>1, <2>1, <2>2, <2>3
<1>2. CASE b \in [kind : {"video"}, codes : {s \in Seq(0..255) : Len(s) <= 31}]
  <2>1. Payload(b) = b.codes
    BY <1>2 DEF Payload
  <2>2. b.codes \in Seq(0..255) /\ Len(b.codes) <= 31
    BY <1>2
  <2>3. Len(b.codes) \in Nat /\ b.codes \in [1..Len(b.codes) -> 0..255]
    BY <2>2, LenProperties
  <2>4. \A k \in 1..Len(b.codes) : b.codes[k] \in 0..255
    BY <2>3
  <2>5. Len(b.codes) \in 0..31
    <3> DEFINE n == Len(b.codes)
    <3>1. n \in Nat /\ n <= 31
      BY <2>2, <2>3
    <3> HIDE DEF n
    <3>2. n \in 0..31
      BY ONLY <3>1
    <3> QED
      BY <3>2 DEF n
  <2> QED
    BY <2>1, <2>4, <2>5 DEF PayloadOK
<1>3. CASE b \in [kind : {"hdmi"}, address : (0..15) \X (0..15) \X (0..15) \X (0..15)]
  <2>1. Payload(b) = <<3, 12, 0, b.address[1] * 16 + b.address[2],
                       b.address[3] * 16 + b.address[4]>>
    BY <1>3 DEF Payload
  <2>2. \A i \in 1..4 : b.address[i] \in 0..15
    BY <1>3
  <2>3. b.address[1] * 16 + b.address[2] \in 0..255 /\ b.address[3] * 16 + b.address[4] \in 0..255
    BY <2>2
  <2> DEFINE high == b.address[1] * 16 + b.address[2]
             low == b.address[3] * 16 + b.address[4]
  <2>4. Payload(b) = <<3, 12, 0, high, low>> /\ high \in 0..255 /\ low \in 0..255
    BY <2>1, <2>3
  <2> HIDE DEF high, low
  <2> QED
    BY ONLY <2>4 DEF PayloadOK
<1>4. CASE b \in [kind : {"static"}, eotfs : SUBSET StaticEotfs]
  <2>1. Payload(b) = <<6, EotfByte(b.eotfs), 1>>
    BY <1>4 DEF Payload
  <2>2. EotfByte(b.eotfs) \in 0..13
    BY DEF EotfByte
  <2> QED
    BY <2>1, <2>2 DEF PayloadOK
<1>5. CASE b \in [kind : {"dolby"}, version : 0..7, length : 11..31]
  <2> DEFINE s == [i \in 1..b.length |->
                     CASE i = 1 -> 1 [] i = 2 -> 70 [] i = 3 -> 208 [] i = 4 -> 0
                       [] i = 5 -> b.version * 32 + 2 [] OTHER -> 1]
  <2>1. Payload(b) = s
    BY <1>5 DEF Payload
  <2>2. s \in [1..b.length -> 0..255]
    BY <1>5
  <2>3. Len(s) = b.length
    <3> HIDE DEF s
    <3> QED
      BY <1>5, <2>2, LenOf
  <2> HIDE DEF s
  <2>4. \A k \in 1..b.length : s[k] \in 0..255
    BY <2>2
  <2>5. b.length \in 0..31
    BY <1>5
  <2> QED
    BY <2>1, <2>3, <2>4, <2>5 DEF PayloadOK
<1>6. CASE b \in [kind : {"colorimetry"}, bits : 0..255]
  <2>1. Payload(b) = <<5, b.bits, 0>>
    BY <1>6 DEF Payload
  <2> QED
    BY <1>6, <2>1 DEF PayloadOK
<1> QED
  BY <1>1, <1>2, <1>3, <1>4, <1>5, <1>6 DEF DataBlocks

\* The bytes from p on are those of the block b.
Stands(bytes, p, b) == \A k \in 0..Len(Payload(b)) : bytes[p + k] = BlockByte(b, k)

\* The parser finds the tag, the length and the bytes of a block that stands at p.
LEMMA BlockHeads ==
    ASSUME NEW b \in DataBlocks, NEW bytes, NEW p \in Nat, Stands(bytes, p, b)
    PROVE  /\ Tag(bytes[p]) = TagOf(b) /\ Length(bytes[p]) = Len(Payload(b))
           /\ \A k \in 0..Len(Payload(b)) : bytes[p + k] \in 0..255
           /\ \A k \in 1..Len(Payload(b)) : bytes[p + k] = Payload(b)[k]
<1> DEFINE n == Len(Payload(b))
<1>1. n \in 0..31 /\ \A k \in 1..n : Payload(b)[k] \in 0..255
  BY PayloadTypes DEF PayloadOK
<1>2. TagOf(b) \in 0..7
  BY DEF TagOf
<1>3. \A k \in 0..n : bytes[p + k] = IF k = 0 THEN TagOf(b) * 32 + n ELSE Payload(b)[k]
  BY DEF Stands, BlockByte, BlockHead
<1> HIDE DEF n
<1> DEFINE byte == TagOf(b) * 32 + n
<1>4. byte \div 32 = TagOf(b) /\ byte % 32 = n /\ byte \in 0..255
  <2> DEFINE tag == TagOf(b)
  <2>1. tag \in 0..7 /\ n \in 0..31
    BY <1>1, <1>2
  <2> HIDE DEF tag
  <2>2. (tag * 32 + n) \div 32 = tag /\ (tag * 32 + n) % 32 = n /\ tag * 32 + n \in 0..255
    BY ONLY <2>1
  <2> QED
    BY <2>2 DEF tag, byte
<1> HIDE DEF byte
<1>5. 0 \in 0..n /\ p + 0 = p
  BY <1>1
<1>6. bytes[p] = byte
  <2>1. bytes[p + 0] = byte
    BY <1>3, <1>5 DEF byte
  <2> QED
    BY <1>5, <2>1
<1>7. \A k \in 1..n : bytes[p + k] = Payload(b)[k]
  BY <1>1, <1>3
<1>8. \A k \in 0..n : k = 0 \/ k \in 1..n
  BY <1>1
<1>9. ASSUME NEW k \in 0..n PROVE bytes[p + k] \in 0..255
  <2>1. CASE k = 0
    BY <1>4, <1>5, <1>6, <2>1
  <2>2. CASE k \in 1..n
    BY <1>1, <1>7, <2>2
  <2> QED
    BY <1>8, <2>1, <2>2
<1> QED
  BY <1>4, <1>6, <1>7, <1>9 DEF Tag, Length, n

\* The version and the length of a Dolby Vision block are read as they were written.
LEMMA DolbyBytes ==
    ASSUME NEW b \in DataBlocks, NEW bytes, NEW p \in Nat, Stands(bytes, p, b),
           b.kind = "dolby"
    PROVE  /\ bytes[p + 1] = 1 /\ bytes[p + 2] = 70 /\ bytes[p + 3] = 208 /\ bytes[p + 4] = 0
           /\ DolbyVersion(bytes, p) = b.version /\ Length(bytes[p]) = b.length
           /\ b.length \in 11..31 /\ b.version \in 0..7
<1> DEFINE s == [i \in 1..b.length |->
                   CASE i = 1 -> 1 [] i = 2 -> 70 [] i = 3 -> 208 [] i = 4 -> 0
                     [] i = 5 -> b.version * 32 + 2 [] OTHER -> 1]
<1>1. b.length \in 11..31 /\ b.version \in 0..7
  BY DEF DataBlocks
<1>2. Payload(b) = s
  BY DEF Payload
<1>3. Len(Payload(b)) = b.length
  <2>1. s \in [1..b.length -> Nat] /\ b.length \in Nat
    BY <1>1
  <2> HIDE DEF s
  <2>2. Len(s) = b.length
    BY ONLY <2>1, LenOf
  <2> QED
    BY <1>2, <2>2
<1> HIDE DEF s
<1>4. /\ Length(bytes[p]) = b.length
      /\ \A k \in 1..b.length : bytes[p + k] = s[k]
  BY <1>2, <1>3, BlockHeads
<1>5. \A k \in 1..5 : k \in 1..b.length
  BY <1>1
<1>6. s[1] = 1 /\ s[2] = 70 /\ s[3] = 208 /\ s[4] = 0 /\ s[5] = b.version * 32 + 2
  BY <1>5 DEF s
<1>7. /\ bytes[p + 1] = 1 /\ bytes[p + 2] = 70 /\ bytes[p + 3] = 208 /\ bytes[p + 4] = 0
      /\ bytes[p + 5] = b.version * 32 + 2
  BY <1>4, <1>5, <1>6
<1>8. \A v \in 0..7 : Bits(v * 32 + 2, 5, 3) = v
  <2>1. 2^5 = 32 /\ 2^3 = 8
    OBVIOUS
  <2>2. \A v \in 0..7 : ((v * 32 + 2) \div 32) % 8 = v
    OBVIOUS
  <2> QED
    BY <2>1, <2>2 DEF Bits
<1> QED
  BY <1>1, <1>4, <1>7, <1>8 DEF DolbyVersion

\* Which field of the structure a block is about.
LEMMA BlockKinds ==
    ASSUME NEW b \in DataBlocks, NEW bytes, NEW p \in Nat, Stands(bytes, p, b)
    PROVE  /\ IsVendor(bytes, p) <=> b.kind \in {"hdmi", "forum"}
           /\ IsStatic(bytes, p) <=> b.kind = "static"
           /\ IsDolby(bytes, p) <=> b.kind = "dolby" /\ b.version <= 2
           /\ Tag(bytes[p]) = 2 <=> b.kind = "video"
<1>1. /\ Tag(bytes[p]) = TagOf(b)
      /\ \A k \in 1..Len(Payload(b)) : bytes[p + k] = Payload(b)[k]
  BY BlockHeads
<1>2. CASE b.kind \in {"audio", "video", "hdmi", "forum"}
  BY <1>1, <1>2 DEF TagOf, IsVendor, IsStatic, IsDolby
<1>3. CASE b.kind = "static"
  <2>1. Payload(b) = <<6, EotfByte(b.eotfs), 1>>
    BY <1>3 DEF Payload
  <2>2. bytes[p + 1] = 6
    BY <1>1, <2>1
  <2> QED
    BY <1>1, <1>3, <2>2 DEF TagOf, IsVendor, IsStatic, IsDolby
<1>4. CASE b.kind = "hdr10plus"
  <2>1. Payload(b) = <<1, 139, 132, 144, 1>>
    BY <1>4 DEF Payload
  <2>2. bytes[p + 1] = 1 /\ bytes[p + 2] = 139
    BY <1>1, <2>1
  <2> QED
    BY <1>1, <1>4, <2>2 DEF TagOf, IsVendor, IsStatic, IsDolby, DV_IEEE_OUI
<1>5. CASE b.kind = "colorimetry"
  <2>1. Payload(b) = <<5, b.bits, 0>>
    BY <1>5 DEF Payload
  <2>2. bytes[p + 1] = 5
    BY <1>1, <2>1
  <2> QED
    BY <1>1, <1>5, <2>2 DEF TagOf, IsVendor, IsStatic, IsDolby
<1>6. CASE b.kind = "dolby"
  <2>1. /\ bytes[p + 1] = 1 /\ bytes[p + 2] = 70 /\ bytes[p + 3] = 208 /\ bytes[p + 4] = 0
        /\ DolbyVersion(bytes, p) = b.version
    BY <1>6, DolbyBytes
  <2> QED
    BY <1>1, <1>6, <2>1 DEF TagOf, IsVendor, IsStatic, IsDolby, DV_IEEE_OUI
<1> QED
  BY <1>2, <1>3, <1>4, <1>5, <1>6 DEF DataBlocks

\* So is the address of a block of HDMI, but for its third digit,
LEMMA BlockAddress ==
    ASSUME NEW b \in DataBlocks, NEW bytes, NEW p \in Nat, Stands(bytes, p, b),
           b.kind = "hdmi"
    PROVE  \A i \in {1, 2, 4} : AddressAt(bytes, p)[i] = b.address[i]
<1>1. \A i \in 1..4 : b.address[i] \in 0..15
  BY DEF DataBlocks
<1>2. Payload(b) = <<3, 12, 0, b.address[1] * 16 + b.address[2],
                     b.address[3] * 16 + b.address[4]>>
  BY DEF Payload
<1>3. bytes[p + 4] = b.address[1] * 16 + b.address[2]
      /\ bytes[p + 5] = b.address[3] * 16 + b.address[4]
  <2>1. \A k \in 1..Len(Payload(b)) : bytes[p + k] = Payload(b)[k]
    BY BlockHeads
  <2>2. /\ Len(Payload(b)) = 5 /\ Payload(b)[4] = b.address[1] * 16 + b.address[2]
        /\ Payload(b)[5] = b.address[3] * 16 + b.address[4]
    BY <1>2
  <2>3. 4 \in 1..5 /\ 5 \in 1..5
    OBVIOUS
  <2> QED
    BY <2>1, <2>2, <2>3
<1>4. \A x, y \in 0..15 : (x * 16 + y) \div 16 = x /\ (x * 16 + y) % 16 = y
  OBVIOUS
<1>5. bytes[p + 4] \div 16 = b.address[1] /\ bytes[p + 4] % 16 = b.address[2]
      /\ bytes[p + 5] % 16 = b.address[4]
  BY <1>1, <1>3, <1>4
<1> QED
  BY <1>5 DEF AddressAt

\* the transfer functions of a block of static metadata,
LEMMA BlockEotfs ==
    ASSUME NEW b \in DataBlocks, NEW bytes, NEW p \in Nat, Stands(bytes, p, b),
           b.kind = "static"
    PROVE  HdrOf(bytes[p + 2]) \cap {"HDR10", "HLG"} = b.eotfs \cap {"HDR10", "HLG"}
<1>1. Payload(b) = <<6, EotfByte(b.eotfs), 1>>
  BY DEF Payload
<1>2. bytes[p + 2] = EotfByte(b.eotfs)
  BY <1>1, BlockHeads
<1> DEFINE v == EotfByte(b.eotfs)
<1>3. v \in 0..13
  BY DEF EotfByte
<1>4. /\ (v \div 4) % 2 = 1 <=> "HDR10" \in b.eotfs
      /\ (v \div 8) % 2 = 1 <=> "HLG" \in b.eotfs
  BY DEF EotfByte
<1> HIDE DEF v
<1>5. 2^2 = 4 /\ 2^3 = 8 /\ 2^1 = 2
  OBVIOUS
<1>6. /\ "HDR10" \in HdrOf(v) <=> Bit(v, 2)
      /\ "HLG" \in HdrOf(v) <=> Bit(v, 3)
  BY DEF HdrOf
<1>7. /\ "HDR10" \in HdrOf(v) <=> (v \div 4) % 2 = 1
      /\ "HLG" \in HdrOf(v) <=> (v \div 8) % 2 = 1
  BY <1>5, <1>6 DEF Bit, Bits
<1> QED
  BY <1>2, <1>4, <1>7 DEF v

\* Dolby Vision in a version and with a length of that version.
Fits(b) ==
    \/ b.version = 0 /\ b.length = 25
    \/ b.version = 1 /\ b.length \in {11, 14}
    \/ b.version = 2 /\ b.length >= 11

\* and whether a Dolby Vision block fits its version.
LEMMA BlockDolby ==
    ASSUME NEW b \in DataBlocks, NEW bytes, NEW p \in Nat, Stands(bytes, p, b),
           b.kind = "dolby", b.version <= 2
    PROVE  DolbyAt(bytes, p) # {} <=> Fits(b)
<1>1. /\ DolbyVersion(bytes, p) = b.version /\ Length(bytes[p]) = b.length
      /\ b.length \in 11..31 /\ b.version \in 0..7
  BY DolbyBytes
<1>2. b.length \in DolbyLengths[b.version + 1] <=> Fits(b)
  <2>1. b.version = 0 \/ b.version = 1 \/ b.version = 2
    BY <1>1
  <2>2. DolbyLengths[0 + 1] = {25} /\ DolbyLengths[1 + 1] = {11, 14} /\ DolbyLengths[2 + 1] = 11..31
    BY DEF DolbyLengths
  <2> QED
    BY <1>1, <2>1, <2>2 DEF Fits
<1>3. DolbyCapabilities(bytes, p, b.length) # {}
  <2>1. b.version < 2 => "Sink_led" \in DolbyCapabilities(bytes, p, b.length)
    BY <1>1 DEF DolbyCapabilities
  <2>2. b.version = 2 => "4K60" \in DolbyCapabilities(bytes, p, b.length)
    BY <1>1 DEF DolbyCapabilities
  <2> QED
    BY <1>1, <2>1, <2>2
<1>4. DolbyAt(bytes, p) = IF b.length \in DolbyLengths[b.version + 1]
                          THEN DolbyCapabilities(bytes, p, b.length) ELSE {}
  BY <1>1 DEF DolbyAt
<1> QED
  BY <1>2, <1>3, <1>4

-----------------------------------------------------------------------------
(* Where the blocks of an extension stand *)

LEMMA EndsOf ==
    ASSUME NEW blocks \in Seq(DataBlocks)
    PROVE  /\ Len(blocks) \in Nat
           /\ \A i \in 1..Len(blocks) : blocks[i] \in DataBlocks
           /\ Ends(blocks) \in [0..Len(blocks) -> Nat]
           /\ Ends(blocks)[0] = 4
           /\ \A i \in 1..Len(blocks) :
                /\ Ends(blocks)[i] = Ends(blocks)[i - 1] + 1 + Len(Payload(blocks[i]))
                /\ Len(Payload(blocks[i])) \in 0..31
<1> DEFINE n == Len(blocks)
           L(i) == Len(Payload(blocks[i]))
           at == Ends(blocks)
           F == [i \in 1..n |-> [x \in Nat |-> x + 1 + L(i)]]
<1>1. n \in Nat /\ blocks \in [1..n -> DataBlocks]
  BY LenProperties
<1>2. \A i \in 1..n : blocks[i] \in DataBlocks
  BY <1>1
<1>3. \A i \in 1..n : L(i) \in 0..31 /\ L(i) \in Nat
  BY <1>2, PayloadTypes DEF PayloadOK
<1>4. at = CHOOSE f : f = [i \in 0..n |-> IF i = 0 THEN 4 ELSE f[i - 1] + 1 + L(i)]
  BY DEF Ends
<1> HIDE DEF n, L, at
<1>5. F \in [1..n -> [Nat -> Nat]]
  <2>1. \A i \in 1..n : \A x \in Nat : x + 1 + L(i) \in Nat
    BY <1>3
  <2> QED
    BY <2>1
<1>6. PICK g : Runs(g, Nat, 4, n, F)
  <2> HIDE DEF F
  <2> QED
    BY <1>1, <1>5, LoopRuns
<1>7. ASSUME NEW i \in 1..n PROVE g[i] = g[i - 1] + 1 + L(i)
  <2>1. i - 1 \in 0..n
    BY <1>1
  <2>2. g[i - 1] \in Nat /\ g[i] = F[i][g[i - 1]]
    BY <1>6, <2>1 DEF Runs
  <2> QED
    BY <2>2
<1>8. g = [i \in 0..n |-> IF i = 0 THEN 4 ELSE g[i - 1] + 1 + L(i)]
  <2>1. DOMAIN g = 0..n /\ g = [i \in 0..n |-> g[i]] /\ g[0] = 4
    BY <1>6 DEF Runs
  <2>2. \A i \in 0..n : i # 0 => i \in 1..n
    BY <1>1
  <2>3. \A i \in 0..n : g[i] = IF i = 0 THEN 4 ELSE g[i - 1] + 1 + L(i)
    BY <1>7, <2>1, <2>2
  <2> QED
    BY <2>1, <2>3
<1>9. at = [i \in 0..n |-> IF i = 0 THEN 4 ELSE at[i - 1] + 1 + L(i)]
  BY <1>4, <1>8
<1>10. /\ DOMAIN at = 0..n /\ at[0] = 4
       /\ \A i \in 1..n : at[i] = at[i - 1] + 1 + L(i)
  <2>1. 0 \in 0..n /\ \A i \in 1..n : i \in 0..n /\ i # 0
    BY <1>1
  <2> QED
    BY <1>9, <2>1
<1>11. 0..n \subseteq {i \in 0..n : at[i] \in Nat}
  <2> DEFINE S == {i \in 0..n : at[i] \in Nat}
  <2>1. 0 \in S
    BY <1>1, <1>10
  <2>2. ASSUME NEW i \in 1..n, i - 1 \in S PROVE i \in S
    <3>1. i \in 0..n /\ at[i - 1] \in Nat /\ L(i) \in Nat
      BY <1>1, <1>3, <2>2
    <3>2. at[i - 1] + 1 + L(i) \in Nat
      BY <3>1
    <3> QED
      BY <1>10, <3>1, <3>2
  <2> HIDE DEF S
  <2>3. 0..n \subseteq S
    BY <1>1, <2>1, <2>2, EveryTurn
  <2> QED
    BY <2>3 DEF S
<1>12. at \in [0..n -> Nat]
  BY <1>9, <1>10, <1>11
<1> QED
  BY <1>1, <1>2, <1>3, <1>10, <1>12 DEF n, L, at

\* The ends grow, so that a byte is of one block only.
LEMMA EndsGrow ==
    ASSUME NEW blocks \in Seq(DataBlocks), NEW i \in 0..Len(blocks)
    PROVE  \A j \in 0..Len(blocks) : i <= j => Ends(blocks)[i] <= Ends(blocks)[j]
<1> DEFINE n == Len(blocks)
           at == Ends(blocks)
           S == {j \in 0..n : i <= j => at[i] <= at[j]}
<1>1. /\ n \in Nat /\ at \in [0..n -> Nat]
      /\ \A j \in 1..n : at[j] > at[j - 1]
  <2>1. /\ n \in Nat /\ at \in [0..n -> Nat]
        /\ \A j \in 1..n : at[j] = at[j - 1] + 1 + Len(Payload(blocks[j]))
                           /\ Len(Payload(blocks[j])) \in 0..31
    BY EndsOf
  <2>2. \A j \in 1..n : j - 1 \in 0..n
    BY <2>1
  <2>3. ASSUME NEW j \in 1..n PROVE at[j] > at[j - 1]
    <3> DEFINE l == Len(Payload(blocks[j]))
    <3>1. l \in 0..31 /\ at[j] = at[j - 1] + 1 + l /\ at[j - 1] \in Nat
      BY <2>1, <2>2
    <3> HIDE DEF l, at
    <3> QED
      BY <3>1
  <2> QED
    BY <2>1, <2>3
<1> HIDE DEF at, n
<1>2. i \in 0..n
  BY DEF n
<1>3. 0 \in S
  BY <1>1, <1>2
<1>4. \A j \in 1..n : j - 1 \in S => j \in S
  <2>1. \A j \in 1..n : at[j] \in Nat /\ at[j - 1] \in Nat /\ at[i] \in Nat
    BY <1>1, <1>2
  <2> QED
    BY <1>1, <1>2, <2>1
<1>5. 0..n \subseteq S
  <2> HIDE DEF S
  <2> QED
    BY <1>1, <1>3, <1>4, EveryTurn
<1> QED
  BY <1>5 DEF n, at

\* No byte is of two blocks.
LEMMA BlocksApart ==
    ASSUME NEW blocks \in Seq(DataBlocks), NEW i \in 1..Len(blocks), NEW j \in 1..Len(blocks),
           NEW p \in Nat, p \in Ends(blocks)[i - 1]..(Ends(blocks)[i] - 1),
           p \in Ends(blocks)[j - 1]..(Ends(blocks)[j] - 1)
    PROVE  i = j
<1> DEFINE n == Len(blocks)
           at == Ends(blocks)
<1>1. n \in Nat /\ \A k \in 0..n : at[k] \in Nat
  BY EndsOf
<1>2. \A k, l \in 0..n : k <= l => at[k] <= at[l]
  BY EndsGrow
<1>3. i \in 1..n /\ j \in 1..n /\ p \in at[i - 1]..(at[i] - 1) /\ p \in at[j - 1]..(at[j] - 1)
  OBVIOUS
<1> HIDE DEF n, at
<1>4. i < j => at[i] <= at[j - 1]
  BY <1>1, <1>2, <1>3
<1>5. j < i => at[j] <= at[i - 1]
  BY <1>1, <1>2, <1>3
<1>6. at[i - 1] \in Nat /\ at[j - 1] \in Nat /\ at[i] \in Nat /\ at[j] \in Nat
  BY <1>1, <1>3
<1>7. i \in Nat /\ j \in Nat
  BY <1>1, <1>3
<1>8. p \in Nat /\ at[i - 1] <= p /\ p < at[i] /\ at[j - 1] <= p /\ p < at[j]
  BY <1>3, <1>6
<1>9. ~(i < j)
  BY ONLY <1>4, <1>6, <1>8
<1>10. ~(j < i)
  BY ONLY <1>5, <1>6, <1>8
<1> QED
  BY ONLY <1>7, <1>9, <1>10

\* The bytes from base on are those of an extension with these blocks.
Extends(bytes, base, blocks, natives) ==
    \A p \in 0..127 : bytes[base + p] = ExtensionByte(blocks, natives, p)

\* All blocks end between the header of the extension and its last end.
LEMMA EndTypes ==
    ASSUME NEW blocks \in Seq(DataBlocks)
    PROVE  /\ End(blocks) \in Nat /\ End(blocks) >= 4
           /\ \A i \in 0..Len(blocks) : /\ Ends(blocks)[i] \in 4..End(blocks)
                                        /\ Ends(blocks)[i] \in Nat
<1> DEFINE n == Len(blocks)
           at == Ends(blocks)
<1>1. /\ n \in Nat /\ at \in [0..n -> Nat] /\ at[0] = 4 /\ End(blocks) = at[n]
  BY EndsOf DEF End
<1>2. \A i, j \in 0..n : i <= j => at[i] <= at[j]
  BY EndsGrow
<1> HIDE DEF n, at
<1>3. 0 \in 0..n /\ n \in 0..n /\ \A i \in 0..n : 0 <= i /\ i <= n
  BY <1>1
<1> QED
  BY <1>1, <1>2, <1>3 DEF n, at

\* Each block stands where the one before it ends.
LEMMA BlocksStand ==
    ASSUME NEW blocks \in Seq(DataBlocks), NEW natives \in 0..4, End(blocks) <= 56,
           NEW bytes, NEW base \in Nat, Extends(bytes, base, blocks, natives),
           NEW i \in 1..Len(blocks)
    PROVE  Stands(bytes, base + Ends(blocks)[i - 1], blocks[i])
<1> DEFINE begin == Ends(blocks)[i - 1]
           next == Ends(blocks)[i]
           end == End(blocks)
           l == Len(Payload(blocks[i]))
<1>1. /\ begin \in Nat /\ next \in Nat /\ begin >= 4 /\ next <= end /\ end <= 56
      /\ next = begin + 1 + l /\ l \in 0..31 /\ end \in Nat
  BY EndsOf, EndTypes
<1>2. ASSUME NEW k \in 0..l
      PROVE  bytes[(base + begin) + k] = BlockByte(blocks[i], k)
  <2> DEFINE p == begin + k
             Covers(j) == p \in Ends(blocks)[j - 1]..(Ends(blocks)[j] - 1)
  <2> HIDE DEF begin, next, end, l
  <2>1. /\ p \in Nat /\ p \in 4..(end - 1) /\ p \in 0..127 /\ p - begin = k
        /\ p \in begin..(next - 1) /\ p # 0 /\ p # 1 /\ p # 2 /\ p # 3
    BY <1>1
  <2> HIDE DEF p
  <2>2. Covers(i) /\ \A j \in 1..Len(blocks) : Covers(j) => j = i
    BY <2>1, BlocksApart DEF begin, next
  <2> DEFINE found == CHOOSE j \in 1..Len(blocks) : Covers(j)
  <2>3. found = i
    <3> HIDE DEF Covers
    <3> QED
      BY <2>2
  <2>4. ExtensionByte(blocks, natives, p) = BlockByte(blocks[i], p - begin)
    <3>1. ExtensionByte(blocks, natives, p) =
            CASE p = 0 -> 2
              [] p = 1 -> 3
              [] p = 2 -> end
              [] p = 3 -> natives
              [] p \in 4..(end - 1) -> BlockByte(blocks[found], p - Ends(blocks)[found - 1])
              [] p \in end..(end + 18 * natives - 1) -> TimingByte(2, (p - end) % 18)
              [] OTHER -> 0
      BY DEF ExtensionByte, end
    <3> HIDE DEF found
    <3>2. p \notin end..(end + 18 * natives - 1)
      BY <1>1, <2>1
    <3> QED
      BY <2>1, <2>3, <3>1, <3>2 DEF begin
  <2>5. bytes[base + p] = BlockByte(blocks[i], k)
    BY <2>1, <2>4 DEF Extends
  <2>6. (base + begin) + k = base + p
    BY <1>1 DEF p
  <2> QED
    BY <2>5, <2>6
<1> QED
  BY <1>2 DEF Stands

\* The blocks end where the timings still have room.
LEMMA EndBounds ==
    ASSUME NEW blocks \in Seq(DataBlocks), End(blocks) <= 56
    PROVE  End(blocks) \in Nat /\ End(blocks) \in 4..56
<1> DEFINE end == End(blocks)
<1>1. end \in Nat /\ end >= 4 /\ end <= 56
  BY EndTypes
<1> HIDE DEF end
<1>2. end \in 4..56
  BY ONLY <1>1
<1> QED
  BY <1>1, <1>2 DEF end

\* Beyond the blocks there are the timings, and then nothing.
LEMMA AfterBlocks ==
    ASSUME NEW blocks \in Seq(DataBlocks), NEW natives \in 0..4, End(blocks) <= 56,
           NEW p \in 0..127
    PROVE  /\ p = 0 => ExtensionByte(blocks, natives, p) = 2
           /\ p = 2 => ExtensionByte(blocks, natives, p) = End(blocks)
           /\ p = 3 => ExtensionByte(blocks, natives, p) = natives
           /\ p >= End(blocks) =>
                ExtensionByte(blocks, natives, p) =
                  IF p < End(blocks) + 18 * natives
                  THEN TimingByte(2, (p - End(blocks)) % 18) ELSE 0
<1> DEFINE found == CHOOSE j \in 1..Len(blocks) :
                     p \in Ends(blocks)[j - 1]..(Ends(blocks)[j] - 1)
           end == End(blocks)
<1>1. ExtensionByte(blocks, natives, p) =
        CASE p = 0 -> 2
          [] p = 1 -> 3
          [] p = 2 -> end
          [] p = 3 -> natives
          [] p \in 4..(end - 1) -> BlockByte(blocks[found], p - Ends(blocks)[found - 1])
          [] p \in end..(end + 18 * natives - 1) -> TimingByte(2, (p - end) % 18)
          [] OTHER -> 0
  BY DEF ExtensionByte
<1>2. end \in Nat /\ end \in 4..56
  BY EndBounds
<1> HIDE DEF found, end
<1>3. p = 0 \/ p = 2 \/ p = 3 => p # 1 /\ p < 4
  OBVIOUS
<1>4. p >= end => /\ p # 0 /\ p # 1 /\ p # 2 /\ p # 3 /\ p \notin 4..(end - 1)
                  /\ p \in end..(end + 18 * natives - 1) <=> p < end + 18 * natives
  BY <1>2
<1>5. CASE p >= end
  <2> DEFINE timing == TimingByte(2, (p - end) % 18)
  <2> HIDE DEF timing
  <2>1. ExtensionByte(blocks, natives, p) = IF p < end + 18 * natives THEN timing ELSE 0
    BY <1>1, <1>4, <1>5 DEF timing
  <2> QED
    BY <1>4, <1>5, <2>1 DEF end, timing
<1>6. CASE ~(p >= end)
  BY <1>1, <1>3, <1>6 DEF end
<1> QED
  BY <1>2, <1>5, <1>6

\* The head of an extension tells its tag, its first timing and its native timings.
LEMMA ExtensionHead ==
    ASSUME NEW blocks \in Seq(DataBlocks), NEW natives \in 0..4, End(blocks) <= 56,
           NEW bytes, NEW base \in Nat, Extends(bytes, base, blocks, natives)
    PROVE  /\ bytes[base] = AdditionalTiming /\ bytes[base + 3] = natives
           /\ bytes[base + 2] = End(blocks) /\ First(bytes, base) = base + End(blocks)
<1>1. 0 \in 0..127 /\ 2 \in 0..127 /\ 3 \in 0..127 /\ base + 0 = base
  OBVIOUS
<1>2. /\ ExtensionByte(blocks, natives, 0) = 2
      /\ ExtensionByte(blocks, natives, 2) = End(blocks)
      /\ ExtensionByte(blocks, natives, 3) = natives
  <2>1. ExtensionByte(blocks, natives, 0) = 2
    BY <1>1, AfterBlocks
  <2>2. ExtensionByte(blocks, natives, 2) = End(blocks)
    BY <1>1, AfterBlocks
  <2>3. ExtensionByte(blocks, natives, 3) = natives
    BY <1>1, AfterBlocks
  <2> QED
    BY <2>1, <2>2, <2>3
<1>3. bytes[base + 0] = 2
  BY <1>1, <1>2 DEF Extends
<1> QED
  BY <1>1, <1>2, <1>3 DEF Extends, First, AdditionalTiming

\* The timings of an extension: those that are native, and then zeroes.
LEMMA ExtensionTimings ==
    ASSUME NEW blocks \in Seq(DataBlocks), NEW natives \in 0..4, End(blocks) <= 56,
           NEW bytes, NEW base \in Nat, Extends(bytes, base, blocks, natives), NEW k \in 0..3
    PROVE  LET p == First(bytes, base) + 18 * k
           IN ~IsName(bytes, p) /\ (IsTiming(bytes, p) <=> k < natives)
<1> DEFINE end == End(blocks)
           q == end + 18 * k
           p == First(bytes, base) + 18 * k
<1>1. end \in Nat /\ end \in 4..56 /\ First(bytes, base) = base + end
  BY EndBounds, ExtensionHead
<1> HIDE DEF end
<1>2. ASSUME NEW j \in 0..3
      PROVE  bytes[p + j] = IF k < natives THEN TimingByte(2, j) ELSE 0
  <2>1. /\ q + j \in 0..127 /\ q + j >= end /\ p + j = base + (q + j)
        /\ q + j < end + 18 * natives <=> k < natives
        /\ ((q + j) - end) % 18 = j
    <3>1. (q + j) - end = 18 * k + j /\ (18 * k + j) % 18 = j
      BY <1>1
    <3> QED
      BY <1>1, <3>1
  <2> HIDE DEF p, q
  <2>2. ExtensionByte(blocks, natives, q + j) = IF k < natives THEN TimingByte(2, j) ELSE 0
    <3>1. ExtensionByte(blocks, natives, q + j) =
            IF q + j < End(blocks) + 18 * natives
            THEN TimingByte(2, ((q + j) - End(blocks)) % 18) ELSE 0
      BY <2>1, AfterBlocks DEF end
    <3> QED
      BY ONLY <2>1, <3>1 DEF end
  <2> QED
    BY <2>1, <2>2 DEF Extends
<1>3. p + 0 = p
  BY <1>1
<1> HIDE DEF p, q
<1>4. 0 \in 0..3 /\ 1 \in 0..3 /\ 3 \in 0..3
  OBVIOUS
<1>5. CASE k < natives
  <2>1. bytes[p + 0] = 2 /\ bytes[p + 1] = 58
    BY <1>2, <1>4, <1>5 DEF TimingByte
  <2> QED
    BY <1>3, <1>5, <2>1 DEF IsName, IsTiming, p
<1>6. CASE ~(k < natives)
  <2>1. bytes[p + 0] = 0 /\ bytes[p + 3] = 0
    BY <1>2, <1>4, <1>6
  <2> QED
    BY <1>3, <1>6, <2>1 DEF IsName, IsTiming, p
<1> QED
  BY <1>5, <1>6

\* All of it can be read.
LEMMA ExtensionIsBytes ==
    ASSUME NEW blocks \in Seq(DataBlocks), NEW natives \in 0..4, End(blocks) <= 56,
           NEW bytes, NEW base \in Nat, Extends(bytes, base, blocks, natives),
           NEW p \in 4..127
    PROVE  bytes[base + p] \in 0..255
<1> DEFINE n == Len(blocks)
           at == Ends(blocks)
           end == End(blocks)
<1>1. n \in Nat /\ at \in [0..n -> Nat] /\ at[0] = 4 /\ at[n] = end
  BY EndsOf DEF End
<1>2. end \in Nat /\ end \in 4..56
  BY EndBounds
<1>3. CASE p >= end
  <2> DEFINE k == (p - end) % 18
  <2>1. p \in 0..127
    OBVIOUS
  <2>2. ExtensionByte(blocks, natives, p) \in {TimingByte(2, k), 0}
    <3>1. ExtensionByte(blocks, natives, p) =
            IF p < End(blocks) + 18 * natives
            THEN TimingByte(2, (p - End(blocks)) % 18) ELSE 0
      BY <1>3, <2>1, AfterBlocks
    <3>2. CASE p < End(blocks) + 18 * natives
      BY <3>1, <3>2
    <3>3. CASE ~(p < End(blocks) + 18 * natives)
      BY <3>1, <3>3
    <3> QED
      BY <3>2, <3>3
  <2> HIDE DEF k
  <2>3. TimingByte(2, k) \in 0..255
    BY DEF TimingByte
  <2>4. ExtensionByte(blocks, natives, p) \in 0..255
    <3>1. 0 \in 0..255
      OBVIOUS
    <3> QED
      BY ONLY <2>2, <2>3, <3>1
  <2>5. bytes[base + p] = ExtensionByte(blocks, natives, p)
    BY <2>1 DEF Extends
  <2> QED
    BY ONLY <2>4, <2>5
<1>4. CASE p < end
  <2> HIDE DEF n, at, end
  <2> DEFINE Beyond == {j \in 0..n : at[j] > p}
  <2>1. n \in Beyond /\ Beyond \subseteq Nat
    BY <1>1, <1>2, <1>4
  <2>2. PICK i \in Beyond : \A j \in Beyond : i <= j
    <3> HIDE DEF Beyond
    <3> QED
      BY <2>1, Least
  <2>3. i \in 1..n /\ at[i - 1] <= p /\ at[i - 1] \in Nat /\ at[i] > p /\ at[i] \in Nat
    <3>1. i \in 0..n /\ at[i] > p /\ i # 0
      BY <1>1, <2>2
    <3>2. i \in 1..n /\ i - 1 \in 0..n /\ ~(i <= i - 1)
      BY <1>1, <3>1
    <3>3. i - 1 \notin Beyond
      BY <2>2, <3>2
    <3>4. at[i - 1] \in Nat /\ at[i] \in Nat
      BY <1>1, <3>1, <3>2
    <3> QED
      BY <3>1, <3>2, <3>3, <3>4
  <2>4. Stands(bytes, base + at[i - 1], blocks[i]) /\ blocks[i] \in DataBlocks
        /\ at[i] = at[i - 1] + 1 + Len(Payload(blocks[i])) /\ Len(Payload(blocks[i])) \in 0..31
    BY <2>3, EndsOf, BlocksStand DEF n, at
  <2>5. PICK k \in 0..Len(Payload(blocks[i])) : base + p = (base + at[i - 1]) + k
    <3> DEFINE l == Len(Payload(blocks[i]))
               k == p - at[i - 1]
    <3>1. l \in 0..31 /\ at[i] = at[i - 1] + 1 + l
      BY <2>4
    <3> HIDE DEF l
    <3>2. k \in 0..l /\ base + p = (base + at[i - 1]) + k
      <4> DEFINE begin == at[i - 1]
                 next == at[i]
      <4>1. begin \in Nat /\ next \in Nat /\ begin <= p /\ next > p /\ p \in Nat
            /\ next = begin + 1 + l
        BY <2>3, <3>1
      <4> HIDE DEF begin, next
      <4>2. p - begin \in 0..l /\ base + p = (base + begin) + (p - begin)
        BY <3>1, <4>1
      <4> QED
        BY <4>2 DEF begin
    <3> QED
      BY <3>2 DEF l
  <2>6. base + at[i - 1] \in Nat
    BY <2>3
  <2>7. \A j \in 0..Len(Payload(blocks[i])) : bytes[(base + at[i - 1]) + j] \in 0..255
    <3> DEFINE b == blocks[i]
               o == base + at[i - 1]
    <3>1. b \in DataBlocks /\ o \in Nat /\ Stands(bytes, o, b)
      BY <2>4, <2>6
    <3> HIDE DEF b, o
    <3>2. \A j \in 0..Len(Payload(b)) : bytes[o + j] \in 0..255
      BY ONLY <3>1, BlockHeads
    <3> QED
      BY <3>2 DEF b, o
  <2> QED
    BY <2>5, <2>7
<1> QED
  BY <1>2, <1>3, <1>4

\* The offsets of the blocks of an extension at base.
BlockOffsets(base, blocks) == [i \in 1..(Len(blocks) + 1) |-> base + Ends(blocks)[i - 1]]

\* The extension is one that the parser can walk: from block to block to the timings.
LEMMA ExtensionIsLaid ==
    ASSUME NEW blocks \in Seq(DataBlocks), NEW natives \in 0..4, End(blocks) <= 56,
           NEW bytes, NEW base \in Nat, Extends(bytes, base, blocks, natives), NEW names
    PROVE  /\ Laid(bytes, base, BlockOffsets(base, blocks), Len(blocks))
           /\ Sound(bytes, base, names) /\ NoName(bytes, base)
           /\ HasTiming(bytes, base) <=> natives > 0
<1> DEFINE n == Len(blocks)
           at == Ends(blocks)
           end == End(blocks)
           o == BlockOffsets(base, blocks)
<1>1. /\ bytes[base] = AdditionalTiming /\ bytes[base + 2] = end
      /\ First(bytes, base) = base + end
  BY ExtensionHead
<1>2. end \in Nat /\ end \in 4..56
  BY EndBounds
<1>3. /\ n \in Nat /\ at \in [0..n -> Nat] /\ at[0] = 4 /\ at[n] = end
      /\ \A i \in 0..n : at[i] \in Nat /\ at[i] \in 4..end
  BY EndsOf, EndTypes DEF End
<1>4. Sound(bytes, base, names)
  <2>1. \A k \in 0..3 : Named(bytes, First(bytes, base) + 18 * k, names)
    BY ExtensionTimings DEF Named
  <2>2. ASSUME NEW q \in (base + 4)..((base + end) + 32)
        PROVE  bytes[q] \in 0..255
    <3> HIDE DEF end
    <3>1. q - base \in 4..127 /\ q = base + (q - base)
      BY <1>2
    <3>2. \A p \in 4..127 : bytes[base + p] \in 0..255
      <4>1. /\ blocks \in Seq(DataBlocks) /\ natives \in 0..4 /\ End(blocks) <= 56
            /\ base \in Nat /\ Extends(bytes, base, blocks, natives)
        OBVIOUS
      <4> QED
        BY ONLY <4>1, ExtensionIsBytes
    <3> QED
      BY <3>1, <3>2
  <2>3. end \in 0..255
    <3> HIDE DEF end
    <3> QED
      BY <1>2
  <2> QED
    BY <1>1, <2>1, <2>2, <2>3 DEF Sound, AreBytes
<1>5. NoName(bytes, base)
  BY ExtensionTimings DEF NoName
<1>6. HasTiming(bytes, base) <=> natives > 0
  <2>1. \A k \in 0..3 : IsTiming(bytes, First(bytes, base) + 18 * k) <=> k < natives
    BY ExtensionTimings
  <2>2. natives > 0 <=> \E k \in 0..3 : k < natives
    OBVIOUS
  <2> QED
    BY <1>1, <2>1, <2>2 DEF HasTiming
<1>7. EndToEnd(bytes, o, n, base + 4, base + end)
  <2> HIDE DEF end, at, n
  <2>1. o = [i \in 1..(n + 1) |-> base + at[i - 1]]
    BY DEF BlockOffsets, n, at
  <2> HIDE DEF o
  <2>2. \A i \in 1..(n + 1) : i - 1 \in 0..n /\ base + at[i - 1] \in Nat
    BY <1>3
  <2>3. o \in [1..(n + 1) -> Nat] /\ \A i \in 1..(n + 1) : o[i] = base + at[i - 1]
    BY <2>1, <2>2
  <2>4. 1 \in 1..(n + 1) /\ n + 1 \in 1..(n + 1) /\ (n + 1) - 1 = n /\ 1 - 1 = 0
    BY <1>3
  <2>5. o[1] = base + 4 /\ o[n + 1] = base + end
    BY <1>3, <2>3, <2>4
  <2>6. ASSUME NEW i \in 1..n
        PROVE  o[i] \in (base + 4)..((base + end) - 1) /\ o[i + 1] = NextBlock(bytes, o[i])
    <3> DEFINE begin == at[i - 1]
               next == at[i]
               l == Len(Payload(blocks[i]))
    <3>1. i \in 1..(n + 1) /\ i + 1 \in 1..(n + 1) /\ (i + 1) - 1 = i
      BY <1>3
    <3>2. o[i] = base + begin /\ o[i + 1] = base + next
      BY <2>3, <3>1
    <3>3. i \in 0..n /\ i - 1 \in 0..n
      BY <1>3
    <3>4. /\ begin \in Nat /\ begin \in 4..end /\ next \in Nat /\ next \in 4..end
      BY <1>3, <3>3
    <3>5. next = begin + 1 + l /\ l \in 0..31 /\ blocks[i] \in DataBlocks
      BY EndsOf DEF n, at
    <3>6. Stands(bytes, base + begin, blocks[i])
      BY BlocksStand DEF n, at
    <3> HIDE DEF begin, next
    <3>7. base + begin \in Nat
      BY <3>4
    <3>8. Length(bytes[base + begin]) = l
      BY <3>5, <3>6, <3>7, BlockHeads
    <3> HIDE DEF l
    <3>9. /\ base + begin \in (base + 4)..((base + end) - 1)
          /\ base + next = (base + begin) + 1 + l
      BY <1>2, <3>4, <3>5
    <3> QED
      BY <3>2, <3>8, <3>9 DEF NextBlock
  <2> QED
    BY <1>3, <2>3, <2>5, <2>6 DEF EndToEnd
<1> QED
  BY <1>1, <1>4, <1>5, <1>6, <1>7 DEF Laid

-----------------------------------------------------------------------------
(* The EDID of a display *)

LEMMA DisplayTypes ==
    ASSUME NEW d, DisplayOK(d)
    PROVE  /\ Len(d.exts) \in Nat /\ Len(d.exts) \in 0..30 /\ DOMAIN d.exts = 1..Len(d.exts)
           /\ Maps(d) \in Nat /\ Maps(d) \in 0..1 /\ EdidLength(d) \in Nat
           /\ EdidLength(d) = 128 * (1 + Len(d.exts) + Maps(d))
           /\ \A e \in 1..Len(d.exts) : d.exts[e] \in Seq(DataBlocks) /\ End(d.exts[e]) <= 56
<1> DEFINE n == Len(d.exts)
<1>1. /\ n \in Nat /\ DOMAIN d.exts = 1..n /\ d.exts \in [1..n -> Seq(DataBlocks)]
      /\ n <= 30
  BY LenProperties DEF DisplayOK
<1>2. \A e \in 1..n : d.exts[e] \in Seq(DataBlocks) /\ End(d.exts[e]) <= 56
  BY <1>1 DEF DisplayOK
<1>3. EdidLength(d) = 128 * (1 + n + Maps(d))
  BY DEF EdidLength
<1> HIDE DEF n
<1>4. n \in 0..30
  BY <1>1
<1>5. Maps(d) \in Nat /\ Maps(d) \in 0..1
  BY DEF Maps
<1>6. EdidLength(d) \in Nat
  BY <1>1, <1>3, <1>5
<1> QED
  BY <1>1, <1>2, <1>3, <1>4, <1>5, <1>6 DEF n

\* A byte of the EDID is one of the base block, of the map or of an extension.
LEMMA EdidByte ==
    ASSUME NEW d, DisplayOK(d), NEW block \in 0..(Len(d.exts) + Maps(d)), NEW k \in 0..127
    PROVE  EdidBytes(d)[128 * block + k] =
             CASE block = 0 -> BaseByte(d, k)
               [] block = 1 /\ d.map # "none" -> IF k = 0 THEN 240 ELSE 0
               [] OTHER -> ExtensionByte(d.exts[block - Maps(d)], d.natives, k)
<1> DEFINE n == Len(d.exts)
           p == 128 * block + k
<1>1. /\ n \in Nat /\ Maps(d) \in Nat /\ EdidLength(d) = 128 * (1 + n + Maps(d))
  BY DisplayTypes
<1> HIDE DEF n
<1>2. block \in 0..(n + Maps(d))
  BY DEF n
<1>3. p \in 0..(EdidLength(d) - 1) /\ p \div 128 = block /\ p % 128 = k
  <2> DEFINE m == n + Maps(d)
  <2>1. m \in Nat /\ EdidLength(d) = 128 * (1 + m)
    BY <1>1
  <2> HIDE DEF m
  <2>2. block \in Nat /\ block <= m
    BY <1>2, <2>1 DEF m
  <2>3. p \in 0..(128 * (1 + m) - 1)
    BY ONLY <2>1, <2>2, k \in 0..127
  <2>4. p \div 128 = block /\ p % 128 = k
    BY ONLY <2>2, k \in 0..127
  <2> QED
    BY <2>1, <2>3, <2>4
<1> HIDE DEF p
<1>4. EdidBytes(d)[p] =
             CASE block = 0 -> BaseByte(d, k)
               [] block = 1 /\ d.map # "none" -> IF k = 0 THEN 240 ELSE 0
               [] OTHER -> ExtensionByte(d.exts[block - Maps(d)], d.natives, k)
  BY <1>3 DEF EdidBytes
<1> QED
  BY <1>4 DEF p

\* Each extension is in the EDID, after the map if there is one.
LEMMA ExtensionsStand ==
    ASSUME NEW d, DisplayOK(d), NEW e \in 1..Len(d.exts)
    PROVE  Extends(EdidBytes(d), 128 * (e + Maps(d)), d.exts[e], d.natives)
<1> DEFINE n == Len(d.exts)
           block == e + Maps(d)
<1>1. n \in Nat /\ Maps(d) \in Nat
  BY DisplayTypes
<1>2. /\ block \in 0..(n + Maps(d)) /\ block # 0 /\ block - Maps(d) = e
      /\ ~(block = 1 /\ d.map # "none")
  <2>1. e \in Nat /\ e >= 1 /\ e <= n
    BY <1>1
  <2>2. d.map # "none" => Maps(d) = 1
    BY DEF Maps
  <2> HIDE DEF n
  <2> QED
    BY <1>1, <2>1, <2>2
<1>3. ASSUME NEW k \in 0..127
      PROVE  EdidBytes(d)[128 * block + k] = ExtensionByte(d.exts[e], d.natives, k)
  <2> HIDE DEF block
  <2> QED
    BY <1>2, EdidByte DEF n
<1> QED
  BY <1>3 DEF Extends

\* The first 128 bytes are the base block,
LEMMA BaseBytes ==
    ASSUME NEW d, DisplayOK(d), NEW k \in 0..127
    PROVE  EdidBytes(d)[k] = BaseByte(d, k)
<1>1. 0 \in 0..(Len(d.exts) + Maps(d))
  BY DisplayTypes
<1>2. ASSUME NEW block \in 0..(Len(d.exts) + Maps(d)), block = 0
      PROVE  EdidBytes(d)[128 * block + k] = BaseByte(d, k)
  <2>1. EdidBytes(d)[128 * block + k] =
          CASE block = 0 -> BaseByte(d, k)
            [] block = 1 /\ d.map # "none" -> IF k = 0 THEN 240 ELSE 0
            [] OTHER -> ExtensionByte(d.exts[block - Maps(d)], d.natives, k)
    BY EdidByte
  <2> QED
    BY ONLY <1>2, <2>1
<1>3. 128 * 0 + k = k
  OBVIOUS
<1> QED
  BY <1>1, <1>2, <1>3

\* the next 128 the map if there is one.
LEMMA MapByte ==
    ASSUME NEW d, DisplayOK(d), d.map # "none"
    PROVE  EdidBytes(d)[128] = ExtensionTagBlockMap
<1>1. 1 \in 0..(Len(d.exts) + Maps(d)) /\ 0 \in 0..127
  <2>1. Len(d.exts) \in Nat /\ Maps(d) = 1
    BY DisplayTypes DEF Maps
  <2> QED
    BY <2>1
<1>2. ASSUME NEW block \in 0..(Len(d.exts) + Maps(d)), NEW k \in 0..127, block = 1, k = 0
      PROVE  EdidBytes(d)[128 * block + k] = 240
  <2>1. EdidBytes(d)[128 * block + k] =
          CASE block = 0 -> BaseByte(d, k)
            [] block = 1 /\ d.map # "none" -> IF k = 0 THEN 240 ELSE 0
            [] OTHER -> ExtensionByte(d.exts[block - Maps(d)], d.natives, k)
    BY EdidByte
  <2> QED
    BY <1>2, <2>1
<1>3. 128 * 1 + 0 = 128
  OBVIOUS
<1> QED
  BY <1>1, <1>2, <1>3 DEF ExtensionTagBlockMap

\* The four descriptors of the base block.
LEMMA DescriptorByte ==
    ASSUME NEW d, DisplayOK(d), NEW i \in 1..4, NEW k \in 0..17
    PROVE  EdidBytes(d)[36 + 18 * i + k] =
             CASE i = 1 -> TimingByte(IF d.odd THEN 0 ELSE 2, k)
               [] i = d.place /\ d.name > 0 -> NameByte(d.name, k)
               [] OTHER -> RangeByte(k)
<1> DEFINE p == 36 + 18 * i + k
<1>1. p \in 0..127 /\ p \notin 1..6 /\ p # 126 /\ p \in 54..125
  OBVIOUS
<1>2. ((p - 54) \div 18) + 1 = i /\ (p - 54) % 18 = k
  OBVIOUS
<1> HIDE DEF p
<1>3. EdidBytes(d)[p] = BaseByte(d, p)
  BY <1>1, BaseBytes
<1>4. BaseByte(d, p) =
        CASE i = 1 -> TimingByte(IF d.odd THEN 0 ELSE 2, k)
          [] i = d.place /\ d.name > 0 -> NameByte(d.name, k)
          [] OTHER -> RangeByte(k)
  BY <1>1, <1>2 DEF BaseByte
<1> QED
  BY <1>3, <1>4 DEF p

\* The header, and the number of extensions.
LEMMA BaseHeader ==
    ASSUME NEW d, DisplayOK(d)
    PROVE  /\ EDID_Verify(EdidBytes(d), EdidLength(d))
           /\ EdidBytes(d)[126] = Flag(d) /\ Flag(d) \in 0..31
<1> DEFINE bytes == EdidBytes(d)
<1>1. \A k \in 0..127 : bytes[k] = BaseByte(d, k)
  BY BaseBytes
<1>2. EdidLength(d) >= 128
  <2>1. Len(d.exts) \in Nat /\ Maps(d) \in Nat /\ EdidLength(d) = 128 * (1 + Len(d.exts) + Maps(d))
    BY DisplayTypes
  <2> QED
    BY <2>1
<1>3. ASSUME NEW i \in 1..8 PROVE bytes[i - 1] = Header[i]
  <2>1. i - 1 \in 0..127 /\ i - 1 # 126 /\ i - 1 \notin 54..125
        /\ i - 1 \in 1..6 <=> i \in 2..7
    OBVIOUS
  <2>2. BaseByte(d, i - 1) = IF i \in 2..7 THEN 255 ELSE 0
    BY <2>1 DEF BaseByte
  <2>3. Header[i] = IF i \in 2..7 THEN 255 ELSE 0
    BY DEF Header
  <2> QED
    BY <1>1, <2>1, <2>2, <2>3
<1>4. bytes[126] = Flag(d)
  <2>1. BaseByte(d, 126) = Flag(d)
    BY DEF BaseByte
  <2> QED
    BY <1>1, <2>1
<1>5. Flag(d) \in 0..31
  <2> DEFINE n == Len(d.exts)
  <2>1. n \in 0..30 /\ Flag(d) = n + (IF d.map = "counted" THEN 1 ELSE 0)
    BY DisplayTypes DEF Flag
  <2> HIDE DEF n
  <2> QED
    BY <2>1
<1> QED
  BY <1>2, <1>3, <1>4, <1>5 DEF EDID_Verify

\* The first descriptor is a timing, if its clock can be read; one of the others is the
\* name, if there is one.
LEMMA BaseDescriptors ==
    ASSUME NEW d, DisplayOK(d)
    PROVE  /\ IsTiming(EdidBytes(d), 54) <=> ~d.odd
           /\ ~IsName(EdidBytes(d), 54)
           /\ \A i \in 2..4 : IsName(EdidBytes(d), 36 + 18 * i) <=> i = d.place /\ d.name > 0
<1> DEFINE bytes == EdidBytes(d)
<1>0. d.place \in 2..4 /\ d.name \in 0..13
  BY DEF DisplayOK
<1> DEFINE clock == IF d.odd THEN 0 ELSE 2
<1> HIDE DEF clock
<1>1. bytes[36 + 18 * 1 + 0] = clock /\ bytes[36 + 18 * 1 + 1] = 58
  <2>1. 1 \in 1..4 /\ 0 \in 0..17 /\ 1 \in 0..17
    OBVIOUS
  <2>2. \A i \in 1..4 : \A k \in 0..17 :
          i = 1 => bytes[36 + 18 * i + k] = TimingByte(clock, k)
    BY <1>0, DescriptorByte DEF clock
  <2>3. TimingByte(clock, 0) = clock /\ TimingByte(clock, 1) = 58
    BY DEF TimingByte
  <2> QED
    BY <2>1, <2>2, <2>3
<1>2. bytes[54] = clock /\ bytes[54 + 1] = 58
  <2>1. 36 + 18 * 1 + 0 = 54 /\ 36 + 18 * 1 + 1 = 54 + 1
    OBVIOUS
  <2> QED
    BY <1>1, <2>1
<1>3. ASSUME NEW i \in 2..4
      PROVE  IsName(bytes, 36 + 18 * i) <=> i = d.place /\ d.name > 0
  <2> DEFINE p == 36 + 18 * i
  <2>1. i \in 1..4 /\ i # 1
    OBVIOUS
  <2>2. \A k \in 0..17 : bytes[p + k] = IF i = d.place /\ d.name > 0 THEN NameByte(d.name, k)
                                                                  ELSE RangeByte(k)
    BY <2>1, DescriptorByte
  <2>3. p + 0 = p
    OBVIOUS
  <2> HIDE DEF p
  <2>4. CASE i = d.place /\ d.name > 0
    <3>1. /\ NameByte(d.name, 0) = 0 /\ NameByte(d.name, 1) = 0
          /\ NameByte(d.name, 2) = 0 /\ NameByte(d.name, 3) = 252
      BY <1>0 DEF NameByte
    <3>2. \A k \in 0..3 : k \in 0..17 /\ bytes[p + k] = NameByte(d.name, k)
      BY <2>2, <2>4
    <3>3. bytes[p + 0] = 0 /\ bytes[p + 1] = 0 /\ bytes[p + 2] = 0 /\ bytes[p + 3] = 252
      BY <3>1, <3>2
    <3> QED
      BY <2>3, <2>4, <3>3 DEF IsName, p
  <2>5. CASE ~(i = d.place /\ d.name > 0)
    <3>1. bytes[p + 3] = 253
      BY <2>2, <2>5 DEF RangeByte
    <3> QED
      BY <2>5, <3>1 DEF IsName, p
  <2> QED
    BY <2>4, <2>5
<1>4. IsTiming(bytes, 54) <=> ~d.odd
  BY <1>2 DEF IsTiming, clock
<1>5. ~IsName(bytes, 54)
  BY <1>2 DEF IsName
<1> QED
  BY <1>3, <1>4, <1>5

\* The name ends where the display ends it, even one that fills its descriptor.
LEMMA NameIsFound ==
    ASSUME NEW d, DisplayOK(d), d.name > 0
    PROVE  MonitorName(EdidBytes(d), 36 + 18 * d.place) = d.name
<1> DEFINE bytes == EdidBytes(d)
           p == 36 + 18 * d.place
           S == {k \in 0..14 : k = 14 \/ bytes[p + 5 + k] \notin Printable}
<1>1. d.name \in 1..13 /\ d.place \in 2..4
  BY DEF DisplayOK
<1>2. \A k \in 0..17 : bytes[p + k] = NameByte(d.name, k)
  <2>1. d.place \in 1..4 /\ d.place # 1
    BY <1>1
  <2> QED
    BY <2>1, DescriptorByte
<1>3. ASSUME NEW k \in 0..14, k < d.name
      PROVE  bytes[p + 5 + k] \in Printable
  <2> DEFINE j == 5 + k
  <2>1. /\ j \in 0..17 /\ j \in 5..(4 + d.name) /\ j \notin {0, 1, 2, 4} /\ j # 3
        /\ p + j = p + 5 + k
    BY <1>1, <1>3
  <2> HIDE DEF j
  <2>2. NameByte(d.name, j) = 65
    BY <1>1, <2>1 DEF NameByte
  <2>3. bytes[p + j] = 65 /\ p + j = p + 5 + k
    BY <1>2, <2>1, <2>2
  <2> QED
    BY <2>3 DEF Printable
<1>4. bytes[p + 5 + d.name] \notin Printable
  <2>1. CASE d.name < 13
    <3>1. /\ 5 + d.name \in 0..17 /\ 5 + d.name \notin 5..(4 + d.name)
          /\ 5 + d.name \notin {0, 1, 2, 3, 4}
      BY <1>1, <2>1
    <3>2. NameByte(d.name, 5 + d.name) = 10
      BY <3>1 DEF NameByte
    <3>3. bytes[p + (5 + d.name)] = 10 /\ p + (5 + d.name) = p + 5 + d.name
      BY <1>1, <1>2, <3>1, <3>2
    <3> QED
      BY <3>3 DEF Printable
  <2>2. CASE d.name = 13 /\ d.place = 4
    <3>1. p + 5 + d.name = 126
      BY <2>2
    <3> QED
      BY <3>1, BaseHeader DEF Printable
  <2>3. CASE d.name = 13 /\ d.place # 4
    <3> DEFINE i == d.place + 1
    <3>1. i \in 1..4 /\ i # 1 /\ i # d.place /\ p + 5 + d.name = 36 + 18 * i + 0
      BY <1>1, <2>3
    <3> HIDE DEF i
    <3>2. 0 \in 0..17
      OBVIOUS
    <3>3. \A k \in 0..17 : bytes[36 + 18 * i + k] = RangeByte(k)
      BY <3>1, DescriptorByte
    <3>4. bytes[36 + 18 * i + 0] = 0
      BY <3>2, <3>3 DEF RangeByte
    <3> QED
      BY <3>1, <3>4 DEF Printable
  <2> QED
    BY <1>1, <2>1, <2>2, <2>3
<1>5. d.name \in S /\ \A k \in S : d.name <= k
  <2>1. d.name \in 0..14
    BY <1>1
  <2> QED
    BY <1>1, <1>3, <1>4, <2>1
<1>6. \A x \in S : (\A k \in S : x <= k) => x = d.name
  <2>1. \A x \in S : x \in Nat
    OBVIOUS
  <2> HIDE DEF S
  <2> QED
    BY <1>1, <1>5, <2>1
<1> HIDE DEF S
<1>7. Min(S) = d.name
  BY <1>5, <1>6 DEF Min
<1> QED
  BY <1>7 DEF S, MonitorName

\* The flag counts the extensions, and the map or not.
LEMMA DisplayCounts ==
    ASSUME NEW d, DisplayOK(d)
    PROVE  /\ Flag(d) \in Nat
           /\ Present(Flag(d), EdidLength(d)) = Len(d.exts) + Maps(d)
           /\ Flag(d) = 0 => Len(d.exts) = 0
           /\ EdidLength(d) >= 128 * (1 + Flag(d))
<1> DEFINE n == Len(d.exts)
           c == IF d.map = "counted" THEN 1 ELSE 0
<1>1. n \in Nat /\ EdidLength(d) = 128 * (1 + n + Maps(d))
  BY DisplayTypes
<1>2. Flag(d) = n + c
  BY DEF Flag
<1>3. \/ Maps(d) = 0 /\ c = 0
      \/ Maps(d) = 1 /\ c = 1
      \/ Maps(d) = 1 /\ c = 0
  BY DEF Maps, DisplayOK
<1> DEFINE m == Maps(d)
           flag == Flag(d)
           length == EdidLength(d)
<1>4. /\ n \in Nat /\ length = 128 * (1 + n + m) /\ flag = n + c
      /\ (m = 0 /\ c = 0) \/ (m = 1 /\ c = 1) \/ (m = 1 /\ c = 0)
  BY <1>1, <1>2, <1>3
<1> HIDE DEF n, c, m, flag, length
<1>5. flag \in Nat /\ (flag = 0 => n = 0) /\ length >= 128 * (1 + flag)
  BY ONLY <1>4
<1>6. Present(flag, length) = n + m
  BY ONLY <1>4 DEF Present
<1> QED
  BY <1>5, <1>6 DEF n, m, flag, length
=============================================================================
