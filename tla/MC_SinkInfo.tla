---------------------------- MODULE MC_SinkInfo ----------------------------
(* Displays for the run of SinkInfo. *)
EXTENDS SinkInfo

Display(name, exts, map) ==
    [name |-> name, place |-> 3, odd |-> FALSE, natives |-> 1, exts |-> exts, map |-> map]

\* Every order of up to three different blocks.
Usual == {Static({"HDR10", "HLG"}), Dolby(2, 11), Hdr10Plus, Hdmi(<<1, 2, 0, 4>>),
          Forum, Audio, Colorimetry(192)}
Orders == {s \in UNION {[1..n -> Usual] : n \in 0..3} : IsInjective(s)}
Ordered == {Display(5, <<s>>, "none") : s \in Orders}

\* Dolby Vision in every version and length, right and wrong.
DolbyDisplays ==
    {Display(5, <<<<Static({"SDR", "HLG"}), Dolby(v, n)>>>>, "none") :
       v \in 0..3, n \in {11, 12, 14, 25}}

\* Names, and where they stand.
Named == {[Display(n, <<<<Hdmi(<<3, 0, 0, 15>>)>>>>, "none") EXCEPT !.place = p] :
            n \in {0, 1, 12, 13}, p \in 2..4}

\* Video blocks with native codes and without, before the rows that the table leaves
\* out, after them and beyond the table, and two blocks.
CodeLists ==
    UNION {[1..n -> {4, 14, 131, 144}] : n \in 0..2} \cup {<<118, 16>>, <<108>>, <<192, 16>>}
VideoDisplays ==
    {[Display(5, <<<<Audio, Video(c)>>>>, "none") EXCEPT !.natives = n, !.odd = o] :
       c \in CodeLists, n \in 0..1, o \in BOOLEAN}
    \cup {[Display(5, <<<<Video(<<4>>), Video(c)>>>>, "none") EXCEPT !.natives = n] :
       c \in CodeLists, n \in 0..1}

\* No extension, two of them, with a map counted or not, or without.
Extended ==
    {[Display(5, exts, m) EXCEPT !.odd = o] :
       exts \in {<<>>, <<<<Audio, Dolby(2, 11)>>, <<Static({"HDR10"}), Hdmi(<<2, 1, 0, 0>>)>>>>,
                 <<<<Video(<<4>>)>>, <<Video(<<131>>), Dolby(1, 14)>>>>},
       m \in {"none", "counted", "uncounted"}, o \in BOOLEAN}

Two == {Display(13, <<<<Static({"HDR10"}), Hdmi(<<1, 0, 0, 0>>)>>>>, "none"),
        Display(4, <<>>, "none")}
AllDisplays == Two \cup Ordered \cup DolbyDisplays \cup Named \cup VideoDisplays \cup Extended

SomeOutputs ==
    {[hdr |-> "SDR", color |-> "RGB"], [hdr |-> "HLG", color |-> "YCbCr420"],
     [hdr |-> "HDR10", color |-> "YCbCr422"], [hdr |-> "HDR10Plus", color |-> "YCbCr422"],
     [hdr |-> "DolbyVision", color |-> "YCbCr444"], [hdr |-> "SDR", color |-> "other"]}
=============================================================================
