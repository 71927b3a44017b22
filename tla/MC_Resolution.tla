--------------------------- MODULE MC_Resolution ---------------------------
(* Displays and the client for the run of Resolution. *)
EXTENDS Resolution, TLC

Set(ms) == [op : {"set"}, res : ms]
Ask(ops) == [op : ops, res : {Dark}]

p720 == Mode("720", "p", 60)
p1080 == Mode("1080", "p", 60)
p1080at24 == Mode("1080", "p", 24)
i1080at50 == Mode("1080", "i", 50)
i1080 == Mode("1080", "i", 60)
p2160 == Mode("2160", "p", 60)
p2160at30 == Mode("2160", "p", 30)
i480 == Mode("480", "i", 60)
i576 == Mode("576", "i", 50)
p4096 == Mode("smpte", "p", 60)

\* A full-HD display, an ultra-HD one, and an old one.
AllSinks ==
    {{p720, p1080, p1080at24, i1080}, {p1080, p2160, p2160at30, p4096},
     {i480, i576, i1080at50}}

\* Interlaced at 25 Hz is in no table; 4096x2160 is no size of the table.
EveryCall ==
    Set({p1080, i1080, Mode("1080", "i", 25), p4096})
        \cup [op : {"setrate"}, res : {p2160}]
        \cup Ask({"get", "getrate", "edid", "tv"})
        \cup [op : {"tv"}, res : {Mode("2160", "p", 30)}]

Symmetry == Permutations(Callers)
=============================================================================
