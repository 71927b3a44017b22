--------------------------- MODULE MC_AudioParams ---------------------------
(* Client profiles for the runs of AudioParams. *)
EXTENDS AudioParams

On(op, ps, vals) == [op : {op}, port : ps, val : vals]

\* The parameters of MS12, with values out of range and ports that do not have
\* them; the delays of two ports; the stereo modes; the encodings of both digital
\* ports; ports that come and go.
Client ==
    UNION {On(op, {"speaker"}, {0, 1}) : op \in {"surround", "mi"}}
        \cup On("virtualizer", {"speaker"}, {1}) \cup On("bass", {"speaker"}, {0, 2})
        \cup On("drc", {"hdmi"}, {0, 1, 2})
        \cup On("graphicEq", {"speaker", "hdmi"}, {1})
        \cup On("leveller", {"speaker"}, {0, 2, 11})
        \cup On("le", {"speaker"}, {0, 1}) \cup On("atmos", {"hdmi"}, {1})
        \cup On("delay", {"spdif", "speaker"}, {1, 2}) \cup On("delayOffset", {"spdif"}, {3})
        \cup On("stereo", {"hdmi"}, {1, 2}) \cup On("stereo", {"spdif"}, {3})
        \cup On("encoding", {"hdmi", "spdif"}, {1, 2, 3})
        \cup On("init", {"hdmi"}, {0}) \cup On("term", {"hdmi"}, {0})
=============================================================================
