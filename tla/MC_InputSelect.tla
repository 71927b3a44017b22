--------------------------- MODULE MC_InputSelect ---------------------------
(* Client profiles and symmetry for the runs of InputSelect. *)
EXTENDS InputSelect, TLC

CONSTANTS H1, A1

Select(ports) == [op : {"select"}, arg : ports]
InitCall(kinds) == [op : {"init"}, arg : kinds]
TermCall(kinds) == [op : {"term"}, arg : kinds]
StatusCall(kinds) == [op : {"getStatus"}, arg : kinds]
RegisterCall(names) == [op : {"register"}, arg : names]

\* Both modules are used and never terminated.
BothInputs ==
    InitCall(Kinds) \cup Select({H1, A1, NoSource})
        \cup RegisterCall({"status", "connectAv"})

\* Everything a client of the HDMI module can do.
HdmiEverything ==
    InitCall({"hdmi"}) \cup TermCall({"hdmi"}) \cup StatusCall({"hdmi"})
        \cup Select({H1, NoSource}) \cup RegisterCall({"status"})

SwitcherSymmetry == Permutations(Switchers)
=============================================================================
