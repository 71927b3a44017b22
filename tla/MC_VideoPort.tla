---------------------------- MODULE MC_VideoPort ----------------------------
(* Client profiles for the runs of VideoPort. *)
EXTENDS VideoPort, TLC

Of(op, args) == [op : {op}, arg : args]

\* Switches the port on and off, and sets and clears the callback.
OnAndOff ==
    Of("init", {TRUE}) \cup Of("term", {TRUE}) \cup Of("register", BOOLEAN)
        \cup Of("get", {TRUE})

\* As OnAndOff, but the callback stays registered.
Listener == OnAndOff \ Of("register", {FALSE})

\* Switches the port on and off, listens to it, enables and disables it, while
\* other threads ask for its handle.
Switching == Listener \cup Of("enable", BOOLEAN)

\* One thread at a time switches the port or changes the callback.
OneManager == {"init", "term", "register"} \X {"init", "term", "register"}

\* As OneManager, and one thread enables the port, never while it is initialised.
OneSwitch == OneManager \cup ({"enable"} \X {"enable", "init"})

\* One mode for each status that dsGetHDCPStatus makes of it with a cable and without.
ThreeModes ==
    {NoHdcp, [version |-> "14", succeed |-> TRUE], [version |-> "22", succeed |-> FALSE]}
Symmetry == Permutations(Callers) \cup Permutations(Refreshers)
=============================================================================
