----------------------------- MODULE TvSelector -----------------------------
(***************************************************************************)
(* What selecting an input promises, without threads, mutexes or status    *)
(* blocks: there is one TV path, a source must be off before another one   *)
(* is started, and an unplugged source keeps its selection so that it      *)
(* resumes when its cable is back.                                         *)
(***************************************************************************)
CONSTANTS Sources, NoSource

VARIABLES selected, running

vars == <<selected, running>>

Init == selected = NoSource /\ running = {}

\* A source is started on an idle path and becomes the selected one.
Choose(s) == running = {} /\ running' = {s} /\ selected' = s

\* The selected source is started again, or was still running.
Resume == selected \in Sources /\ running' = {selected} /\ UNCHANGED selected

\* The selected source is stopped and stays selected.
Pause == running' = {} /\ UNCHANGED selected

\* The selected source is given up; a source that is running is never given up.
Release == running = {} /\ selected' = NoSource /\ UNCHANGED running

Next == (\E s \in Sources : Choose(s)) \/ Resume \/ Pause \/ Release

Spec == Init /\ [][Next]_vars
=============================================================================
