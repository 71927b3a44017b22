--------------------------- MODULE PortReadiness ---------------------------
(***************************************************************************)
(* The video port as CHECK_DRM_INITIALIZE sees it: drmInitialized, and     *)
(* whether an initialisation holds initLock.  VideoPort implements this    *)
(* specification; DisplayHotplug, whose thread runs CHECK_DRM_INITIALIZE,  *)
(* is composed with it.                                                    *)
(***************************************************************************)

VARIABLES
    busy,             \* initLock is held by dsVideoPortInit
    drmInitialized

vars == <<busy, drmInitialized>>

Init == busy = FALSE /\ drmInitialized = FALSE

\* dsVideoPortInit takes initLock, unless the port is initialised.
Begin ==
    /\ ~busy /\ ~drmInitialized
    /\ busy' = TRUE
    /\ UNCHANGED drmInitialized

\* It succeeds.  If it fails this step never comes: initLock is not released.
Publish ==
    /\ busy
    /\ busy' = FALSE
    /\ drmInitialized' = TRUE

\* dsVideoPortTerm.
Clear ==
    /\ drmInitialized
    /\ drmInitialized' = FALSE
    /\ UNCHANGED busy

Next == Begin \/ Publish \/ Clear

Spec == Init /\ [][Next]_vars
=============================================================================
