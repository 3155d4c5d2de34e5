----------------------------- MODULE MCGpsOnOff -----------------------------
(***************************************************************************)
(* GpsOnOff for TLC.                                                        *)
(***************************************************************************)
EXTENDS GpsOnOff

\* When no handler is cut by a turn of the loop, GPSOnOffSwitcher keeps its
\* promise: each request is shown, and answered unless a later one replaces it.
PromiseKept == Promise!Spec
=============================================================================
