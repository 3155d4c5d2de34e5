----------------------------- MODULE GpsRequest -----------------------------
(***************************************************************************)
(* What GPSOnOffSwitcher promises the ground station, through the request   *)
(* result of the status word (src/src/mags-logger/mags_dispatcher.cpp:215): *)
(* a request is shown in progress at once, is answered in its own name, may *)
(* be superseded by a later one, and the last one does get its answer.      *)
(***************************************************************************)
EXTENDS Integers

CONSTANT MaxRequests   \* bound: requests of the ground station

VARIABLES shown,       \* getGpsRequestResult()
          requests     \* how many were made
vars == <<shown, requests>>

Kinds == {"ON", "OFF"}
Started(k) == IF k = "ON" THEN "ON_IN_PROGRESS" ELSE "OFF_IN_PROGRESS"
Verdicts(k) == IF k = "ON" THEN {"ON_SUCCESS", "ON_FAILED"} ELSE {"OFF_SUCCESS", "OFF_FAILED"}

Init == shown = "NA" /\ requests = 0

Request(k) ==
  /\ requests < MaxRequests
  /\ requests' = requests + 1
  /\ shown' = Started(k)

Answer(k) ==
  /\ shown = Started(k)
  /\ shown' \in Verdicts(k)
  /\ UNCHANGED requests

Next == \E k \in Kinds : Request(k) \/ Answer(k)

Spec == Init /\ [][Next]_vars /\ WF_vars(\E k \in Kinds : Answer(k))
=============================================================================
