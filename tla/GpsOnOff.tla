------------------------------ MODULE GpsOnOff ------------------------------
(***************************************************************************)
(* GPSOnOffSwitcher (src/src/mags-logger/gps_on_off_switcher.{h,cpp}): the  *)
(* ground station's GPS ON / GPS OFF requests.                              *)
(*                                                                          *)
(* Two threads share the switcher's fields without a lock.                  *)
(*   main    requestGpsOn/Off and the MAVLink handlers (main.cpp's loop);   *)
(*   logger  loop(), called on every turn of MagsLogger::loop.              *)
(* Each thread has a program counter; a step is one access to a shared      *)
(* field, split where the other thread could tell (the load and the store   *)
(* of a counter, the read of a value and its use); a register goes back to  *)
(* its initial value when its last use is over.  With Preempt FALSE a       *)
(* handler and a turn of the loop run to their end once started.            *)
(***************************************************************************)
EXTENDS Retry

CONSTANTS
  RepeatCount,     \* GPS_ON_OFF_REPEAT_COUNT: tries of the parameter
  SrcRepeatCount,  \* GPS_ON_OFF_SRC_REPEAT_COUNT: repeats of the aux function
  Timeout,         \* GPS_ON_OFF_REPEAT_TIMEOUT, in ticks
  MaxRequests,     \* bound: requests of the ground station
  Preempt          \* may a thread run while the other is inside a handler?

ASSUME RetryAssumption ==
  /\ RepeatCount \in Nat \ {0}
  /\ SrcRepeatCount \in Nat \ {0}
  /\ Timeout \in Nat \ {0}
  /\ MaxRequests \in Nat
  /\ Preempt \in BOOLEAN

Kinds == {"ON", "OFF"}
InProgress == {"ON_IN_PROGRESS", "OFF_IN_PROGRESS"}
Failures == {"ON_FAILED", "OFF_FAILED"}
Successes == {"ON_SUCCESS", "OFF_SUCCESS"}
Results == {"NA"} \cup InProgress \cup Failures \cup Successes
EkfSets == {-1, 1, 2, 3}   \* -1 unknown, EK3_SRC_GPS, EK3_SRC_NO_GPS, another

\* GpsRequestResult values of a request of kind k.
Started(k) == IF k = "ON" THEN "ON_IN_PROGRESS" ELSE "OFF_IN_PROGRESS"
Failed(k) == IF k = "ON" THEN "ON_FAILED" ELSE "OFF_FAILED"
Succeeded(k) == IF k = "ON" THEN "ON_SUCCESS" ELSE "OFF_SUCCESS"
\* AHRS_GPS_USE, and the EKF source set, that a request of kind k asks for.
ParamOf(k) == IF k = "ON" THEN 1 ELSE 0
SourceOf(k) == IF k = "ON" THEN 1 ELSE 2

VARIABLES
  type,        \* gpsRequestedType
  result,      \* gpsRequestResult
  ekf,         \* currentEkfSourceSet
  setter,      \* gpsOnOff_AHRS_GPS_USE_Setter
  trigger,     \* gpsOnOff_EK3_SOURCE_SET_Trigger
  planeReady,  \* mavlinkProvider->isPlaneReady()
  main,        \* the main thread: where it is, its arguments and registers
  logger,      \* the logger thread, likewise
  tally        \* history since the latest request, read by no action

vars == <<type, result, ekf, setter, trigger, planeReady, main, logger, tally>>

RequestPcs == {"Result", "Value", "SendTime", "Count", "Unconfirm", "Send",
               "Stamp", "Store", "ArmCount", "ArmTime", "Aux"}
MainPcs == {"idle", "Match"} \cup RequestPcs
LoggerPcs == {"idle", "Setter", "Load", "Send", "Stamp", "Store", "Trigger",
              "Fire", "Kind", "Aux", "SetterDone", "TriggerDone", "Verdict",
              "Write", "Clear"}

Setters == [value: {0, 1}, age: 0..Timeout, left: 0..RepeatCount, confirmed: BOOLEAN]
Triggers == [age: 0..Timeout, left: 0..SrcRepeatCount]
Mains == [pc: MainPcs, kind: Kinds, set: EkfSets, left: 0..RepeatCount]
Loggers == [pc: LoggerPcs, kind: Kinds, value: {0, 1}, left: 0..RepeatCount,
            shots: 0..SrcRepeatCount, verdict: Results]
Tallies == [requests: 0..MaxRequests, tries: Nat, aux: Nat, kind: Kinds,
            lastSet: {-1, 0, 1}, lastAux: Kinds \cup {"NONE"},
            matched: BOOLEAN, overlap: BOOLEAN]

TypeOK ==
  /\ type \in Kinds \cup {"NONE"}
  /\ result \in Results
  /\ ekf \in EkfSets
  /\ setter \in Setters
  /\ trigger \in Triggers
  /\ planeReady \in BOOLEAN
  /\ main \in Mains
  /\ logger \in Loggers
  /\ tally \in Tallies

Init ==
  /\ type = "NONE"
  /\ result = "NA"
  /\ ekf = -1
  /\ setter = [value |-> 0, age |-> Timeout, left |-> 0, confirmed |-> TRUE]
  /\ trigger = [age |-> Timeout, left |-> 0]
  /\ planeReady = FALSE
  /\ main = [pc |-> "idle", kind |-> "ON", set |-> -1, left |-> 0]
  /\ logger = [pc |-> "idle", kind |-> "ON", value |-> 0, left |-> 0,
               shots |-> 0, verdict |-> "NA"]
  /\ tally = [requests |-> 0, tries |-> 0, aux |-> 0, kind |-> "ON",
              lastSet |-> -1, lastAux |-> "NONE", matched |-> FALSE,
              overlap |-> FALSE]

(***************************************************************************)
(* What both threads do.                                                    *)
(***************************************************************************)
MainAt(pc) == main.pc = pc /\ (Preempt \/ logger.pc = "idle")
LoggerAt(pc) == logger.pc = pc /\ (Preempt \/ main.pc = "idle")

\* sendParamSet: queued only when the plane is known.
Sent(t, value) ==
  [t EXCEPT !.tries = @ + 1, !.lastSet = IF planeReady THEN value ELSE @]

\* doGpsOn, doGpsOff: the aux function that selects the EKF source.
Switched(t, kind) ==
  [t EXCEPT !.aux = @ + 1, !.lastAux = IF planeReady THEN kind ELSE @]

(***************************************************************************)
(* The main thread: requestGpsOn and requestGpsOff, statement by statement. *)
(***************************************************************************)
Request(k) ==
  /\ MainAt("idle")
  /\ tally.requests < MaxRequests
  /\ type' = k
  /\ main' = [main EXCEPT !.pc = "Result", !.kind = k]
  /\ tally' = [tally EXCEPT !.requests = @ + 1, !.tries = 0, !.aux = 0,
                            !.kind = k, !.matched = FALSE,
                            !.overlap = logger.pc # "idle"]
  /\ UNCHANGED <<result, ekf, setter, trigger, planeReady, logger>>

SetInProgress ==
  /\ MainAt("Result")
  /\ result' = Started(main.kind)
  /\ main' = [main EXCEPT !.pc = "Value"]
  /\ UNCHANGED <<type, ekf, setter, trigger, planeReady, logger, tally>>

\* ParamSetter::setParam, one field after the other.
\* Fault: the old value is kept.
SetParamValueKept ==
  /\ MainAt("Value")
  /\ main' = [main EXCEPT !.pc = "SendTime"]
  /\ UNCHANGED <<type, result, ekf, setter, trigger, planeReady, logger, tally>>
SetParamValue ==
  /\ MainAt("Value")
  /\ setter' = [setter EXCEPT !.value = ParamOf(main.kind)]
  /\ main' = [main EXCEPT !.pc = "SendTime"]
  /\ UNCHANGED <<type, result, ekf, trigger, planeReady, logger, tally>>

SetParamSendTime ==
  /\ MainAt("SendTime")
  /\ setter' = [setter EXCEPT !.age = Timeout]
  /\ main' = [main EXCEPT !.pc = "Count"]
  /\ UNCHANGED <<type, result, ekf, trigger, planeReady, logger, tally>>

SetParamCount ==
  /\ MainAt("Count")
  /\ setter' = [setter EXCEPT !.left = RepeatCount]
  /\ main' = [main EXCEPT !.pc = "Unconfirm"]
  /\ UNCHANGED <<type, result, ekf, trigger, planeReady, logger, tally>>

SetParamUnconfirm ==
  /\ MainAt("Unconfirm")
  /\ setter' = [setter EXCEPT !.confirmed = FALSE]
  /\ main' = [main EXCEPT !.pc = "Send"]
  /\ UNCHANGED <<type, result, ekf, trigger, planeReady, logger, tally>>

\* ParamSetter::doNow.  Only this thread writes the value, so reading and
\* sending it is one step; the count is loaded and stored in two.
RequestSend ==
  /\ MainAt("Send")
  /\ tally' = Sent(tally, setter.value)
  /\ main' = [main EXCEPT !.pc = "Stamp"]
  /\ UNCHANGED <<type, result, ekf, setter, trigger, planeReady, logger>>

RequestStamp ==
  /\ MainAt("Stamp")
  /\ setter' = [setter EXCEPT !.age = 0]
  /\ main' = [main EXCEPT !.pc = "Store", !.left = setter.left]
  /\ UNCHANGED <<type, result, ekf, trigger, planeReady, logger, tally>>

\* No store happens when the loaded count is not positive.
RequestStore ==
  /\ MainAt("Store")
  /\ setter' = [setter EXCEPT !.left = Stored(@, main.left)]
  /\ main' = [main EXCEPT !.pc = "ArmCount", !.left = 0]
  /\ UNCHANGED <<type, result, ekf, trigger, planeReady, logger, tally>>

\* TimeTrigger::start stores the count before the time.
ArmTriggerCount ==
  /\ MainAt("ArmCount")
  /\ trigger' = [trigger EXCEPT !.left = SrcRepeatCount]
  /\ main' = [main EXCEPT !.pc = "ArmTime"]
  /\ UNCHANGED <<type, result, ekf, setter, planeReady, logger, tally>>

ArmTriggerTime ==
  /\ MainAt("ArmTime")
  /\ trigger' = [trigger EXCEPT !.age = 0]
  /\ main' = [main EXCEPT !.pc = "Aux"]
  /\ UNCHANGED <<type, result, ekf, setter, planeReady, logger, tally>>

RequestAux ==
  /\ MainAt("Aux")
  /\ tally' = Switched(tally, main.kind)
  /\ main' = [main EXCEPT !.pc = "idle", !.kind = "ON"]
  /\ UNCHANGED <<type, result, ekf, setter, trigger, planeReady, logger>>

(***************************************************************************)
(* The main thread: the handlers of the plane's messages.                   *)
(***************************************************************************)
\* PARAM_VALUE of AHRS_GPS_USE.  The logger thread writes only the count of
\* what is read here, and a command it has just finished is not confirmed or
\* is confirmed with the same outcome: one step.
ParamValueReceived(v) ==
  /\ MainAt("idle")
  /\ setter' = Answered(setter, v)
  /\ UNCHANGED <<type, result, ekf, trigger, planeReady, main, logger, tally>>

\* STATUSTEXT "Using EKF Source Set n": onEkfSourceSetDetected.
EkfSourceSetDetected(n) ==
  /\ MainAt("idle")
  /\ ekf' = n
  /\ main' = [main EXCEPT !.pc = "Match", !.set = n]
  /\ UNCHANGED <<type, result, setter, trigger, planeReady, logger, tally>>

EkfSourceSetMatched ==
  /\ MainAt("Match")
  /\ main' = [main EXCEPT !.pc = "idle", !.set = -1]
  /\ IF type # "NONE" /\ main.set = SourceOf(type)
     THEN /\ trigger' = [trigger EXCEPT !.left = 0]
          /\ tally' = [tally EXCEPT !.matched = TRUE]
     ELSE UNCHANGED <<trigger, tally>>
  /\ UNCHANGED <<type, result, ekf, setter, planeReady, logger>>

\* HEARTBEAT of the plane: MavlinkProvider takes its ids, and keeps them.
PlaneDetected ==
  /\ MainAt("idle")
  /\ ~planeReady
  /\ planeReady' = TRUE
  /\ UNCHANGED <<type, result, ekf, setter, trigger, main, logger, tally>>

(***************************************************************************)
(* The logger thread: one turn of loop().                                   *)
(***************************************************************************)
LoopStarts ==
  /\ LoggerAt("idle")
  /\ type # "NONE"
  /\ logger' = [logger EXCEPT !.pc = "Setter"]
  /\ tally' = [tally EXCEPT !.overlap = @ \/ main.pc \in RequestPcs]
  /\ UNCHANGED <<type, result, ekf, setter, trigger, planeReady, main>>

\* ParamSetter::loop
LoopSetter ==
  /\ LoggerAt("Setter")
  /\ logger' = [logger EXCEPT !.pc = IF IsDue(setter, Timeout) THEN "Load" ELSE "Trigger"]
  /\ UNCHANGED <<type, result, ekf, setter, trigger, planeReady, main, tally>>

\* doNow: this thread does not write the value, so it can go stale in its hands.
LoopLoad ==
  /\ LoggerAt("Load")
  /\ logger' = [logger EXCEPT !.pc = "Send", !.value = setter.value]
  /\ UNCHANGED <<type, result, ekf, setter, trigger, planeReady, main, tally>>

LoopSend ==
  /\ LoggerAt("Send")
  /\ tally' = Sent(tally, logger.value)
  /\ logger' = [logger EXCEPT !.pc = "Stamp", !.value = 0]
  /\ UNCHANGED <<type, result, ekf, setter, trigger, planeReady, main>>

LoopStamp ==
  /\ LoggerAt("Stamp")
  /\ setter' = [setter EXCEPT !.age = 0]
  /\ logger' = [logger EXCEPT !.pc = "Store", !.left = setter.left]
  /\ UNCHANGED <<type, result, ekf, trigger, planeReady, main, tally>>

LoopStore ==
  /\ LoggerAt("Store")
  /\ setter' = [setter EXCEPT !.left = Stored(@, logger.left)]
  /\ logger' = [logger EXCEPT !.pc = "Trigger", !.left = 0]
  /\ UNCHANGED <<type, result, ekf, trigger, planeReady, main, tally>>

\* TimeTrigger::isFired loads the count once.
LoopTrigger ==
  /\ LoggerAt("Trigger")
  /\ logger' = IF IsFired(trigger, Timeout)
               THEN [logger EXCEPT !.pc = "Fire", !.shots = trigger.left]
               ELSE [logger EXCEPT !.pc = "SetterDone"]
  /\ UNCHANGED <<type, result, ekf, setter, trigger, planeReady, main, tally>>

LoopFire ==
  /\ LoggerAt("Fire")
  /\ trigger' = [age |-> 0, left |-> Stored(trigger.left, logger.shots)]
  /\ logger' = [logger EXCEPT !.pc = "Kind", !.shots = 0]
  /\ UNCHANGED <<type, result, ekf, setter, planeReady, main, tally>>

LoopKind ==
  /\ LoggerAt("Kind")
  /\ logger' = [logger EXCEPT !.pc = "Aux", !.kind = type]
  /\ UNCHANGED <<type, result, ekf, setter, trigger, planeReady, main, tally>>

LoopAux ==
  /\ LoggerAt("Aux")
  /\ tally' = Switched(tally, logger.kind)
  /\ logger' = [logger EXCEPT !.pc = "SetterDone", !.kind = "ON"]
  /\ UNCHANGED <<type, result, ekf, setter, trigger, planeReady, main>>

\* The verdict is due once the setter and then the trigger are found finished.
LoopSetterDone ==
  /\ LoggerAt("SetterDone")
  /\ logger' = [logger EXCEPT !.pc = IF IsFinished(setter) THEN "TriggerDone" ELSE "idle"]
  /\ UNCHANGED <<type, result, ekf, setter, trigger, planeReady, main, tally>>

\* Fault: the trigger is not asked.
LoopTriggerSkipped ==
  /\ LoggerAt("TriggerDone")
  /\ logger' = [logger EXCEPT !.pc = "Verdict"]
  /\ UNCHANGED <<type, result, ekf, setter, trigger, planeReady, main, tally>>
\* Fault: no verdict without the plane's report.
LoopTriggerAwaited ==
  /\ LoggerAt("TriggerDone")
  /\ logger' = [logger EXCEPT !.pc = IF ekf = SourceOf(type) THEN "Verdict" ELSE "idle"]
  /\ UNCHANGED <<type, result, ekf, setter, trigger, planeReady, main, tally>>
LoopTriggerDone ==
  /\ LoggerAt("TriggerDone")
  /\ logger' = [logger EXCEPT !.pc = IF trigger.left = 0 THEN "Verdict" ELSE "idle"]
  /\ UNCHANGED <<type, result, ekf, setter, trigger, planeReady, main, tally>>

\* isEkfSourceGps, isEkfSourceNoGps; the build reads the type once, so the
\* code's third outcome (neither ON nor OFF) is never taken.
LoopVerdict ==
  /\ LoggerAt("Verdict")
  /\ logger' = [logger EXCEPT !.pc = "Write",
                  !.verdict = IF ekf = SourceOf(type) THEN Succeeded(type) ELSE Failed(type)]
  /\ UNCHANGED <<type, result, ekf, setter, trigger, planeReady, main, tally>>

\* Fault: the request ends without its verdict.
LoopWriteMissed ==
  /\ LoggerAt("Write")
  /\ logger' = [logger EXCEPT !.pc = "Clear", !.verdict = "NA"]
  /\ UNCHANGED <<type, result, ekf, setter, trigger, planeReady, main, tally>>
LoopWrite ==
  /\ LoggerAt("Write")
  /\ result' = logger.verdict
  /\ logger' = [logger EXCEPT !.pc = "Clear", !.verdict = "NA"]
  /\ UNCHANGED <<type, ekf, setter, trigger, planeReady, main, tally>>

LoopClear ==
  /\ LoggerAt("Clear")
  /\ type' = "NONE"
  /\ logger' = [logger EXCEPT !.pc = "idle"]
  /\ UNCHANGED <<result, ekf, setter, trigger, planeReady, main, tally>>

\* Time passes for the two stamps.
Tick ==
  /\ setter.age < Timeout \/ trigger.age < Timeout
  /\ setter' = [setter EXCEPT !.age = Aged(@, Timeout)]
  /\ trigger' = [trigger EXCEPT !.age = Aged(@, Timeout)]
  /\ UNCHANGED <<type, result, ekf, planeReady, main, logger, tally>>

\* A handler that has begun, and the plane's messages.
Handler ==
  \/ SetInProgress \/ SetParamValue \/ SetParamSendTime \/ SetParamCount
  \/ SetParamUnconfirm \/ RequestSend \/ RequestStamp \/ RequestStore
  \/ ArmTriggerCount \/ ArmTriggerTime \/ RequestAux \/ EkfSourceSetMatched

Arrival ==
  \/ \E k \in Kinds : Request(k)
  \/ \E v \in {0, 1} : ParamValueReceived(v)
  \/ \E n \in {1, 2, 3} : EkfSourceSetDetected(n)
  \/ PlaneDetected

Loop ==
  \/ LoopStarts \/ LoopSetter \/ LoopLoad \/ LoopSend \/ LoopStamp \/ LoopStore
  \/ LoopTrigger \/ LoopFire \/ LoopKind \/ LoopAux
  \/ LoopSetterDone \/ LoopTriggerDone \/ LoopVerdict \/ LoopWrite \/ LoopClear

Next == Handler \/ Arrival \/ Loop \/ Tick

Spec == Init /\ [][Next]_vars

\* Both threads keep running and the clock advances; nothing is owed by the
\* ground station or by the plane.  A flood of messages on the main thread does
\* not stop the logger thread, hence its strong fairness when Preempt is FALSE.
FairSpec == Spec /\ WF_vars(Handler) /\ SF_vars(Loop) /\ WF_vars(Tick)

-----------------------------------------------------------------------------
AtRest == main.pc = "idle" /\ logger.pc = "idle"
Undisturbed == ~tally.overlap

\* No turn of the loop goes on without a request, so the verdict's third
\* outcome (UNDEFINED | FAILED) is never given and every switch has a direction.
TurnHasRequest == logger.pc # "idle" => type # "NONE"

\* A request whose handler met no turn of the loop half way is never
\* forgotten: "in progress" is reported only while the loop still works on it.
NotForgotten ==
  Undisturbed /\ main.pc \notin RequestPcs /\ type = "NONE" => result \notin InProgress

\* AHRS_GPS_USE is tried at most RepeatCount times for such a request.
RetryBudget == Undisturbed => tally.tries <= RepeatCount

\* A request fails only after every try of the parameter or its confirmation,
\* and after the repeats of the aux function or the plane's own report.
NoEarlyFailure ==
  Undisturbed /\ AtRest /\ type = "NONE" /\ result \in Failures =>
    /\ setter.confirmed \/ tally.tries = RepeatCount
    /\ tally.matched \/ tally.aux = 1 + SrcRepeatCount

\* The latest request wins: the last PARAM_SET and the last aux function queued,
\* if any, carry its kind, and so does the verdict that is shown.
LatestRequestWins ==
  Undisturbed /\ AtRest /\ tally.requests > 0 =>
    /\ tally.lastSet \in {-1, ParamOf(tally.kind)}
    /\ tally.lastAux \in {"NONE", tally.kind}
    /\ result \in {Started(tally.kind), Failed(tally.kind), Succeeded(tally.kind)}

\* The abstract specification: a request counts when its result is stored, which is the
\* second statement of the handler.
Promise == INSTANCE GpsRequest WITH
  shown <- result,
  requests <- tally.requests - IF main.pc = "Result" THEN 1 ELSE 0
=============================================================================
