----------------------------- MODULE GpsSource -----------------------------
(***************************************************************************)
(* GpsSourceSwitcher (src/src/mags-logger/gps_source_switcher.{h,cpp}): the *)
(* ground station's choice of the autopilot's GPS, made with the parameters *)
(* GPS_AUTO_SWITCH and GPS_PRIMARY, and the read-back it is shown from.     *)
(*                                                                          *)
(* The main thread runs the requests and handles PARAM_VALUE, the logger    *)
(* thread runs loop(); neither takes a lock.  A step is one call of a       *)
(* setter or one access to requestedSource (GpsOnOff splits the setter's    *)
(* own accesses).  The autopilot and the link are modelled from how the     *)
(* program uses them: a PARAM_SET or a PARAM_REQUEST_READ that is heard is  *)
(* answered by one PARAM_VALUE, either may be lost, and answers are late    *)
(* but in order.                                                            *)
(***************************************************************************)
EXTENDS Retry, Sequences

CONSTANTS
  RepeatCount,    \* GPS_SOURCE_REPEAT_COUNT
  Timeout,        \* GPS_SOURCE_REPEAT_TIMEOUT, in ticks
  RefreshPeriod,  \* GPS_SOURCE_REFRESH_PERIOD, in ticks
  MaxEvents,      \* bound: requests of the ground station and changes that somebody else
                  \* makes on the autopilot, together
  MaxAnswers,     \* bound: answers on their way
  Recorded        \* whether the history of a request is kept, for the properties that read it

ASSUME GpsSourceAssumption ==
  /\ RepeatCount \in Nat \ {0} /\ Timeout \in Nat \ {0} /\ RefreshPeriod \in Nat \ {0}
  /\ MaxEvents \in Nat /\ MaxAnswers \in Nat \ {0}
  /\ Recorded \in BOOLEAN

Params == {"AUTO", "PRIMARY"}   \* GPS_AUTO_SWITCH, GPS_PRIMARY
Sources == {"FC", "EXTERNAL"}
Values == {0, 1}                \* GPS_AUTO_SWITCH: 0 use primary, 1 another mode
Unknown == -1

\* The value a switch to s asks for.
Wanted(p, s) == IF p = "AUTO" THEN 0 ELSE IF s = "FC" THEN 0 ELSE 1

VARIABLES
  requested,   \* requestedSource
  setter,      \* gpsAutoSwitchSetter and gpsPrimarySetter
  reported,    \* reportedAutoSwitch and reportedPrimary
  refreshAge,  \* refreshTrigger, which never runs out
  rawInt,      \* gpsRawIntRequested
  planeReady,  \* mavlinkProvider->isPlaneReady()
  main,        \* the main thread: the parameter the handler is at, its source
  logger,      \* the logger thread: where its turn of loop() is
  plane,       \* the autopilot's parameters
  answers,     \* PARAM_VALUEs on their way
  tally        \* history of the latest request, of which actions read the counts, for
               \* their bound, alone; cut: given up

vars == <<requested, setter, reported, refreshAge, rawInt, planeReady, main,
          logger, plane, answers, tally>>

\* What the ground station and somebody else have done, which the bound counts.
Events == tally.requests + tally.changes
LoggerPcs == {"idle", "AUTO", "PRIMARY", "Done", "Clear"}
Messages == [param: Params, value: Values, old: BOOLEAN]

TypeOK ==
  /\ requested \in Sources \cup {"NONE"}
  /\ setter \in [Params -> [value: Values, age: 0..Timeout, left: 0..RepeatCount, confirmed: BOOLEAN]]
  /\ reported \in [Params -> Values \cup {Unknown}]
  /\ refreshAge \in 0..RefreshPeriod
  /\ rawInt \in BOOLEAN /\ planeReady \in BOOLEAN
  /\ main \in [pc: Params \cup {"idle"}, source: Sources]
  /\ logger \in LoggerPcs
  /\ plane \in [Params -> Values]
  /\ answers \in Seq(Messages) /\ Len(answers) <= MaxAnswers
  /\ tally \in [requests: 0..MaxEvents, changes: 0..MaxEvents, source: Sources,
                cut: BOOLEAN, tries: [Params -> 0..RepeatCount + 1],
                held: [Params -> BOOLEAN], stale: BOOLEAN]

Init ==
  /\ requested = "NONE"
  /\ setter = [p \in Params |-> [value |-> 0, age |-> Timeout, left |-> 0, confirmed |-> TRUE]]
  /\ reported = [p \in Params |-> Unknown]
  /\ refreshAge = 0 /\ rawInt = FALSE /\ planeReady = FALSE
  /\ main = [pc |-> "idle", source |-> "FC"] /\ logger = "idle"
  /\ plane \in [Params -> Values]
  /\ answers = <<>>
  /\ tally = [requests |-> 0, changes |-> 0, source |-> "FC", cut |-> ~Recorded,
              tries |-> [p \in Params |-> 0], held |-> [p \in Params |-> FALSE], stale |-> FALSE]

(***************************************************************************)
(* The link to the autopilot.                                               *)
(***************************************************************************)
Answer(p, values) == [param |-> p, value |-> values[p], old |-> FALSE]

\* An answer is sent, or lost; one that finds the link full is lost.
Answering(queue, p, values) ==
  {queue} \cup IF Len(queue) < MaxAnswers THEN {Append(queue, Answer(p, values))} ELSE {}

\* sendParamSet and sendParamRequest of one doNow, when the plane is known.
Told(p, value) ==
  \/ /\ planeReady
     /\ plane' = [plane EXCEPT ![p] = value]
     /\ answers' \in Answering(answers, p, plane')
  \/ /\ planeReady                       \* the PARAM_SET was lost
     /\ answers' \in Answering(answers, p, plane)
     /\ UNCHANGED plane
  \/ ~planeReady /\ UNCHANGED <<plane, answers>>

\* What doNow adds to the history.
Tallied(t, p) ==
  IF t.cut THEN t
  ELSE [t EXCEPT !.tries[p] = IF @ <= RepeatCount THEN @ + 1 ELSE @,
                 !.held[p] = @ \/ plane'[p] = Wanted(p, t.source)]

(***************************************************************************)
(* The main thread.                                                         *)
(***************************************************************************)
\* A request made while a turn of the loop is half way is not followed.
Followed == Recorded /\ logger = "idle"

\* requestGpsFc, requestGpsExternal
Request(s) ==
  /\ main.pc = "idle"
  /\ Events < MaxEvents
  /\ requested' = s
  /\ main' = [pc |-> "AUTO", source |-> s]
  /\ answers' = [i \in DOMAIN answers |-> [answers[i] EXCEPT !.old = Followed]]
  /\ tally' = [tally EXCEPT !.requests = @ + 1, !.cut = ~Followed,
                            !.source = IF Followed THEN s ELSE @, !.tries = [p \in Params |-> 0],
                            !.held = [p \in Params |-> Followed /\ plane[p] = Wanted(p, s)],
                            !.stale = FALSE]
  /\ UNCHANGED <<setter, reported, refreshAge, rawInt, planeReady, logger, plane>>

\* setParam and doNow of requestGpsSource, for one parameter.
Armed(p) == [value |-> Wanted(p, main.source), age |-> 0, left |-> RepeatCount - 1,
             confirmed |-> FALSE]

SetParam(p) ==
  /\ main.pc = p
  /\ setter' = [setter EXCEPT ![p] = Armed(p)]
  /\ Told(p, Wanted(p, main.source))
  /\ tally' = Tallied(tally, p)
  /\ main' = IF p = "AUTO" THEN [main EXCEPT !.pc = "PRIMARY"] ELSE [pc |-> "idle", source |-> "FC"]
  /\ UNCHANGED <<requested, reported, refreshAge, rawInt, planeReady, logger>>

\* onMessageReceived and onParamValue: both setters look at the answer first.
ParamValueReceived ==
  /\ main.pc = "idle"
  /\ answers # <<>>
  /\ LET a == Head(answers) IN
       /\ setter' = [setter EXCEPT ![a.param] = Answered(@, a.value)]
       /\ reported' = [reported EXCEPT ![a.param] = a.value]
       /\ tally' = [tally EXCEPT !.stale = @ \/ (~tally.cut /\ a.old /\ setter' # setter)]
  /\ answers' = Tail(answers)
  /\ UNCHANGED <<requested, refreshAge, rawInt, planeReady, main, logger, plane>>

\* HEARTBEAT of the plane.
PlaneDetected ==
  /\ main.pc = "idle" /\ ~planeReady
  /\ planeReady' = TRUE
  /\ UNCHANGED <<requested, setter, reported, refreshAge, rawInt, main, logger, plane, answers, tally>>

(***************************************************************************)
(* The logger thread: one turn of loop().                                   *)
(***************************************************************************)
\* Fault: the parameters are read back for a request only.
RefreshOnRequest == IsTimeout(refreshAge, RefreshPeriod) /\ requested # "NONE"
\* refreshTrigger.isFired()
RefreshDue == IsTimeout(refreshAge, RefreshPeriod)

\* The turn goes on only for a request (isFinished).
TurnBegins ==
  /\ logger = "idle"
  /\ logger' = IF requested = "NONE" THEN "idle" ELSE "AUTO"
  /\ tally' = [tally EXCEPT !.cut = @ \/ (requested # "NONE" /\ main.pc # "idle")]
  /\ UNCHANGED <<requested, setter, reported, rawInt, planeReady, main, plane>>

LoopStarts ==
  /\ ~RefreshDue \/ ~planeReady
  /\ requested # "NONE" \/ RefreshDue
  /\ refreshAge' = IF RefreshDue THEN 0 ELSE refreshAge
  /\ UNCHANGED answers
  /\ TurnBegins

\* The read-back: GPS_PRIMARY is asked for before GPS_AUTO_SWITCH.
LoopRefreshes ==
  /\ RefreshDue /\ planeReady
  /\ refreshAge' = 0
  /\ \E q \in Answering(answers, "PRIMARY", plane) : answers' \in Answering(q, "AUTO", plane)
  /\ TurnBegins

\* ParamSetter::loop of one setter.
SetterTurn(p) ==
  /\ logger = p
  /\ logger' = IF p = "AUTO" THEN "PRIMARY" ELSE "Done"
  /\ IF IsDue(setter[p], Timeout)
     THEN /\ setter' = [setter EXCEPT ![p].age = 0, ![p].left = Stored(@, @)]
          /\ Told(p, setter[p].value)
          /\ tally' = Tallied(tally, p)
     ELSE UNCHANGED <<setter, plane, answers, tally>>
  /\ UNCHANGED <<requested, reported, refreshAge, rawInt, planeReady, main>>

\* Fault: the primary's setter is not asked.
AutoFinished == IsFinished(setter["AUTO"])
\* Fault: a request that was not confirmed is never given up.
SettersConfirmed == \A p \in Params : setter[p].confirmed
\* Both setters are finished.
SettersFinished == \A p \in Params : IsFinished(setter[p])

\* GPS_RAW_INT is asked for once, at the end of the first turn that gets there.
TurnEnds == logger' = "idle" /\ rawInt' = (rawInt \/ planeReady)

LoopDone ==
  /\ logger = "Done"
  /\ IF SettersFinished THEN logger' = "Clear" /\ UNCHANGED rawInt ELSE TurnEnds
  /\ UNCHANGED <<requested, setter, reported, refreshAge, planeReady, main, plane, answers, tally>>

LoopClear ==
  /\ logger = "Clear"
  /\ requested' = "NONE"
  /\ TurnEnds
  /\ UNCHANGED <<setter, reported, refreshAge, planeReady, main, plane, answers, tally>>

(***************************************************************************)
(* Time, and others who set the autopilot's parameters.                     *)
(***************************************************************************)
\* Nobody reads the stamp of a finished setter again.
Tick ==
  /\ refreshAge' = Aged(refreshAge, RefreshPeriod)
  /\ setter' = [p \in Params |->
       IF IsFinished(setter[p]) THEN setter[p] ELSE [setter[p] EXCEPT !.age = Aged(@, Timeout)]]
  /\ <<refreshAge, setter>>' # <<refreshAge, setter>>
  /\ UNCHANGED <<requested, reported, rawInt, planeReady, main, logger, plane, answers, tally>>

ChangedOutside(p) ==
  /\ Events < MaxEvents
  /\ plane' = [plane EXCEPT ![p] = 1 - @]
  /\ tally' = [tally EXCEPT !.changes = @ + 1,
                            !.held[p] = @ \/ (~tally.cut /\ plane'[p] = Wanted(p, tally.source))]
  /\ UNCHANGED <<requested, setter, reported, refreshAge, rawInt, planeReady, main, logger, answers>>

Main == (\E p \in Params : SetParam(p)) \/ ParamValueReceived
Loop == LoopStarts \/ LoopRefreshes \/ (\E p \in Params : SetterTurn(p))
        \/ LoopDone \/ LoopClear

Next ==
  \/ Main \/ Loop \/ Tick \/ PlaneDetected
  \/ \E s \in Sources : Request(s)
  \/ \E p \in Params : ChangedOutside(p)

Spec == Init /\ [][Next]_vars

\* Both threads run and time passes; the plane is found; of the read-backs made
\* over and over, some have their first question answered and some the second.
PrimaryAnswered ==
  LoopRefreshes /\ Len(answers') > Len(answers) /\ answers'[Len(answers) + 1].param = "PRIMARY"
AutoAnswered ==
  LoopRefreshes /\ Len(answers') > Len(answers) /\ answers'[Len(answers')].param = "AUTO"
FairSpec ==
  /\ Spec
  /\ WF_vars(Main) /\ WF_vars(Loop) /\ WF_vars(Tick) /\ WF_vars(PlaneDetected)
  /\ SF_vars(PrimaryAnswered) /\ SF_vars(AutoAnswered)

-----------------------------------------------------------------------------
AtRest == main.pc = "idle" /\ logger = "idle"
Asked == tally.requests > 0 /\ ~tally.cut

\* A request whose handler met no turn of the loop half way ends only when each
\* of its two parameters was confirmed or tried RepeatCount times, so a lost
\* message never ends it early.
AskedToTheEnd ==
  Asked /\ AtRest /\ requested = "NONE" =>
    \A p \in Params : setter[p].confirmed \/ tally.tries[p] = RepeatCount

\* A confirmation that is not owed to an answer from before the request means
\* that the autopilot has held the value since the request was made.
ConfirmedWasHeld ==
  Asked /\ main.pc = "idle" /\ ~tally.stale =>
    \A p \in Params : setter[p].confirmed => tally.held[p]

\* "the reported primary stays accurate even if it is changed from outside this
\* companion" (gps_source_switcher.cpp:83): what is shown comes back to what the
\* autopilot has, again and again, after every change and every lost message.
ReportStaysAccurate == []<>(reported = plane)

\* A request comes to its end, confirmed or given up.
RequestsEnd == requested # "NONE" ~> requested = "NONE"
=============================================================================
