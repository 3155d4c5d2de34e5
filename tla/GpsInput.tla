------------------------------ MODULE GpsInput ------------------------------
(***************************************************************************)
(* GpsInputTask (src/src/mags-logger/gps_input_task.{h,cpp}): the NMEA      *)
(* sentences of the companion computer's GPS receiver become GPS_INPUT      *)
(* frames, sent on a timer while the last GGA is fresh, each stamped with   *)
(* the fix's GPS time moved on by the time that has passed since.           *)
(*                                                                          *)
(* Every time stamp of the code is the wall clock (TimeUtils::getTime calls *)
(* gettimeofday), which the model keeps apart from true time: wall = now +  *)
(* offset.  True GPS time is `now` itself; a tick stands for one epoch of   *)
(* the receiver, and a day has Day ticks.  The rest of the payload, among   *)
(* it a position that is kept over a GGA without one, goes from the         *)
(* sentences to the frames as it is and is left out.                        *)
(*                                                                          *)
(* The task is one thread, which sleeps between the turns of loop().  A     *)
(* turn handles the sentences that have come and injects if it is time; if  *)
(* they are more than one read takes, it stands for the turns that read     *)
(* them, one poll after the other, any of which may inject.  It takes no    *)
(* time.  On a line that is not open a turn only tries to open it, and the  *)
(* sleep is longer, whether that succeeded or not; on one newly opened it   *)
(* takes the time to configure the receiver first.                          *)
(***************************************************************************)
EXTENDS Integers, Sequences

CONSTANTS
  Day,         \* ticks in a day
  Stale,       \* GPS_INPUT_STALE_MS, in ticks
  SendPeriod,  \* sendPeriodMs, in ticks
  Poll,        \* GPS_INPUT_LOOP_PERIOD_MS, in ticks
  Reconnect,   \* GPS_INPUT_RECONNECT_PERIOD_MS, in ticks
  Setup,       \* bound: what the sleeps of configureUblox come to
  MaxTime,     \* bound: true time
  Offsets,     \* what the wall clock may be off by
  WrongDays,   \* days a damaged date field may name
  MaxUpsets    \* bound: steps of the wall clock and damaged dates together

ASSUME GpsInputAssumption ==
  /\ Day \in Nat \ {0} /\ Stale \in Nat \ {0} /\ SendPeriod \in Nat \ {0}
  /\ Poll \in Nat \ {0} /\ Reconnect \in Nat \ {0} /\ Setup \in Nat
  /\ MaxTime \in Nat
  /\ 0 \in Offsets /\ Offsets \subseteq Int
  /\ WrongDays \subseteq Nat /\ MaxUpsets \in Nat

Never == -1
NoDay == -1

VARIABLES
  now,       \* true time
  offset,    \* wall clock minus true time
  connected, \* connection->isConnected()
  configured,\* as in GpsInputTask, always true if it is not to configure
  loop,      \* where the thread is: asleep after a turn on an open line or on a closed one,
             \* configuring the receiver, or reading
  sleep,     \* what is left of its sleep
  heard,     \* epoch of the receiver's latest output
  inbox,     \* sentences not yet handled
  day,       \* gpsState's year, month and day
  fix,       \* gpsState's GPS time: present, base, and the wall time it was set;
             \* epoch is the epoch of the GGA it came from (history)
  ready,     \* gpsDataReady
  updated,   \* lastNmeaUpdateTime
  lastSend,  \* lastSendTime
  lastStamp, \* lastSentWeek and lastSentTimeMs
  frame,     \* history: the latest frame
  handledAt, \* history: when the latest GGA was handled
  upsets     \* history: steps of the wall clock and damaged dates so far

thread == <<connected, configured, loop, sleep>>
vars == <<now, offset, thread, heard, inbox, day, fix, ready, updated,
          lastSend, lastStamp, frame, handledAt, upsets>>
state == <<day, fix, ready, updated, lastSend, lastStamp, frame, handledAt>>

Larger(a, b) == IF a < b THEN b ELSE a
\* How late a sentence is handled at most: the longest sleep, and the receiver's setup.
MaxLatency == Larger(Poll, Reconnect) + Setup

Wall == now + offset
Upset == upsets.clock + upsets.date
DayOf(epoch) == epoch \div Day
TimeOfDay(epoch) == epoch % Day

Epochs == 0..MaxTime
WallTimes == {n + o : n \in Epochs, o \in Offsets} \cup {0}
Days == {NoDay} \cup {DayOf(e) : e \in Epochs} \cup WrongDays
Sentences ==
  [type: {"RMC"}, epoch: Epochs, date: Days] \cup [type: {"GGA"}, epoch: Epochs, timed: BOOLEAN]

TypeOK ==
  /\ now \in Epochs /\ offset \in Offsets
  /\ connected \in BOOLEAN /\ configured \in BOOLEAN
  /\ loop \in {"polled", "closed", "configuring", "reading"}
  /\ sleep \in 0..MaxLatency
  /\ heard \in Epochs \cup {Never}
  /\ inbox \in Seq(Sentences)
  /\ day \in Days
  /\ fix \in [present: BOOLEAN, base: Nat, wall: WallTimes, epoch: Epochs \cup {Never}]
  /\ ready \in BOOLEAN
  /\ updated \in WallTimes /\ lastSend \in WallTimes
  /\ lastStamp \in Nat
  /\ frame \in [stamp: Nat, at: Epochs, gga: Epochs \cup {Never}, based: BOOLEAN,
                stamped: BOOLEAN, previous: Nat]
  /\ handledAt \in Epochs
  /\ upsets \in [clock: 0..MaxUpsets, date: 0..MaxUpsets] /\ Upset <= MaxUpsets

Init ==
  /\ now = 0 /\ offset = 0
  /\ connected \in BOOLEAN /\ configured = FALSE /\ loop = "polled" /\ sleep = 0
  /\ heard = Never /\ inbox = <<>>
  /\ day = NoDay
  /\ fix = [present |-> FALSE, base |-> 0, wall |-> 0, epoch |-> Never]
  /\ ready = FALSE /\ updated = 0 /\ lastSend = 0 /\ lastStamp = 0
  /\ frame = [stamp |-> 0, at |-> 0, gga |-> Never, based |-> FALSE,
              stamped |-> FALSE, previous |-> 0]
  /\ handledAt = 0 /\ upsets = [clock |-> 0, date |-> 0]

(***************************************************************************)
(* The turns, and the line.                                                 *)
(***************************************************************************)
Sleeps(at, ticks) == loop' = at /\ sleep' = ticks
Awake == loop \in {"polled", "closed"} /\ sleep = 0

\* The line is closed: connect(), if the last try is long enough ago, and a long sleep.
TurnClosed ==
  /\ Awake /\ ~connected
  /\ configured' = FALSE
  /\ connected' \in BOOLEAN
  /\ Sleeps("closed", Reconnect)
  /\ UNCHANGED <<now, offset, heard, inbox, upsets>> /\ UNCHANGED state

TurnConfigures ==
  /\ Awake /\ connected /\ ~configured
  /\ \E t \in 0..Setup : Sleeps("configuring", t)
  /\ UNCHANGED <<now, offset, connected, configured, heard, inbox, upsets>> /\ UNCHANGED state

\* processRead, at once or behind configureUblox, which may have discarded what had come.
TurnReads ==
  /\ \/ Awake /\ connected /\ configured /\ UNCHANGED inbox
     \/ loop = "configuring" /\ sleep = 0 /\ inbox' \in {inbox, <<>>}
  /\ configured' = TRUE
  /\ Sleeps("reading", 0)
  /\ UNCHANGED <<now, offset, connected, heard, upsets>> /\ UNCHANGED state

\* The line is closed under the thread, with what waits on it.
LineLost ==
  /\ connected /\ loop # "reading"
  /\ connected' = FALSE /\ inbox' = <<>>
  /\ UNCHANGED <<now, offset, configured, loop, sleep, heard, upsets>> /\ UNCHANGED state

(***************************************************************************)
(* Sentences.                                                               *)
(***************************************************************************)
\* utcToGpsTime: the day last named by an RMC, with the time of the GGA.
GpsTime(d, epoch) == d * Day + TimeOfDay(epoch)

\* parseRmc: a date counts whatever the status says.
ParseRmc(s) ==
  /\ s.type = "RMC"
  /\ day' = IF s.date = NoDay THEN day ELSE s.date
  /\ UNCHANGED <<fix, ready, updated, handledAt>>

\* The GPS time after a GGA: it needs a time in the sentence and a date seen before.
FixOf(s) ==
  IF s.timed /\ day # NoDay
  THEN [present |-> TRUE, base |-> GpsTime(day, s.epoch), wall |-> Wall, epoch |-> s.epoch]
  ELSE [fix EXCEPT !.present = FALSE, !.epoch = s.epoch]

\* parseGga: every GGA counts as an update, whatever it brings.
ParseGga(s) ==
  /\ s.type = "GGA"
  /\ fix' = FixOf(s)
  /\ ready' = TRUE
  /\ updated' = Wall
  /\ handledAt' = now
  /\ UNCHANGED day

\* processRead and onSentence, one sentence.
HandleSentence ==
  /\ loop = "reading" /\ inbox # <<>>
  /\ inbox' = Tail(inbox)
  /\ ParseRmc(Head(inbox)) \/ ParseGga(Head(inbox))
  /\ UNCHANGED <<now, offset, thread, heard, lastSend, lastStamp, frame, upsets>>

(***************************************************************************)
(* Injection.                                                               *)
(***************************************************************************)
\* Fault: the stamp is not held at the previous one.
StampUnguarded == fix.base + Larger(0, Wall - fix.wall)
\* Fault: a frame sent again carries the stamp of its fix.
StampNotMoved == Larger(lastStamp, fix.base)
\* currentGpsTime for a fix that has a GPS time: moved on, never backwards.
Stamp == Larger(lastStamp, fix.base + Larger(0, Wall - fix.wall))

\* Fault: the fix never grows stale.
FreshForever == ready
\* The staleness guard of loop().
Fresh == ready /\ Wall - updated < Stale

\* Fault: the next frame is due a period after the frame before last.
DueLate == lastSend + 2 * SendPeriod <= Wall
\* TimeUtils::isTimeout(now, lastSendTime, sendPeriodMs)
Due == lastSend + SendPeriod <= Wall

\* loop and sendGpsInput.
Inject ==
  /\ loop = "reading" /\ Fresh /\ Due
  /\ lastSend' = Wall
  /\ lastStamp' = IF fix.present THEN Stamp ELSE lastStamp
  /\ frame' = [stamp |-> IF fix.present THEN Stamp ELSE 0, at |-> now, gga |-> fix.epoch,
               based |-> fix.base = fix.epoch, stamped |-> fix.present,
               previous |-> IF frame.stamped THEN frame.stamp ELSE frame.previous]
  /\ UNCHANGED <<now, offset, thread, heard, inbox, day, fix, ready, updated, handledAt, upsets>>

TurnEnds ==
  /\ loop = "reading" /\ inbox = <<>> /\ ~(Fresh /\ Due)
  /\ Sleeps("polled", Poll)
  /\ UNCHANGED <<now, offset, connected, configured, heard, inbox, upsets>> /\ UNCHANGED state

(***************************************************************************)
(* The receiver, true time and the wall clock.                              *)
(***************************************************************************)
Rmcs == [type: {"RMC"}, epoch: {now}, date: {NoDay, DayOf(now)}]
Damaged == [type: {"RMC"}, epoch: {now}, date: WrongDays]
Ggas == [type: {"GGA"}, epoch: {now}, timed: BOOLEAN]
AtMostOne(sentences) == {<<>>} \cup {<<s>> : s \in sentences}

\* The RMC and then the GGA of an epoch; either may be lost on the line, and an RMC that
\* is lost changes no less than one without a date, for which it stands.
Receive ==
  /\ connected /\ loop # "reading" /\ heard < now
  /\ heard' = now
  /\ \E r \in Rmcs \cup Damaged, g \in AtMostOne(Ggas) :
       /\ inbox' = inbox \o <<r>> \o g
       /\ \/ r \in Rmcs /\ UNCHANGED upsets
          \/ r \in Damaged /\ Upset < MaxUpsets /\ upsets' = [upsets EXCEPT !.date = @ + 1]
  /\ UNCHANGED <<now, offset, thread>> /\ UNCHANGED state

\* Time passes while the thread sleeps.
Tick ==
  /\ now < MaxTime
  /\ connected => heard = now
  /\ sleep > 0 /\ sleep' = sleep - 1
  /\ now' = now + 1
  /\ UNCHANGED <<offset, connected, configured, loop, heard, inbox, upsets>> /\ UNCHANGED state

StepClock ==
  /\ Upset < MaxUpsets
  /\ offset' \in Offsets \ {offset}
  /\ upsets' = [upsets EXCEPT !.clock = @ + 1]
  /\ UNCHANGED <<now, thread, heard, inbox>> /\ UNCHANGED state

Next ==
  \/ TurnClosed \/ TurnConfigures \/ TurnReads
  \/ HandleSentence \/ Inject \/ TurnEnds
  \/ LineLost \/ Receive \/ Tick \/ StepClock

Spec == Init /\ [][Next]_vars

-----------------------------------------------------------------------------
\* The GPS time handed to the autopilot never goes back from one stamped frame
\* to the next one, whatever the wall clock, the dates and the line do and
\* however many frames without a time come in between (currentGpsTime).
StampsNeverGoBack == frame.stamped => frame.stamp >= frame.previous

\* With undamaged dates and a wall clock left alone no frame claims a GPS time
\* that is still to come, over midnight and with sentences lost and late; and
\* unless a midnight's RMC was missed the stamp is behind by no more than the
\* time a sentence can take: moving the fix's time on makes up for the rest.
StampIsClose ==
  Upset = 0 =>
    /\ frame.stamp <= frame.at
    /\ frame.stamped /\ frame.based => frame.at - frame.stamp <= MaxLatency

\* "Stop re-injecting the last fix if the NMEA stream goes quiet for this long"
\* (gps_input_task.cpp:14): a frame is sent only if a GGA came less than Stale ago.
NoFrozenPosition == frame.gga # Never => frame.at - frame.gga < Stale + MaxLatency

\* The same, until the wall clock is first stepped.
NoFrozenPositionUnstepped == upsets.clock = 0 => NoFrozenPosition

\* "injected on a fixed timer (decoupled from NMEA arrival) so the frame cadence
\* stays above ArduPilot's ~5 Hz health threshold" (gps_input_task.h:42): until
\* the wall clock is first stepped, from one turn on an open line to the next no more
\* than a period and the sleep between them pass without a frame, while the last
\* GGA is fresh, however sentences arrive and the line was lost and opened before.
Cadence ==
  upsets.clock = 0 /\ ready /\ loop = "polled" /\ now - handledAt < Stale =>
    now - frame.at < SendPeriod + Poll
=============================================================================
