--------------------------- MODULE GpsInputProofs ---------------------------
(***************************************************************************)
(* What is sent to the autopilot, for every length of a day, of the periods *)
(* and the sleeps, any steps of the wall clock and any dates.  How long a   *)
(* sentence can wait follows from the sleeps: the invariant says of each    *)
(* that waits that it is still in time when the thread has slept and has    *)
(* configured the receiver.  A part of the invariant holds always, one      *)
(* until the clock is first stepped, and one until a date is damaged as     *)
(* well; that one says of each sentence that waits that its day has been    *)
(* reached, and no later one named.                                         *)
(***************************************************************************)
EXTENDS GpsInput, SequenceTheorems, TLAPS

Fixes == [present: BOOLEAN, base: Int, wall: Int, epoch: Int]
Frames == [stamp: Int, at: Int, gga: Int, based: BOOLEAN, stamped: BOOLEAN, previous: Int]
Dated == [type: {"RMC"}, epoch: Nat, date: Int]
Timed == [type: {"GGA"}, epoch: Nat, timed: BOOLEAN]

Types ==
  /\ now \in Nat /\ offset \in Int
  /\ inbox \in Seq(Dated \cup Timed)
  /\ day \in Int /\ fix \in Fixes /\ ready \in BOOLEAN
  /\ updated \in Int /\ lastSend \in Int /\ lastStamp \in Int
  /\ frame \in Frames /\ handledAt \in Int
  /\ upsets \in [clock: Nat, date: Nat]

\* The latest stamp is the largest.
StampsRise == frame.previous <= lastStamp /\ (frame.stamped => frame.stamp = lastStamp)

\* How long the thread sleeps, by where it is.
SleepBounded ==
  /\ loop \in {"polled", "closed", "configuring", "reading"} /\ sleep \in Nat
  /\ loop = "polled" => sleep <= Poll
  /\ loop = "closed" => sleep <= Reconnect
  /\ loop = "configuring" => sleep <= Setup
  /\ loop = "reading" => sleep = 0

\* What is left of this sleep, and of one that the receiver's setup may add.
Ahead == sleep + (IF loop \in {"polled", "closed"} THEN Setup ELSE 0)

\* A sentence waits no longer than it may, and none waits on a closed line.
InTime(s) == s.epoch <= now /\ now + Ahead <= s.epoch + MaxLatency
InboxInTime ==
  /\ \A i \in 1..Len(inbox) : InTime(inbox[i])
  /\ ~connected => inbox = <<>>

\* Until the wall clock is stepped.
ClockKept ==
  upsets.clock = 0 =>
    /\ offset = 0 /\ updated = handledAt
    /\ fix.epoch # Never => updated <= fix.epoch + MaxLatency
    /\ fix.present => fix.epoch <= fix.wall /\ fix.wall <= fix.epoch + MaxLatency /\ fix.wall <= now
    /\ lastSend = frame.at /\ NoFrozenPosition

\* Until then the time since the last frame leaves room for what is left of the sleep.
FramesDue ==
  upsets.clock = 0 /\ ready /\ loop = "polled" /\ now - handledAt < Stale =>
    now - frame.at < SendPeriod + (Poll - sleep)

\* What waits is in the order of the receiver, and each RMC names its own day or none.
InboxInOrder ==
  \A i, j \in 1..Len(inbox) : i <= j => inbox[i].epoch <= inbox[j].epoch
DatesTrue ==
  \A i \in 1..Len(inbox) :
    inbox[i].type = "RMC" => inbox[i].date \in {NoDay, DayOf(inbox[i].epoch)}
\* No sentence that waits or is to come is from before the day.
DayReached ==
  /\ day <= DayOf(now)
  /\ \A i \in 1..Len(inbox) : day <= DayOf(inbox[i].epoch)

\* Until a date is damaged, too.
DatesKept ==
  Upset = 0 =>
    /\ DatesTrue /\ DayReached
    /\ fix.present => fix.base <= fix.epoch
    /\ lastStamp <= now /\ frame.at <= now
    /\ StampIsClose

GpsInputInv ==
  /\ Types /\ StampsRise /\ SleepBounded /\ InboxInTime /\ InboxInOrder
  /\ ClockKept /\ FramesDue /\ DatesKept

USE GpsInputAssumption
USE DEF Never, NoDay, Fixes, Frames, Dated, Timed

LEMMA WallTimesHave ==
  ASSUME NEW n \in Epochs, NEW o \in Offsets
  PROVE n + o \in WallTimes
<1>1. PICK w : w = n + o
  OBVIOUS
<1>2. w \in {m + p : m \in Epochs, p \in Offsets}
  BY <1>1
<1> QED BY <1>1, <1>2 DEF WallTimes

LEMMA LatencyCovers ==
  MaxLatency \in Nat /\ Poll + Setup <= MaxLatency /\ Reconnect + Setup <= MaxLatency
  BY DEF MaxLatency, Larger

USE LatencyCovers

-----------------------------------------------------------------------------
\* The calendar: a later time is of no earlier day, and the time of day lies in it.
LEMMA DaysRise ==
  ASSUME NEW a \in Nat, NEW b \in Nat, a <= b
  PROVE DayOf(a) \in Nat /\ DayOf(b) \in Nat /\ DayOf(a) <= DayOf(b)
  BY DEF DayOf

LEMMA DayBegins ==
  ASSUME NEW d \in Int, NEW e \in Nat, d <= DayOf(e)
  PROVE GpsTime(d, e) \in Int /\ GpsTime(d, e) <= e
<1>1. DayOf(e) \in Nat /\ TimeOfDay(e) \in Nat /\ e = Day * DayOf(e) + TimeOfDay(e)
  BY DEF DayOf, TimeOfDay
<1>2. d * Day <= Day * DayOf(e)
  BY <1>1
<1> QED BY <1>1, <1>2 DEF GpsTime

-----------------------------------------------------------------------------
\* A fix that has no time.
LEMMA NoTime ==
  ASSUME NEW f \in Fixes, NEW e \in Int
  PROVE /\ [f EXCEPT !.present = FALSE, !.epoch = e] \in Fixes
        /\ [f EXCEPT !.present = FALSE, !.epoch = e].epoch = e
        /\ ~[f EXCEPT !.present = FALSE, !.epoch = e].present
<1>1. PICK g : g = [f EXCEPT !.present = FALSE]
  OBVIOUS
<1>2. g \in Fixes /\ ~g.present
  BY <1>1
<1>3. /\ [g EXCEPT !.epoch = e] \in Fixes
      /\ [g EXCEPT !.epoch = e].epoch = e /\ ~[g EXCEPT !.epoch = e].present
  BY <1>2
<1> QED BY <1>1, <1>3, Zenon

LEMMA GpsInputInit ==
  ASSUME Init
  PROVE GpsInputInv
<1>1. inbox = <<>> /\ Len(inbox) = 0
  BY DEF Init
<1>2. Types /\ StampsRise
  <2>1. fix \in Fixes
    BY DEF Init
  <2>2. frame \in Frames
    BY DEF Init
  <2>3. inbox \in Seq(Dated \cup Timed)
    BY <1>1, EmptySeq
  <2>4. upsets \in [clock: Nat, date: Nat]
    BY DEF Init
  <2>5. StampsRise
    BY DEF Init, StampsRise
  <2>6. now \in Nat /\ offset \in Int /\ day \in Int
        /\ updated \in Int /\ lastSend \in Int /\ lastStamp \in Int /\ handledAt \in Int
    BY DEF Init
  <2>7. ready \in BOOLEAN
    BY Zenon DEF Init
  <2> QED BY <2>1, <2>2, <2>3, <2>4, <2>5, <2>6, <2>7 DEF Types
<1>3. InboxInTime /\ InboxInOrder /\ SleepBounded
  BY <1>1 DEF Init, InboxInTime, InboxInOrder, SleepBounded
<1>4. ClockKept /\ FramesDue
  BY DEF Init, ClockKept, FramesDue, NoFrozenPosition
<1>5. DatesKept
  <2>1. DatesTrue /\ DayReached
    BY <1>1, DaysRise DEF Init, DatesTrue, DayReached
  <2> QED BY <2>1 DEF Init, DatesKept, StampIsClose
<1> QED BY <1>2, <1>3, <1>4, <1>5 DEF GpsInputInv

-----------------------------------------------------------------------------
\* The next sentence.
LEMMA HeadKept ==
  ASSUME GpsInputInv, inbox # <<>>
  PROVE /\ Head(inbox) \in Dated \cup Timed /\ Head(inbox) = inbox[1] /\ 1 \in 1..Len(inbox)
        /\ Tail(inbox) \in Seq(Dated \cup Timed)
        /\ \A i \in 1..Len(Tail(inbox)) : Tail(inbox)[i] = inbox[i + 1] /\ i + 1 \in 1..Len(inbox)
<1>1. inbox \in Seq(Dated \cup Timed)
  BY DEF GpsInputInv, Types
<1>2. Tail(inbox) \in Seq(Dated \cup Timed) /\ Len(Tail(inbox)) = Len(inbox) - 1 /\ Len(inbox) \in Nat \ {0}
  BY <1>1, HeadTailProperties, EmptySeq
<1> QED BY <1>1, <1>2, HeadTailProperties

LEMMA FixIsFix ==
  ASSUME Types, NEW s, s.epoch \in Nat
  PROVE /\ FixOf(s) \in Fixes /\ FixOf(s).epoch = s.epoch
        /\ FixOf(s).present => FixOf(s).wall = Wall /\ FixOf(s).base = GpsTime(day, s.epoch)
<1>1. CASE s.timed /\ day # NoDay
  <2>1. FixOf(s) = [present |-> TRUE, base |-> GpsTime(day, s.epoch), wall |-> Wall, epoch |-> s.epoch]
    BY <1>1, Zenon DEF FixOf
  <2>2. GpsTime(day, s.epoch) \in Int /\ Wall \in Int
    BY DEF Types, GpsTime, TimeOfDay, Wall
  <2> QED BY <2>1, <2>2
<1>2. CASE ~(s.timed /\ day # NoDay)
  <2>1. FixOf(s) = [fix EXCEPT !.present = FALSE, !.epoch = s.epoch]
    BY <1>2, Zenon DEF FixOf
  <2>2. fix \in Fixes /\ s.epoch \in Int
    BY DEF Types
  <2>3. FixOf(s) \in Fixes /\ FixOf(s).epoch = s.epoch /\ ~FixOf(s).present
    BY <2>1, <2>2, NoTime, Zenon
  <2> QED BY <2>3
<1> QED BY <1>1, <1>2

LEMMA HandleHolds ==
  ASSUME GpsInputInv, HandleSentence
  PROVE GpsInputInv'
<1> DEFINE s == Head(inbox)
<1>1. /\ s \in Dated \cup Timed /\ s = inbox[1] /\ 1 \in 1..Len(inbox)
      /\ inbox' = Tail(inbox) /\ inbox' \in Seq(Dated \cup Timed)
      /\ \A i \in 1..Len(inbox') : inbox'[i] = inbox[i + 1] /\ i + 1 \in 1..Len(inbox)
      /\ UNCHANGED <<now, offset, connected, loop, sleep, lastSend, lastStamp, frame, upsets>>
      /\ ParseRmc(s) \/ ParseGga(s)
      /\ loop = "reading" /\ inbox # <<>>
  BY HeadKept DEF HandleSentence, thread
<1>2. s.epoch \in Nat /\ s.epoch <= now /\ now <= s.epoch + MaxLatency
  <2>1. InTime(s) /\ s.epoch \in Nat
    BY <1>1 DEF GpsInputInv, InboxInTime
  <2> QED BY <1>1, <2>1 DEF GpsInputInv, Types, SleepBounded, InTime, Ahead
<1>3. Types'
  <2>1. CASE ParseRmc(s)
    BY <1>1, <2>1 DEF GpsInputInv, Types, ParseRmc
  <2>2. CASE ParseGga(s)
    <3>1. FixOf(s) \in Fixes
      BY <1>2, FixIsFix DEF GpsInputInv
    <3> QED BY <1>1, <2>2, <3>1 DEF GpsInputInv, Types, ParseGga, Wall
  <2> QED BY <1>1, <2>1, <2>2
<1>4. StampsRise'
  BY <1>1 DEF GpsInputInv, StampsRise
<1>5. InboxInTime' /\ InboxInOrder' /\ SleepBounded' /\ FramesDue'
  <2>1. SleepBounded' /\ FramesDue'
    BY <1>1 DEF GpsInputInv, SleepBounded, FramesDue
  <2> QED BY <1>1, <2>1 DEF GpsInputInv, InboxInTime, InTime, Ahead, InboxInOrder
<1>6. ClockKept'
  <2>1. CASE ParseRmc(s)
    BY <1>1, <2>1 DEF GpsInputInv, ClockKept, ParseRmc, NoFrozenPosition
  <2>2. CASE ParseGga(s)
    <3> SUFFICES ASSUME upsets.clock = 0
                 PROVE ClockKept'
      BY <1>1 DEF ClockKept
    <3>1. Wall = now /\ now \in Nat /\ offset' = 0
      BY <1>1 DEF GpsInputInv, Types, ClockKept, Wall
    <3>2. fix' = FixOf(s) /\ ready' /\ updated' = now /\ handledAt' = now /\ now' = now
      BY <1>1, <2>2, <3>1 DEF ParseGga
    <3>3. fix'.epoch = s.epoch /\ (fix'.present => fix'.wall = now)
      BY <1>2, <3>1, <3>2, FixIsFix DEF GpsInputInv
    <3>4. lastSend' = frame'.at /\ NoFrozenPosition'
      BY <1>1 DEF GpsInputInv, ClockKept, NoFrozenPosition
    <3> HIDE DEF s
    <3> QED BY <1>2, <3>1, <3>2, <3>3, <3>4 DEF ClockKept
  <2> QED BY <1>1, <2>1, <2>2
<1>7. DatesKept'
  <2> SUFFICES ASSUME Upset = 0
               PROVE DatesTrue' /\ DayReached' /\ (fix'.present => fix'.base <= fix'.epoch)
    BY <1>1 DEF GpsInputInv, DatesKept, Upset, StampIsClose
  <2>1. DatesTrue'
    BY <1>1 DEF GpsInputInv, DatesKept, DatesTrue
  <2>2. day <= DayOf(s.epoch) /\ (s.type = "RMC" => s.date \in {NoDay, DayOf(s.epoch)})
    BY <1>1 DEF GpsInputInv, DatesKept, DatesTrue, DayReached
  <2>3. day' <= DayOf(s.epoch)
    <3>1. DayOf(s.epoch) \in Nat
      BY <1>2, DaysRise
    <3>2. day' = day \/ (s.type = "RMC" /\ s.date # NoDay /\ day' = s.date)
      BY <1>1 DEF ParseRmc, ParseGga
    <3> QED BY <2>2, <3>1, <3>2
  <2>4. day' \in Int
    BY <1>3 DEF Types
  <2>5. DayReached'
    <3>1. DayOf(s.epoch) \in Nat /\ DayOf(now) \in Nat /\ DayOf(s.epoch) <= DayOf(now)
      <4>1. now \in Nat /\ s.epoch <= now
        BY <1>2 DEF GpsInputInv, Types
      <4> QED BY <1>2, <4>1, DaysRise
    <3>2. ASSUME NEW i \in 1..Len(inbox')
          PROVE day' <= DayOf(inbox'[i].epoch)
      <4>1. s.epoch <= inbox'[i].epoch
        BY <1>1 DEF GpsInputInv, InboxInOrder
      <4>2. inbox'[i].epoch \in Nat
        BY <1>1, <3>2, ElementOfSeq
      <4>3. DayOf(s.epoch) <= DayOf(inbox'[i].epoch) /\ DayOf(inbox'[i].epoch) \in Nat
        BY <1>2, <4>1, <4>2, DaysRise
      <4> QED BY <2>3, <2>4, <3>1, <4>3
    <3> QED BY <1>1, <2>3, <2>4, <3>1, <3>2 DEF DayReached, DayOf
  <2>6. fix'.present => fix'.base <= fix'.epoch
    <3>1. CASE ParseRmc(s)
      BY <3>1 DEF ParseRmc, GpsInputInv, DatesKept
    <3>2. CASE ParseGga(s)
      <4>1. GpsTime(day, s.epoch) <= s.epoch
        BY <1>2, <2>2, DayBegins DEF GpsInputInv, Types
      <4> QED BY <1>2, <3>2, <4>1, FixIsFix DEF ParseGga, GpsInputInv
    <3> QED BY <1>1, <3>1, <3>2
  <2> QED BY <2>1, <2>5, <2>6
<1> QED BY <1>3, <1>4, <1>5, <1>6, <1>7 DEF GpsInputInv

-----------------------------------------------------------------------------
LEMMA InjectHolds ==
  ASSUME GpsInputInv, Inject
  PROVE GpsInputInv'
<1> DEFINE stamp == IF fix.present THEN Stamp ELSE 0
<1>1. /\ Fresh /\ Due /\ lastSend' = Wall
      /\ lastStamp' = IF fix.present THEN Stamp ELSE lastStamp
      /\ UNCHANGED <<now, offset, connected, loop, sleep, inbox, day, fix, ready, updated,
                     handledAt, upsets>>
      /\ loop = "reading"
  BY DEF Inject, thread
<1>2. frame' = [stamp |-> stamp, at |-> now, gga |-> fix.epoch,
                based |-> fix.base = fix.epoch, stamped |-> fix.present,
                previous |-> IF frame.stamped THEN frame.stamp ELSE frame.previous]
  BY DEF Inject
<1>3. Wall \in Int /\ fix \in Fixes /\ frame \in Frames /\ lastStamp \in Int /\ now \in Nat
  BY DEF GpsInputInv, Types, Wall
<1>4. Stamp \in Int /\ lastStamp <= Stamp
  BY <1>3 DEF Stamp, Larger
<1>5. frame' \in Frames
  BY <1>2, <1>3, <1>4
<1>6. /\ frame'.at = now /\ frame'.gga = fix.epoch
      /\ frame'.stamp = stamp /\ frame'.stamped = fix.present
      /\ frame'.based = (fix.base = fix.epoch)
      /\ frame'.previous = IF frame.stamped THEN frame.stamp ELSE frame.previous
  BY <1>2
<1>7. Types'
  BY <1>1, <1>3, <1>4, <1>5 DEF GpsInputInv, Types
<1>8. StampsRise'
  BY <1>1, <1>3, <1>4, <1>6 DEF GpsInputInv, StampsRise
<1>9. InboxInTime' /\ InboxInOrder' /\ SleepBounded' /\ FramesDue'
  <2>1. SleepBounded' /\ FramesDue'
    BY <1>1 DEF GpsInputInv, SleepBounded, FramesDue
  <2> QED BY <1>1, <2>1 DEF GpsInputInv, InboxInTime, InTime, Ahead, InboxInOrder
<1>10. ClockKept'
  <2> SUFFICES ASSUME upsets.clock = 0
               PROVE ClockKept'
    BY <1>1 DEF ClockKept
  <2>1. Wall = now /\ ready /\ now - updated < Stale
    BY <1>1, <1>3 DEF GpsInputInv, ClockKept, Wall, Fresh
  <2>2. fix.epoch # Never => now - fix.epoch < Stale + MaxLatency
    BY <1>3, <2>1, SMTT(30) DEF GpsInputInv, Types, ClockKept
  <2>3. NoFrozenPosition'
    BY <1>6, <2>2 DEF NoFrozenPosition
  <2>4. lastSend' = frame'.at
    BY <1>1, <1>6, <2>1
  <2> QED BY <1>1, <2>3, <2>4 DEF GpsInputInv, ClockKept
<1>11. DatesKept'
  <2> SUFFICES ASSUME Upset = 0
               PROVE DatesKept'
    BY <1>1 DEF DatesKept, Upset
  <2>1. upsets.clock = 0
    BY DEF GpsInputInv, Types, Upset
  <2>2. Wall = now
    BY <1>3, <2>1 DEF GpsInputInv, ClockKept, Wall
  <2>3. lastStamp <= now
    BY DEF GpsInputInv, DatesKept
  <2>4. CASE fix.present
    <3>1. /\ fix.base <= fix.epoch /\ fix.epoch <= fix.wall
          /\ fix.wall <= fix.epoch + MaxLatency /\ fix.wall <= now
      BY <2>1, <2>4 DEF GpsInputInv, ClockKept, DatesKept
    <3>2. Stamp <= now /\ (fix.base = fix.epoch => now - Stamp <= MaxLatency)
      BY <1>3, <2>2, <2>3, <3>1 DEF Stamp, Larger
    <3>3. lastStamp' <= now' /\ frame'.at <= now' /\ StampIsClose'
      <4>1. frame'.stamp = Stamp /\ lastStamp' = Stamp /\ now' = now /\ frame'.at = now
        BY <1>1, <1>6, <2>4
      <4>2. frame'.based => now - Stamp <= MaxLatency
        BY <1>6, <3>2
      <4> QED BY <1>3, <3>2, <4>1, <4>2 DEF StampIsClose
    <3>4. fix'.present => fix'.base <= fix'.epoch
      BY <1>1, <3>1
    <3> QED BY <1>1, <3>3, <3>4 DEF GpsInputInv, DatesKept, DatesTrue, DayReached
  <2>5. CASE ~fix.present
    BY <1>1, <1>3, <1>6, <2>3, <2>5 DEF GpsInputInv, DatesKept, DatesTrue, DayReached, StampIsClose
  <2> QED BY <2>4, <2>5
<1> QED BY <1>7, <1>8, <1>9, <1>10, <1>11 DEF GpsInputInv

-----------------------------------------------------------------------------
LEMMA AtMostOneIsSeq ==
  ASSUME NEW A, NEW r \in AtMostOne(A)
  PROVE r \in Seq(A)
<1>1. CASE r = <<>>
  BY <1>1, EmptySeq
<1>2. CASE r # <<>>
  <2>1. PICK a \in A : r = <<a>>
    BY <1>2 DEF AtMostOne
  <2> QED BY <2>1
<1> QED BY <1>1, <1>2

\* What is appended, and where.
LEMMA AppendedTwice ==
  ASSUME NEW S, NEW s \in Seq(S), NEW A \in SUBSET S, NEW B \in SUBSET S,
         NEW r \in AtMostOne(A), NEW g \in AtMostOne(B)
  PROVE /\ s \o r \o g \in Seq(S)
        /\ \A i \in 1..Len(s \o r \o g) :
             \/ i \in 1..Len(s) /\ (s \o r \o g)[i] = s[i]
             \/ i > Len(s) /\ (s \o r \o g)[i] \in A \cup B
<1>1. r \in Seq(A) /\ g \in Seq(B)
  BY AtMostOneIsSeq
<1>2. r \in Seq(S) /\ g \in Seq(S)
  BY <1>1
<1>3. s \o r \in Seq(S) /\ s \o r \o g \in Seq(S)
  BY <1>2
<1>4. ASSUME NEW i \in 1..Len(s \o r \o g)
      PROVE \/ i \in 1..Len(s) /\ (s \o r \o g)[i] = s[i]
            \/ i > Len(s) /\ (s \o r \o g)[i] \in A \cup B
  <2>1. Len(s) \in Nat /\ Len(r) \in Nat /\ Len(g) \in Nat
    BY <1>2, LenProperties
  <2>2. Len(s \o r) = Len(s) + Len(r) /\ Len(s \o r \o g) = Len(s) + Len(r) + Len(g)
    BY <1>2, <1>3, <2>1, ConcatProperties
  <2>3. CASE i \in 1..Len(s)
    <3>1. (s \o r)[i] = s[i] /\ i \in 1..Len(s \o r)
      BY <1>2, <2>1, <2>2, <2>3, ConcatProperties
    <3> QED BY <1>2, <1>3, <2>3, <3>1, ConcatProperties
  <2>4. CASE i \in (Len(s) + 1)..(Len(s) + Len(r))
    <3>1. (s \o r)[i] = r[i - Len(s)] /\ i \in 1..Len(s \o r) /\ i - Len(s) \in 1..Len(r)
      BY <1>2, <2>1, <2>2, <2>4, ConcatProperties
    <3>2. (s \o r \o g)[i] = (s \o r)[i]
      BY <1>2, <1>3, <3>1, ConcatProperties
    <3> QED BY <1>1, <2>1, <2>4, <3>1, <3>2, ElementOfSeq
  <2>5. CASE i > Len(s) + Len(r)
    <3>1. i - (Len(s) + Len(r)) \in 1..Len(g) /\ i > Len(s \o r)
      BY <2>1, <2>2, <2>5
    <3>2. (s \o r \o g)[i] = g[i - (Len(s) + Len(r))]
      BY <1>2, <1>3, <2>1, <2>2, <3>1, ConcatProperties
    <3> QED BY <1>1, <2>1, <2>5, <3>1, <3>2, ElementOfSeq
  <2> QED BY <2>1, <2>2, <2>3, <2>4, <2>5
<1> QED BY <1>3, <1>4

LEMMA OneDateMore ==
  ASSUME NEW u \in [clock: Nat, date: Nat]
  PROVE /\ [u EXCEPT !.date = @ + 1] \in [clock: Nat, date: Nat]
        /\ [u EXCEPT !.date = @ + 1].date = u.date + 1
        /\ [u EXCEPT !.date = @ + 1].clock = u.clock
  OBVIOUS

LEMMA ReceiveHolds ==
  ASSUME GpsInputInv, Receive
  PROVE GpsInputInv'
<1> DEFINE News == Rmcs \cup Damaged \cup Ggas
           Old(i) == i \in 1..Len(inbox) /\ inbox'[i] = inbox[i]
           New(i) == i > Len(inbox) /\ inbox'[i] \in News
<1>1. now \in Nat /\ inbox \in Seq(Dated \cup Timed) /\ upsets \in [clock: Nat, date: Nat]
  BY DEF GpsInputInv, Types
<1>2. /\ Rmcs \in SUBSET (Dated \cup Timed) /\ Damaged \in SUBSET (Dated \cup Timed)
      /\ Ggas \in SUBSET (Dated \cup Timed)
  <2>1. DayOf(now) \in Int
    BY <1>1, DaysRise
  <2>2. Rmcs \subseteq Dated
    BY <1>1, <2>1 DEF Rmcs
  <2>3. Damaged \subseteq Dated
    <3>1. \A d \in WrongDays : d \in Int
      OBVIOUS
    <3> QED BY <1>1, <3>1 DEF Damaged
  <2>4. Ggas \subseteq Timed
    BY <1>1 DEF Ggas
  <2> QED BY <2>2, <2>3, <2>4
<1>3. /\ UNCHANGED <<now, offset, day, fix, ready, updated, lastSend, lastStamp, frame, handledAt>>
      /\ inbox' \in Seq(Dated \cup Timed)
      /\ \A i \in 1..Len(inbox') : Old(i) \/ New(i)
      /\ \/ upsets' = upsets /\ \A i \in 1..Len(inbox') : Old(i) \/ inbox'[i] \in Rmcs \cup Ggas
         \/ upsets'.date = upsets.date + 1
      /\ upsets' \in [clock: Nat, date: Nat] /\ upsets'.clock = upsets.clock
  <2> DEFINE S == Dated \cup Timed
  <2>0. inbox \in Seq(S) /\ Rmcs \in SUBSET S /\ Damaged \in SUBSET S /\ Ggas \in SUBSET S
    BY <1>1, <1>2
  <2>1. PICK r \in Rmcs \cup Damaged, g \in AtMostOne(Ggas) :
          /\ inbox' = inbox \o <<r>> \o g
          /\ \/ r \in Rmcs /\ UNCHANGED upsets
             \/ r \in Damaged /\ upsets' = [upsets EXCEPT !.date = @ + 1]
    BY DEF Receive
  <2> HIDE DEF S
  <2>2. \A A \in SUBSET S : r \in A =>
          /\ inbox' \in Seq(S)
          /\ \A i \in 1..Len(inbox') : Old(i) \/ (i > Len(inbox) /\ inbox'[i] \in A \cup Ggas)
    <3> SUFFICES ASSUME NEW A \in SUBSET S, r \in A
                 PROVE /\ inbox' \in Seq(S)
                       /\ \A i \in 1..Len(inbox') :
                            Old(i) \/ (i > Len(inbox) /\ inbox'[i] \in A \cup Ggas)
      OBVIOUS
    <3>1. <<r>> \in AtMostOne(A)
      BY DEF AtMostOne
    <3>2. /\ inbox \o <<r>> \o g \in Seq(S)
          /\ \A i \in 1..Len(inbox \o <<r>> \o g) :
               \/ i \in 1..Len(inbox) /\ (inbox \o <<r>> \o g)[i] = inbox[i]
               \/ i > Len(inbox) /\ (inbox \o <<r>> \o g)[i] \in A \cup Ggas
      BY <2>0, <3>1, AppendedTwice
    <3> QED BY <2>1, <3>2
  <2>3. UNCHANGED <<now, offset, day, fix, ready, updated, lastSend, lastStamp, frame, handledAt>>
    BY DEF Receive, state
  <2>4. CASE r \in Rmcs /\ UNCHANGED upsets
    BY <1>1, <2>0, <2>2, <2>3, <2>4 DEF S
  <2>5. CASE r \in Damaged /\ upsets' = [upsets EXCEPT !.date = @ + 1]
    <3>1. /\ upsets'.date = upsets.date + 1 /\ upsets'.clock = upsets.clock
          /\ upsets' \in [clock: Nat, date: Nat]
      BY <1>1, <2>5, OneDateMore, Zenon
    <3> QED BY <2>0, <2>2, <2>3, <2>5, <3>1 DEF S
  <2> QED BY <2>1, <2>4, <2>5
<1>4. \A s \in News : s.epoch = now
  BY DEF Rmcs, Damaged, Ggas
<1>5. connected /\ loop # "reading" /\ UNCHANGED <<connected, loop, sleep>>
  BY DEF Receive, thread
<1>6. Types' /\ StampsRise' /\ ClockKept' /\ SleepBounded' /\ FramesDue'
  <2>1. SleepBounded' /\ FramesDue'
    BY <1>3, <1>5 DEF GpsInputInv, SleepBounded, FramesDue
  <2> QED BY <1>3, <2>1 DEF GpsInputInv, Types, StampsRise, ClockKept, NoFrozenPosition
<1> HIDE DEF News
<1>7. \A i \in 1..Len(inbox) : inbox[i].epoch \in Nat /\ inbox[i].epoch <= now /\ InTime(inbox[i])
  BY <1>1, ElementOfSeq DEF GpsInputInv, InboxInTime, InTime
<1>8. \A i \in 1..Len(inbox') : Old(i) \/ (i > Len(inbox) /\ inbox'[i].epoch = now)
  BY <1>3, <1>4
<1>9. InboxInTime' /\ InboxInOrder'
  <2>1. InboxInTime'
    <3> SUFFICES ASSUME NEW i \in 1..Len(inbox')
                 PROVE inbox'[i].epoch <= now /\ now + Ahead <= inbox'[i].epoch + MaxLatency
      BY <1>3, <1>5 DEF InboxInTime, InTime, Ahead
    <3>1. now + Ahead <= now + MaxLatency
      BY <1>1, <1>5 DEF GpsInputInv, SleepBounded, Ahead
    <3> QED BY <1>1, <1>7, <1>8, <3>1 DEF InTime
  <2>2. ASSUME NEW i \in 1..Len(inbox'), NEW j \in 1..Len(inbox'), i <= j
        PROVE inbox'[i].epoch <= inbox'[j].epoch
    <3>1. Len(inbox) \in Nat
      BY <1>1, LenProperties
    <3>2. CASE Old(j)
      BY <1>8, <2>2, <3>1, <3>2 DEF GpsInputInv, InboxInOrder
    <3>3. CASE inbox'[j].epoch = now
      BY <1>1, <1>7, <1>8, <3>3
    <3> QED BY <1>8, <3>2, <3>3
  <2> QED BY <2>1, <2>2 DEF InboxInOrder
<1>10. DatesKept'
  <2> SUFFICES ASSUME Upset' = 0
               PROVE DatesKept'
    BY DEF DatesKept
  <2>1. upsets' = upsets /\ Upset = 0
    BY <1>1, <1>3 DEF Upset
  <2>2. \A i \in 1..Len(inbox') : Old(i) \/ inbox'[i] \in Rmcs \cup Ggas
    BY <1>1, <1>3, <2>1
  <2>3. \A s \in Rmcs \cup Ggas : s.type = "RMC" => s.date \in {NoDay, DayOf(now)}
    BY DEF Rmcs, Ggas
  <2>4. DatesTrue /\ DayReached
    BY <2>1 DEF GpsInputInv, DatesKept
  <2>5. DatesTrue'
    BY <1>3, <1>4, <2>2, <2>3, <2>4 DEF DatesTrue, DayOf, News
  <2>6. DayReached'
    BY <1>3, <1>8, <2>4 DEF DayReached, DayOf
  <2> QED BY <1>3, <2>1, <2>5, <2>6 DEF GpsInputInv, DatesKept, StampIsClose, Upset
<1> QED BY <1>6, <1>9, <1>10 DEF GpsInputInv

-----------------------------------------------------------------------------
\* What passes or becomes of the line, and what the thread does between its reads.
LEMMA StateStays ==
  ASSUME GpsInputInv, UNCHANGED <<offset, upsets>>, UNCHANGED state,
         now' \in {now, now + 1}, inbox' \in {inbox, <<>>}
  PROVE /\ Types' /\ StampsRise' /\ InboxInOrder' /\ ClockKept' /\ DatesKept'
        /\ inbox' = <<>> => Len(inbox') = 0
<1>1. now \in Nat /\ now' \in Nat /\ now <= now' /\ inbox \in Seq(Dated \cup Timed)
  BY DEF GpsInputInv, Types
<1>2. inbox' \in Seq(Dated \cup Timed) /\ (inbox' = <<>> => Len(inbox') = 0)
  BY <1>1, EmptySeq
<1>3. Types' /\ StampsRise'
  BY <1>1, <1>2 DEF GpsInputInv, Types, StampsRise, state
<1>4. InboxInOrder'
  BY <1>2 DEF GpsInputInv, InboxInOrder
<1>5. ClockKept'
  BY <1>1 DEF GpsInputInv, Types, ClockKept, NoFrozenPosition, state
<1>6. DatesKept'
  <2>1. DayOf(now) \in Nat /\ DayOf(now') \in Nat /\ DayOf(now) <= DayOf(now')
    BY <1>1, DaysRise
  <2>2. DatesTrue => DatesTrue'
    BY <1>2 DEF DatesTrue, DayOf
  <2>3. DayReached => DayReached'
    <3>1. day \in Int /\ day' = day
      BY DEF GpsInputInv, Types, state
    <3>2. day <= DayOf(now) => day' <= DayOf(now')
      BY <2>1, <3>1
    <3>3. DayOf(now)' = DayOf(now')
      BY DEF DayOf
    <3>4. ASSUME DayReached, NEW i \in 1..Len(inbox')
          PROVE day' <= DayOf(inbox'[i].epoch)
      <4>1. inbox' = inbox
        BY <1>2, <3>4
      <4> QED BY <3>1, <3>4, <4>1 DEF DayReached
    <3> QED BY <3>2, <3>4 DEF DayReached, DayOf
  <2> QED BY <1>1, <2>2, <2>3 DEF GpsInputInv, Types, DatesKept, StampIsClose, Upset, state
<1> QED BY <1>2, <1>3, <1>4, <1>5, <1>6

LEMMA TickHolds ==
  ASSUME GpsInputInv, Tick
  PROVE GpsInputInv'
<1>1. /\ now' = now + 1 /\ now \in Nat /\ sleep \in Nat /\ sleep > 0 /\ sleep' = sleep - 1
      /\ inbox \in Seq(Dated \cup Timed)
      /\ UNCHANGED <<offset, connected, loop, inbox, upsets>> /\ UNCHANGED state
  BY DEF GpsInputInv, Types, SleepBounded, Tick
<1>2. Types' /\ StampsRise' /\ InboxInOrder' /\ ClockKept' /\ DatesKept'
  BY <1>1, StateStays
<1>3. SleepBounded'
  BY <1>1 DEF GpsInputInv, SleepBounded
<1>4. InboxInTime'
  <2>1. Ahead \in Int /\ Ahead' = Ahead - 1
    BY <1>1 DEF Ahead
  <2>2. \A i \in 1..Len(inbox) : inbox[i].epoch \in Nat
    BY <1>1, ElementOfSeq
  <2> QED BY <1>1, <2>1, <2>2 DEF GpsInputInv, InboxInTime, InTime
<1>5. FramesDue'
  BY <1>1 DEF GpsInputInv, Types, FramesDue, state
<1> QED BY <1>2, <1>3, <1>4, <1>5 DEF GpsInputInv

\* A turn that cannot read, the setup of the receiver, what starts a read, and the line's loss.
LEMMA ThreadMoves ==
  ASSUME GpsInputInv, TurnClosed \/ TurnConfigures \/ TurnReads \/ LineLost
  PROVE GpsInputInv'
<1>1. /\ UNCHANGED <<now, offset, upsets>> /\ UNCHANGED state /\ inbox' \in {inbox, <<>>}
      /\ now \in Nat /\ inbox \in Seq(Dated \cup Timed)
  BY DEF GpsInputInv, Types, TurnClosed, TurnConfigures, TurnReads, LineLost
<1>2. /\ Types' /\ StampsRise' /\ InboxInOrder' /\ ClockKept' /\ DatesKept'
      /\ inbox' = <<>> => Len(inbox') = 0
  BY <1>1, StateStays
<1>3. SleepBounded'
  BY DEF GpsInputInv, SleepBounded, TurnClosed, TurnConfigures, TurnReads, LineLost, Sleeps
<1>4. FramesDue'
  BY <1>1 DEF GpsInputInv, FramesDue, TurnClosed, TurnConfigures, TurnReads, LineLost, Sleeps, state
<1>5. inbox' # <<>> => inbox' = inbox /\ Ahead' <= Ahead /\ Ahead \in Nat /\ Ahead' \in Nat
  <2>1. CASE TurnClosed
    BY <2>1 DEF GpsInputInv, InboxInTime, TurnClosed
  <2>2. CASE TurnConfigures
    BY <2>2 DEF Ahead, TurnConfigures, Awake, Sleeps
  <2>3. CASE TurnReads
    BY <1>1, <2>3 DEF Ahead, TurnReads, Awake, Sleeps
  <2>4. CASE LineLost
    BY <2>4 DEF LineLost
  <2> QED BY <2>1, <2>2, <2>3, <2>4
<1>6. InboxInTime'
  <2>1. \A i \in 1..Len(inbox) : inbox[i].epoch \in Nat
    BY <1>1, ElementOfSeq
  <2>2. \A i \in 1..Len(inbox') : InTime(inbox[i])'
    <3> SUFFICES ASSUME NEW i \in 1..Len(inbox')
                 PROVE inbox'[i].epoch <= now' /\ now' + Ahead' <= inbox'[i].epoch + MaxLatency
      BY DEF InTime
    <3>1. inbox' = inbox /\ Ahead' <= Ahead /\ Ahead \in Nat /\ Ahead' \in Nat
      BY <1>2, <1>5
    <3>2. inbox[i].epoch <= now /\ now + Ahead <= inbox[i].epoch + MaxLatency
      BY <3>1 DEF GpsInputInv, InboxInTime, InTime
    <3> QED BY <1>1, <2>1, <3>1, <3>2
  <2>3. ~connected' => inbox' = <<>>
    BY DEF GpsInputInv, InboxInTime, TurnClosed, TurnConfigures, TurnReads, LineLost
  <2> QED BY <2>2, <2>3 DEF InboxInTime
<1> QED BY <1>2, <1>3, <1>4, <1>6 DEF GpsInputInv

LEMMA TurnEndsHolds ==
  ASSUME GpsInputInv, TurnEnds
  PROVE GpsInputInv'
<1>1. /\ UNCHANGED <<now, offset, upsets, inbox>> /\ UNCHANGED state
      /\ inbox' = <<>> /\ loop' = "polled" /\ sleep' = Poll /\ ~(Fresh /\ Due)
  BY DEF TurnEnds, Sleeps
<1>2. Types' /\ StampsRise' /\ InboxInOrder' /\ ClockKept' /\ DatesKept' /\ Len(inbox') = 0
  BY <1>1, StateStays
<1>3. SleepBounded' /\ InboxInTime'
  BY <1>1, <1>2 DEF SleepBounded, InboxInTime
<1>4. FramesDue'
  <2> SUFFICES ASSUME upsets.clock = 0, ready, now - handledAt < Stale
               PROVE now - frame.at < SendPeriod
    BY <1>1 DEF FramesDue, state, GpsInputInv, Types
  <2>1. now \in Int /\ handledAt \in Int /\ lastSend \in Int
    BY DEF GpsInputInv, Types
  <2>2. offset = 0 /\ updated = handledAt /\ lastSend = frame.at
    BY DEF GpsInputInv, ClockKept
  <2>3. Fresh
    BY <2>1, <2>2 DEF Fresh, Wall
  <2>4. ~(lastSend + SendPeriod <= now)
    BY <1>1, <2>1, <2>2, <2>3 DEF Due, Wall
  <2> QED BY <2>1, <2>2, <2>4
<1> QED BY <1>2, <1>3, <1>4 DEF GpsInputInv

LEMMA StepClockHolds ==
  ASSUME GpsInputInv, StepClock
  PROVE GpsInputInv'
<1>1. /\ offset' \in Int /\ upsets \in [clock: Nat, date: Nat]
      /\ UNCHANGED <<now, connected, loop, sleep, inbox>> /\ UNCHANGED state
  BY DEF GpsInputInv, Types, StepClock, thread
<1>2. upsets' \in [clock: Nat, date: Nat] /\ upsets'.clock = upsets.clock + 1
  <2>1. upsets' = [upsets EXCEPT !.clock = @ + 1]
    BY DEF StepClock
  <2> QED BY <1>1, <2>1
<1>3. Types' /\ StampsRise' /\ SleepBounded' /\ InboxInTime' /\ InboxInOrder'
  BY <1>1, <1>2 DEF GpsInputInv, Types, StampsRise, SleepBounded, InboxInTime, InTime, Ahead,
    InboxInOrder, state
<1>4. upsets'.clock # 0 /\ Upset' # 0
  BY <1>1, <1>2 DEF Upset
<1>5. ClockKept' /\ FramesDue' /\ DatesKept'
  BY <1>4 DEF ClockKept, FramesDue, DatesKept
<1> QED BY <1>3, <1>5 DEF GpsInputInv

LEMMA GpsInputStep ==
  ASSUME GpsInputInv, [Next]_vars
  PROVE GpsInputInv'
<1>1. CASE UNCHANGED vars
  BY <1>1 DEF vars, thread, GpsInputInv, Types, StampsRise, SleepBounded, InboxInTime, InTime, Ahead,
    InboxInOrder, ClockKept, NoFrozenPosition, FramesDue, DatesKept, DatesTrue, DayReached, DayOf,
    StampIsClose, Upset
<1> QED BY <1>1, ThreadMoves, TurnEndsHolds, HandleHolds, InjectHolds, ReceiveHolds, TickHolds,
       StepClockHolds DEF Next

LEMMA GpsInputHolds == Spec => []GpsInputInv
  BY GpsInputInit, GpsInputStep, PTL DEF Spec

-----------------------------------------------------------------------------
\* currentGpsTime: whatever becomes of the clock, the dates and the line, the GPS time
\* sent never goes back.
THEOREM StampsRiseForEver == Spec => []StampsNeverGoBack
<1>1. GpsInputInv => StampsNeverGoBack
  BY DEF GpsInputInv, Types, StampsRise, StampsNeverGoBack
<1> QED BY <1>1, GpsInputHolds, PTL

\* sendGpsInput: with undamaged dates and a clock left alone no stamp is from the future, and
\* none of a fix that has its own day is late by more than a sentence can be.
THEOREM StampsAreTrue == Spec => []StampIsClose
<1>1. GpsInputInv => StampIsClose
  BY DEF GpsInputInv, DatesKept, StampIsClose
<1> QED BY <1>1, GpsInputHolds, PTL

\* loop: until the clock is stepped no position is sent that is older than GPS_INPUT_STALE_MS
\* and the time a sentence can take.
THEOREM PositionsAreFresh == Spec => []NoFrozenPositionUnstepped
<1>1. GpsInputInv => NoFrozenPositionUnstepped
  BY DEF GpsInputInv, ClockKept, NoFrozenPositionUnstepped, NoFrozenPosition
<1> QED BY <1>1, GpsInputHolds, PTL

\* loop: until then, and while the last GGA is fresh, no more than a period and the sleep
\* between two turns pass without a frame, from one turn on an open line to the next one.
THEOREM FramesKeepComing == Spec => []Cadence
<1>1. GpsInputInv => Cadence
  BY DEF GpsInputInv, Types, SleepBounded, FramesDue, Cadence
<1> QED BY <1>1, GpsInputHolds, PTL

-----------------------------------------------------------------------------
\* What the thread, a fix, a frame and the counts of upsets are made of.
ThreadTyped ==
  /\ connected \in BOOLEAN /\ configured \in BOOLEAN
  /\ loop \in {"polled", "closed", "configuring", "reading"}
  /\ sleep \in 0..MaxLatency
Anchors == [present: BOOLEAN, base: Nat, wall: WallTimes, epoch: Epochs \cup {Never}]
Injections == [stamp: Nat, at: Epochs, gga: Epochs \cup {Never}, based: BOOLEAN,
               stamped: BOOLEAN, previous: Nat]
UpsetCounts == [clock: 0..MaxUpsets, date: 0..MaxUpsets]

LEMMA ZeroIsAnEpoch == 0 \in Epochs /\ 0 \in WallTimes
  BY DEF Epochs, WallTimes

LEMMA WallIsTyped ==
  ASSUME TypeOK
  PROVE Wall \in WallTimes /\ Wall \in Int
<1>1. now \in Epochs /\ offset \in Offsets
  BY DEF TypeOK
<1>2. Wall \in WallTimes
  <2>1. PICK w : w = now + offset
    OBVIOUS
  <2>2. w \in WallTimes
    BY <1>1, <2>1, WallTimesHave
  <2> QED BY <2>1, <2>2 DEF Wall
<1>3. now \in Int /\ offset \in Int
  BY <1>1 DEF Epochs
<1> QED BY <1>2, <1>3 DEF Wall

\* A date is of a day.
LEMMA DayIsTyped ==
  ASSUME NEW d \in Days
  PROVE d # NoDay => d \in Nat
<1>1. \A e \in Epochs : DayOf(e) \in Nat
  BY DaysRise DEF Epochs
<1> QED BY <1>1 DEF Days

LEMMA GpsInputTypesInit ==
  ASSUME Init
  PROVE TypeOK
<1>1. now \in Epochs /\ offset \in Offsets /\ handledAt \in Epochs
  BY ZeroIsAnEpoch DEF Init
<1>2. heard \in Epochs \cup {Never} /\ day \in Days
  BY DEF Init, Days
<1>3. inbox \in Seq(Sentences)
  BY EmptySeq DEF Init
<1>4. fix \in Anchors
  BY ZeroIsAnEpoch DEF Init, Anchors
<1>5. ready \in BOOLEAN
  BY Zenon DEF Init
<1>6. updated \in WallTimes /\ lastSend \in WallTimes /\ lastStamp \in Nat
  BY ZeroIsAnEpoch DEF Init
<1>7. frame \in Injections
  BY ZeroIsAnEpoch DEF Init, Injections
<1>8. upsets \in UpsetCounts /\ Upset <= MaxUpsets
  BY DEF Init, UpsetCounts, Upset
<1>9. ThreadTyped
  <2>1. connected \in BOOLEAN /\ configured \in BOOLEAN
    BY Zenon DEF Init
  <2> QED BY <2>1 DEF Init, ThreadTyped
<1> QED BY <1>1, <1>2, <1>3, <1>4, <1>5, <1>6, <1>7, <1>8, <1>9
       DEF TypeOK, Anchors, Injections, UpsetCounts, ThreadTyped

\* A fix without a time keeps the base and the wall time of the one before it.
LEMMA NoTimeTyped ==
  ASSUME NEW f \in Anchors, NEW e \in Epochs
  PROVE [f EXCEPT !.present = FALSE, !.epoch = e] \in Anchors
<1>1. PICK g : g = [f EXCEPT !.present = FALSE]
  OBVIOUS
<1>2. g \in Anchors
  BY <1>1 DEF Anchors
<1>3. [g EXCEPT !.epoch = e] \in Anchors
  BY <1>2 DEF Anchors
<1> QED BY <1>1, <1>3, Zenon

LEMMA FixIsTyped ==
  ASSUME TypeOK, NEW s, s.epoch \in Epochs
  PROVE FixOf(s) \in Anchors
<1>1. CASE s.timed /\ day # NoDay
  <2>1. FixOf(s) = [present |-> TRUE, base |-> GpsTime(day, s.epoch), wall |-> Wall, epoch |-> s.epoch]
    BY <1>1, Zenon DEF FixOf
  <2>2. GpsTime(day, s.epoch) \in Nat
    <3>1. day \in Nat /\ s.epoch \in Nat
      BY <1>1, DayIsTyped DEF TypeOK, Epochs
    <3>2. TimeOfDay(s.epoch) \in Nat
      BY <3>1 DEF TimeOfDay
    <3>3. day * Day \in Nat
      BY <3>1
    <3> QED BY <3>2, <3>3 DEF GpsTime
  <2> QED BY <2>1, <2>2, WallIsTyped DEF Anchors
<1>2. CASE ~(s.timed /\ day # NoDay)
  <2>1. FixOf(s) = [fix EXCEPT !.present = FALSE, !.epoch = s.epoch]
    BY <1>2, Zenon DEF FixOf
  <2>2. fix \in Anchors
    BY DEF TypeOK, Anchors
  <2> QED BY <2>1, <2>2, NoTimeTyped, Zenon
<1> QED BY <1>1, <1>2

LEMMA HandleTyped ==
  ASSUME TypeOK, HandleSentence
  PROVE TypeOK'
<1>1. inbox \in Seq(Sentences) /\ inbox # <<>> /\ inbox' = Tail(inbox)
  BY DEF TypeOK, HandleSentence
<1>2. Head(inbox) \in Sentences /\ inbox' \in Seq(Sentences)
  BY <1>1, HeadTailProperties
<1>3. UNCHANGED <<now, offset, connected, configured, loop, sleep, heard,
                  lastSend, lastStamp, frame, upsets>>
  BY DEF HandleSentence, thread
<1>4. CASE ParseRmc(Head(inbox))
  <2>1. day' \in Days
    <3>1. Head(inbox).date \in Days
      BY <1>2, <1>4 DEF ParseRmc, Sentences
    <3> QED BY <1>4, <3>1 DEF ParseRmc, TypeOK
  <2>2. UNCHANGED <<fix, ready, updated, handledAt>>
    BY <1>4 DEF ParseRmc
  <2> QED BY <1>2, <1>3, <2>1, <2>2 DEF TypeOK, Upset
<1>5. CASE ParseGga(Head(inbox))
  <2>1. Head(inbox).epoch \in Epochs
    BY <1>2 DEF Sentences
  <2>2. fix' \in Anchors
    BY <1>5, <2>1, FixIsTyped DEF ParseGga
  <2>3. ready' \in BOOLEAN /\ updated' \in WallTimes /\ handledAt' \in Epochs /\ day' = day
    BY <1>5, WallIsTyped DEF ParseGga, TypeOK
  <2> QED BY <1>2, <1>3, <2>2, <2>3 DEF TypeOK, Upset, Anchors
<1> QED BY <1>4, <1>5 DEF HandleSentence

LEMMA InjectTyped ==
  ASSUME TypeOK, Inject
  PROVE TypeOK'
<1>1. fix \in Anchors /\ frame \in Injections /\ lastStamp \in Nat /\ now \in Epochs
  BY DEF TypeOK, Anchors, Injections
<1>2. Stamp \in Nat
  <2>1. PICK w \in Int : w = Wall
    BY WallIsTyped
  <2>2. fix.wall \in Int
    <3>1. \A n \in Epochs, o \in Offsets : n + o \in Int
      BY DEF Epochs
    <3>2. WallTimes \subseteq Int
      BY <3>1 DEF WallTimes
    <3> QED BY <1>1, <3>2 DEF Anchors
  <2>3. Larger(0, Wall - fix.wall) \in Nat
    BY <2>1, <2>2 DEF Larger
  <2>4. PICK m \in Nat : m = Larger(0, Wall - fix.wall)
    BY <2>3
  <2>5. fix.base + m \in Nat
    BY <1>1, <2>4 DEF Anchors
  <2> QED BY <1>1, <2>4, <2>5 DEF Stamp, Larger
<1>3. lastSend' \in WallTimes /\ lastStamp' \in Nat
  BY <1>1, <1>2, WallIsTyped DEF Inject
<1>4. frame' \in Injections
  <2>1. PICK b \in BOOLEAN : b = (fix.base = fix.epoch)
    OBVIOUS
  <2>2. PICK t \in Nat : t = IF fix.present THEN Stamp ELSE 0
    BY <1>2
  <2>3. PICK p \in Nat : p = IF frame.stamped THEN frame.stamp ELSE frame.previous
    BY <1>1 DEF Injections
  <2>4. fix.epoch \in Epochs \cup {Never} /\ fix.present \in BOOLEAN
    BY <1>1 DEF Anchors
  <2>5. frame' = [stamp |-> t, at |-> now, gga |-> fix.epoch, based |-> b,
                  stamped |-> fix.present, previous |-> p]
    BY <2>1, <2>2, <2>3, Zenon DEF Inject
  <2> HIDE <2>2, <2>3
  <2> QED BY <1>1, <2>4, <2>5 DEF Injections
<1>5. UNCHANGED <<now, offset, connected, configured, loop, sleep, heard, inbox, day, fix, ready,
                  updated, handledAt, upsets>>
  BY DEF Inject, thread
<1> QED BY <1>3, <1>4, <1>5 DEF TypeOK, Injections, Upset

\* A step of the clock or a damaged date while there may be one more.
LEMMA UpsetsTyped ==
  ASSUME NEW u \in UpsetCounts, u.clock + u.date < MaxUpsets, NEW v,
         v = [u EXCEPT !.date = @ + 1] \/ v = [u EXCEPT !.clock = @ + 1]
  PROVE v \in UpsetCounts /\ v.clock + v.date <= MaxUpsets
  BY DEF UpsetCounts

LEMMA ReceiveTyped ==
  ASSUME TypeOK, Receive
  PROVE TypeOK'
<1>1. now \in Epochs /\ inbox \in Seq(Sentences) /\ upsets \in UpsetCounts
  BY DEF TypeOK, UpsetCounts
<1>2. Rmcs \in SUBSET Sentences /\ Damaged \in SUBSET Sentences /\ Ggas \in SUBSET Sentences
  <2>1. {NoDay, DayOf(now)} \subseteq Days /\ WrongDays \subseteq Days
    BY <1>1 DEF Days
  <2> QED BY <1>1, <2>1 DEF Rmcs, Damaged, Ggas, Sentences
<1>3. /\ heard' \in Epochs /\ UNCHANGED <<now, offset, connected, configured, loop, sleep>>
      /\ UNCHANGED state
  BY <1>1 DEF Receive, thread
<1>4. inbox' \in Seq(Sentences) /\ upsets' \in UpsetCounts /\ Upset' <= MaxUpsets
  <2>1. PICK r \in Rmcs \cup Damaged, g \in AtMostOne(Ggas) :
          /\ inbox' = inbox \o <<r>> \o g
          /\ \/ UNCHANGED upsets
             \/ Upset < MaxUpsets /\ upsets' = [upsets EXCEPT !.date = @ + 1]
    BY DEF Receive
  <2>2. <<r>> \in AtMostOne(Rmcs \cup Damaged) /\ Rmcs \cup Damaged \in SUBSET Sentences
    BY <1>2 DEF AtMostOne
  <2>3. inbox' \in Seq(Sentences)
    BY <1>1, <1>2, <2>1, <2>2, AppendedTwice
  <2>4. upsets' \in UpsetCounts /\ Upset' <= MaxUpsets
    <3>1. CASE UNCHANGED upsets
      BY <1>1, <3>1 DEF TypeOK, Upset
    <3>2. CASE Upset < MaxUpsets /\ upsets' = [upsets EXCEPT !.date = @ + 1]
      BY <1>1, <3>2, UpsetsTyped DEF Upset
    <3> QED BY <2>1, <3>1, <3>2
  <2> QED BY <2>3, <2>4
<1> QED BY <1>3, <1>4 DEF TypeOK, UpsetCounts, state

LEMMA TurnsTyped ==
  ASSUME TypeOK, TurnClosed \/ TurnConfigures \/ TurnReads \/ TurnEnds \/ LineLost
  PROVE TypeOK'
<1>1. /\ UNCHANGED <<now, offset, heard, upsets>> /\ UNCHANGED state
  BY DEF TurnClosed, TurnConfigures, TurnReads, TurnEnds, LineLost
<1>2. inbox' \in Seq(Sentences)
  <2>1. inbox' = inbox \/ inbox' = <<>>
    BY DEF TurnClosed, TurnConfigures, TurnReads, TurnEnds, LineLost
  <2>2. inbox \in Seq(Sentences)
    BY DEF TypeOK
  <2>3. <<>> \in Seq(Sentences)
    BY EmptySeq, Zenon
  <2> QED BY <2>1, <2>2, <2>3, Zenon
<1>3. connected' \in BOOLEAN /\ configured' \in BOOLEAN
  <2>1. connected \in BOOLEAN /\ configured \in BOOLEAN
    BY DEF TypeOK
  <2> QED BY <2>1, Zenon DEF TurnClosed, TurnConfigures, TurnReads, TurnEnds, LineLost
<1>4. loop' \in {"polled", "closed", "configuring", "reading"} /\ sleep' \in 0..MaxLatency
  BY DEF TypeOK, TurnClosed, TurnConfigures, TurnReads, TurnEnds, LineLost, Sleeps
<1> QED BY <1>1, <1>2, <1>3, <1>4 DEF TypeOK, Upset, state

LEMMA ClockTyped ==
  ASSUME TypeOK, Tick \/ StepClock
  PROVE TypeOK'
<1>1. CASE Tick
  <2>1. /\ now' \in Epochs /\ sleep' \in 0..MaxLatency
        /\ UNCHANGED <<offset, connected, configured, loop, heard, inbox, upsets>> /\ UNCHANGED state
    BY <1>1 DEF Tick, TypeOK, Epochs
  <2> QED BY <2>1 DEF TypeOK, Upset, state
<1>2. CASE StepClock
  <2>1. /\ offset' \in Offsets /\ UNCHANGED <<now, connected, configured, loop, sleep, heard, inbox>>
        /\ UNCHANGED state
    BY <1>2 DEF StepClock, thread
  <2>2. upsets \in UpsetCounts /\ Upset < MaxUpsets /\ upsets' = [upsets EXCEPT !.clock = @ + 1]
    BY <1>2 DEF TypeOK, UpsetCounts, StepClock
  <2>3. upsets' \in UpsetCounts /\ Upset' <= MaxUpsets
    BY <2>2, UpsetsTyped DEF Upset
  <2> QED BY <2>1, <2>3 DEF TypeOK, UpsetCounts, state
<1> QED BY <1>1, <1>2

\* GpsInputTask: what its variables hold. Here TypeOK needs no strengthening: a GPS time is
\* no less than zero because a fix has a day only after an RMC has named one.
THEOREM TypeCorrect == Spec => []TypeOK
<1>1. TypeOK /\ [Next]_vars => TypeOK'
  <2> SUFFICES ASSUME TypeOK, [Next]_vars PROVE TypeOK'
    OBVIOUS
  <2>1. CASE UNCHANGED vars
    BY <2>1 DEF vars, thread, TypeOK, Upset
  <2> QED BY <2>1, TurnsTyped, HandleTyped, InjectTyped, ReceiveTyped, ClockTyped DEF Next
<1> QED BY <1>1, GpsInputTypesInit, PTL DEF Spec
=============================================================================
