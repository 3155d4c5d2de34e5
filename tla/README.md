# anav-mags-calculator: a TLA+ model

The program runs on a companion computer aboard a drone. It takes the sentences
of a magnetometer board from one serial line, talks MAVLink with the autopilot
over another line or over TCP, feeds the autopilot with positions from a GPS
receiver of its own, and writes what the board measures to a log. This directory
holds a TLA+ model of it, the TLC runs that check the model, and the proofs that
TLAPS checks. `PROJECT.json` maps every definition to the lines it was written
from, and lists the runs, the mutants that show that a property can fail, the
hazards of the code and the theorems.

Paths below are relative to `src/`; `ML` stands for `src/src/mags-logger/`.

## 1. The system

### Threads

| thread | loop | what it does |
|---|---|---|
| main | `main.cpp`, for ever, `usleep(100)` between turns | reads and writes the board's line (`NmeaSentenceReader`), then the autopilot's connection (`MavlinkProvider`); every handler of a sentence or a message runs here |
| logger | `MagsLogger::loop` | status reports, the log's rows, the CCR requesters, `GPSOnOffSwitcher::loop`, `GpsSourceSwitcher::loop` |
| GPS input | `GpsInputTask::loop` | owns the GPS receiver's line: configures it, parses NMEA, injects `GPS_INPUT` |
| calculator | `MagsCalculator::loop` | takes full windows of records |

Three mutexes exist in all: one in `MavlinkProvider` around its send queue, one in
`NmeaSentenceReader` around its one-sentence send buffer, and one in
`MagsCalculator` that only the main thread ever takes. Everything else the
threads share, they share bare. That is the largest source of hard behaviour in
this program; the second is that every exchange with the autopilot, the board
and the receiver is a message that may be lost, retried and answered late.

### Components

| component | state | operations | talks to | what makes it correct |
|---|---|---|---|---|
| GPS on/off switcher (`ML gps_on_off_switcher`) | request type and result, EKF source set seen, a setter, a trigger | request ON/OFF, PARAM_VALUE, STATUSTEXT, loop | autopilot; status word | a request is shown, retried within its budget, answered in its own name, never forgotten |
| Parameter setter, time trigger, command requester | value, time of the last send, tries left, confirmed | arm, loop, answer | their owners | tries stay in range across threads; no send after the end |
| GPS source switcher (`ML gps_source_switcher`) | requested source, two setters, the two parameters as last reported | request, PARAM_VALUE, loop with read-back | autopilot; status word | both parameters confirmed or tried to the end; what is shown follows the autopilot |
| CCR setting (`ML mags_logger`, `utils/command_requester`) | GET and SET requesters, the CCR received | set, `$MAG,CCR` reply, loop | board, log | a confirmed CCR is the board's, polling ends |
| Board's sentence reader (`ML nmea_sentence_reader`) | receive buffer, a one-sentence send buffer | receive, send, process | line | framing: damage to one sentence does not reach the next; a refused sentence is known to its sender |
| Detection and records (`ML mags_logger`) | detected, a counter per second, two times | sentence, restart each second | calculator, status word | a sentence is recorded field by field; what is shown is recent |
| Flight log (`ML mags_logger`, `ML mags_dispatcher`) | latest sentence, position, attitude with their flags; log file | receive, start, stop, write a row | both threads | rows are moments of the flight, in order; a start that is not cut loses none |
| Calculator (`ML mags_calculator`) | two vectors | push, swap, clear | both threads | windows are whole and in order though test and clear take no lock |
| GPS injection (`ML gps_input_task`) | fix, date, wall-clock times, last stamp | sentence, inject | receiver, autopilot | stamps never go back, no stale fix, steady cadence |
| GPS line and configuration (`connection/com_connection`, `ML gps_input_task`) | descriptor, result, baud, `configured` | connect, setPort, configure, read | receiver | module and line end at one speed; descriptors do not leak |
| CSV parser (`utils/CsvParser`) | cursor | next value, next line | all sentence handlers | each call gives the next field |
| MAVLink provider (`mav/mavlink_provider`), MAVLink library | send queue under a mutex, addresses heard; the peer's byte parser | send, read, process one message a turn | connection | nothing twice or out of order; a sender is never kept; damage is local |
| Serial and TCP connection (`connection`) | descriptor or socket, whether connected | connect, read, write | the three lines | the main thread, which serves the board too, is not held |
| Task base, status word | running flag; bits | | | see section 6 |

Configuration, IP query, logging macros, the unused geometry of `common/location`,
one-line helpers and everything under `lib/` keep no state the program's
behaviour turns on; they are listed in `PROJECT.json` as not modelled.

### Hard behaviour

* The main and the logger thread interleave inside handlers: `GPSOnOffSwitcher`,
  `GpsSourceSwitcher`, the flags and buffers of the log, `startLogging` on both.
* Retries against late, lost and stale answers: PARAM_SET, DO_AUX_FUNCTION, `$MAG,SET`.
* Two ends of a line that change their speed one after the other, with any call failing.
* GPS time from two sentences, over midnight, with a wall clock that can be stepped.
* A raw struct of 291 bytes is written for each MAVLink message, whole or in part; the peer's
  parser has to find the frame in it.
* One thread serves the board and the autopilot: where one of them blocks, the other waits.
* A sentence with a part lost or unreadable, and a counter restarted by one thread while the other adds to it.
* A vector tested and cleared without the lock under which it is swapped, in the middle of a swap too.
* A parser that reads through a null pointer when asked for more than there is, behind readers that strip
  the line end it would stop at.

The list with lines is `hazards` in `PROJECT.json`.

## 2. Modules

| module | models | a step is |
|---|---|---|
| `Retry` | operators on the retry objects: `ParamSetter`, `CommandRequester`, `TimeTrigger` | |
| `GpsRequest` | abstract: what the status word promises of a GPS ON/OFF request | |
| `GpsOnOff` | `GPSOnOffSwitcher` with its setter and trigger, both threads | one access to a shared field |
| `GpsOnOffProofs` | theorems about it | |
| `GpsSource` | `GpsSourceSwitcher`, the link and the autopilot's two parameters | a setter's call, an access to `requestedSource`, a message |
| `GpsSourceProofs` | theorems about it | |
| `CcrLink` | CCR setting, the send buffer, the line and the board, the start of a log by either thread | a requester's turn, a handler, one of the steps of `startLogging`, a sentence on the line |
| `CcrLinkProofs` | theorems about it | |
| `MagsLog` | the values handed to the log, its rows, its start and stop | one access to what is shared |
| `MagsLogProofs` | theorems about it | |
| `MagsWindow` | the calculator's two vectors | one statement; `swap()` is two writes, in either order, and `clear()` a read and a write |
| `MagsBoard` | composes: framer, handler and detection, in front of `MagsWindow` | a sentence on the line, a statement of the handler or of `restart()`, a step of `MagsWindow` |
| `MagsProofs` | theorems about the two above and about `CsvLine` | |
| `MavFrame` | operators: the struct a message is sent as, and the peer's byte parser on it | |
| `LossyFifo` | abstract: what a link promises to those who send over it | |
| `MavLink` | composes: `MavlinkProvider`, its senders, the connection, and `MavFrame` at the other end | taking or releasing the mutex, a read, a write |
| `MavLinkProofs` | theorems about it | |
| `GpsInput` | GPS time, staleness and timer of the injection, over the thread's sleeps and a line that closes and opens | a sentence, an injection, the end of a turn, a tick of a sleep |
| `GpsInputProofs` | theorems about it | |
| `GpsSerial` | `ComConnection` under `GpsInputTask` | a system call |
| `GpsSerialProofs` | theorems about it | |
| `CsvLine` | `CsvParser` on a buffer | a call |

Each `MC...` module extends its component for TLC; `MCCsvLine` and `MCGpsInput` define the
values of constants. `GpsOnOff` instantiates `GpsRequest` with the refinement mapping. `GpsOnOff`, `GpsSource` and `CcrLink` extend `Retry`, `MavLink` extends
`MavFrame` and instantiates `LossyFifo`, `MagsBoard` extends `MagsWindow`. `GpsSource` and
`CcrLink` have links that lose and never reorder; for the autopilot's link, `LossyFifo` is that
assumption, and `MavLink` is shown to implement it.

Each module with a state of its own has a `TypeOK` (`BoardTypeOK`, `CsvTypeOK`) that says what its
variables hold, and section 4 proves each of them. Of the runs only `gps_threads` checks it, because two
threads race on its counts.

How state and actions correspond to code:

* **Variables** carry the names of the fields where the code has them; variables
  called `tally`, `seen`, `came`, `history`, `upsets` or `cut` and the fields
  marked *history* are read by properties and bounds only.
* **A stamp in milliseconds is an age**: ticks since the stamp, up to the timeout, past
  which nothing in the code tells ages apart (`Retry`). A stamp of 0, which the code
  uses for "at once", is an age that is old enough; this is exact from one timeout
  after the start of the machine on.
* **A thread** is a program counter. `GpsOnOff` splits each load, use and store of a
  field the other thread writes, because a decrement of `sendCountLeft` can be lost;
  `GpsSource` and `CcrLink` then treat a setter's call as one step and look at the
  protocol around it. Interleaving is sequentially consistent: the fields are plain
  `int`s, `bool`s and small structs, so strictly their races are undefined; the model
  takes what compiled code does on the machines this runs on. A `std::string` or a
  sentence under assignment is taken as whole.
* **MAVLink messages** count as sent when queued and may be lost afterwards, except in `MavLink`. The autopilot, the
  board, the receiver and the lines are modelled from how the code uses them and are marked
  `external` in the map.
* Definitions below a comment `Fault:` are the mutants' bodies: a plausible bug in the
  definition beside them. No specification uses one.

In `MavFrame` a byte of a struct is the *set* of values it may have, and `Outcomes` runs the parser on
all of them at once: what a struct does to the peer is the set of states it can leave the parser in, and
whether the frame arrived. From the flags of a header on, the parser only counts; it is kept as that count.

In `MagsWindow` a vector is the place it starts at and the place it finishes at, which is all that `empty()` and
`clear()` look at. `swap()` exchanges the two one after the other (the third pointer, the capacity, no one on the
other side reads), and the calculator may be anywhere in its turn meanwhile. That is undefined behaviour; the model
takes both orders in which a compiler or a processor may let the writes be seen, and no other effect.

In `MagsBoard` a part of a sentence is the text from a comma to the next, and carries whether it is from
the latest sentence: so a property can say that what is recorded is what was sent, and when. The time and each of the
six axes is a part; the fields behind the accelerometer's time are one. With fewer parts than the handler
asks for, the program may end (`handler.at = "null"`).

`GpsInput`'s thread sleeps as `GpsInputTask::loop` has it: a poll after a turn on an open line, longer after one on
a closed line, and for as long as the receiver's configuration takes. Time passes in these sleeps only, so how late a
sentence is handled is what the sleeps come to.

`GpsInput` keeps the wall clock (`now + offset`) apart from true time, because every time
stamp in the program comes from `gettimeofday`. The other modules assume a clock that is
not stepped.

## 3. Runs

`tlc -config <cfg> <module>` for each; all bounds are in the cfg.

| run | module, cfg | properties | what it shows |
|---|---|---|---|
| `gps_threads` | `MCGpsOnOff`, `...Threads` | `TypeOK` `NotForgotten` `RetryBudget` `NoEarlyFailure` `LatestRequestWins` | two requests of either kind, all messages and the loop, interleaved access by access |
| `gps_promise` | `MCGpsOnOff`, `...Turns` | `PromiseKept` | with whole handlers and turns `GpsOnOff` implements `GpsRequest`, liveness included |
| `gps_source` | `MCGpsSource` | `AskedToTheEnd` `ConfirmedWasHeld` | two switches, or one and a change from outside; two tries, a lossy link with two answers on their way, the loop's turns anywhere |
| `gps_source_live` | `MCGpsSource`, `...Live` | `ReportStaysAccurate` `RequestsEnd` | two switches, or one and a change from outside; two tries, the loop's turns anywhere, a request between its test and its clear among them: the read-back follows every change; requests end |
| `ccr_link` | `MCCcrLink` | `ConfirmedIsSet` `LogNamedAfterCcr` `PollingEnds` | two CCRs asked for, the three senders of a turn in one buffer, losses both ways; logs started, restarted and stopped by both threads, with replies between the steps of a start |
| `mags_log` | `MCMagsLog` | `NoRowFromNothing` `SentenceKeepsUp` `RowIsOneMoment` `StoppedStaysStopped` `WholeStartsWrite` | three sentences, a position, an attitude, three commands, all interleavings |
| `mags_window` | `MCMagsWindow` (`MagsBoard`) | `WindowsInOrder` `NeverTorn` `WindowTakenInTime` `WholeSentenceRecorded` `StatusIsRecent` | two windows of six records and three more, at the highest rate the assumption admits, with the calculator anywhere within a swap; one part of a sentence lost or unreadable, one sentence without magnetometers, anywhere; the board may fall silent |
| `mav_link` | `MCMavLink` | `DamageIsLocal` `IsFifo` `SendersReturn` `QueueMoves` `BoardServed` | two senders and the main thread, three messages, a serial line or a socket in every state, one write cut short |
| `gps_input` | `MCGpsInput` | `StampsNeverGoBack` `StampIsClose` `NoFrozenPositionUnstepped` `Cadence` | two midnights, sentences lost and late, the line lost and opened again, the receiver configured, one damaged date or clock step anywhere |
| `gps_input_frozen` | `MCGpsInput`, `...Frozen` | `NoFrozenPosition`, violated | finding 1 |
| `gps_serial` | `MCGpsSerial` | `ConfiguredIsInTune` `DescriptorsBounded` `ComesIntoTune` | any four calls fail, the module restarts twice |
| `csv_fields` | `MCCsvLine` | `FieldByField` `ValueIsField` `NothingFoundKeepsValue` `SafeWithinLine` | all texts of four characters of fields and five of lines, all sequences of three calls |

### Why the bounds are enough

* *Retries* (`RepeatCount`, `Tries`, `Timeout` of 1 to 3): the code compares a count with
  zero and an age with a timeout; two tries give a first, a last and a step between.
  `MaxRequests = 2` (`MaxEvents = 2` of `GpsSource`) gives a request that overtakes one under way, with whatever it left
  behind; a third finds nothing a second could not.
* *Links* hold one or two messages: enough for one answer of a request before and one
  of the latest; order is kept, loss is free.
* *`mags_log`*: a sentence written, one that arrives meanwhile and one after; three
  commands are start, stop and an arming in any order.
* *`gps_source`*: `Recorded` says whether the history of a request is kept, which only the safety properties
  read; without it many states are one. `MaxEvents = 2` leaves both runs two requests, one request and one change
  on the autopilot, or two such changes. `gps_source_live` so has the two tries and two requests it needs: the
  last try of the first request is not the first, and the second may come between test and clear. Nothing
  but the history depends on it.
* *`mags_window`*: `Window = PerTick * (Idle + 1)` is equality in the assumption, the
  hardest rate it admits; with only `PerTick * Idle <= Window` (a window of four) TLC finds `WindowsInOrder` and
  `NeverTorn` violated. Two windows let each vector be the full one once, and the three records behind them
  reach into a third. The theorems drop all of these bounds.
  `Second` equals `Idle` because both are one second in the code; one damaged part and one silent
  sentence are enough for a record to take up what another left behind, and records enough remain for
  the framer to have recovered.
* *`mav_link`*: `MaxByte = 4` stands for 255. The two markers are the two values below it, as 253 and
  254 are to 255, and payloads of 1 and 2 make lengths that are an ordinary byte and a marker; the
  fixed lengths of header, trailer and unused rest are the code's. So a false frame may be shorter or
  longer than what is left of its struct, which is what decides how far damage goes. `Cuts` stop a
  write before the frame, within it and behind it. `DamageIsLocal` needs three messages: two in a row after one
  that did damage. One failed write is one cause of it; a second is a third message in disguise.
* *`gps_input`*: days of two ticks and `MaxTime = 5` give midnights at 2 and 4. A poll, a period and a
  configuration of at most one tick and a reconnection of two make a sentence up to `MaxLatency = 3` late, so it
  may be handled on the day after its own. `Stale = 2` is longer than the period. Clock steps go both ways
  by a day or more, damaged dates lie before and after the true ones. 7.5 million states.
* *`gps_serial`*: four faults let open, attributes, write and `setPort` fail in one run, or
  one of them four times; there is no counter in the code that would need more.
* *`csv_fields`*: the parser remembers a position and three flags; three calls are one to get
  there, one to read and one to read after it. One character stands for each class the
  code tells apart.

Deadlock is checked except where the run ends by its bound on time (`GpsInput`), where
the caller stops asking or has read the null pointer (`CsvLine`), and where the program may end: in `MavLink`
by `sigpipeHandler`, in `MagsBoard` at a sentence that is too short.

### Fairness

| specification | assumed | why |
|---|---|---|
| `GpsOnOff!FairSpec` | WF handler, SF loop, WF tick | threads run on and the clock advances. SF: with whole handlers a flood of messages would shut the logger thread out of the model, not of the machine. Nothing is owed by the ground station or the autopilot |
| `GpsSource!FairSpec` | WF main, loop, tick, and the plane's first heartbeat; SF on an answered read-back of each parameter | what is shown can only follow an autopilot that sometimes answers a question put over and over. `RequestsEnd` needs no answer |
| `CcrLink!FairSpec` | WF turn and tick | the logger thread runs; nothing is owed by the line or the board |
| `MavLink!FairSpec` | WF main thread, SF on each sender's `PushBack` | the main thread turns and what is written is taken; a mutex that is free again and again is got in the end, which the code needs because it takes it anew each turn. Nothing is owed by the autopilot, hence the condition on a silent one |
| `GpsSerial!Spec` | WF of the task, finitely many faults | `ComesIntoTune` says what happens once calls stop failing |

## 4. Proofs

Checked by TLAPS, for every value of the constants that meets the named assumptions.

`GpsOnOffProofs`, under `RetryAssumption` (counts and timeout are positive naturals):

* `TypeCorrect`: `Spec => []TypeOK`. Two threads decrement and re-arm the counts with no lock,
  and a lost update could drive a finite `TimeTrigger` count to -1, which the code reads as
  "for ever". `TypeOK` is not inductive: the verdict of the loop has a value only for a
  request with a direction, so `TypeInv` adds `TurnHasRequest`.
* `NeverForgotten`: `Spec => []NotForgotten`, and `TriesBounded`: `Spec => []RetryBudget`. Both
  follow from `RequestInv = TypeInv /\ (Undisturbed => Alone /\ Counted)`. `Alone` says
  that beside the handler of an undisturbed request the loop is at rest, and that the type is
  cleared only behind a verdict. `Counted` says that tries made and tries left add up to
  `RepeatCount`, with one more between a send and the store of its decrement, and that the
  two registers that hold the count are current. Without the registers the sum is not
  inductive: a stale one would bring tries back.
* `FailsOnlyInTheEnd`: `Spec => []NoEarlyFailure`, and `LatestWins`: `Spec => []LatestRequestWins`, from
  `OutcomeInv`, which strengthens `RequestInv`. `Latest`: whatever of an earlier request is still in a field, a
  register or a setter, the handler of the undisturbed one is about to replace. `Tries` and `Repeats`: tries
  made and left add up to `RepeatCount` exactly, and repeats of the aux function likewise until the plane
  reports. `Exhausted`: a request that is over has none of either left.
* `PromiseIsKept`: `Spec => Promise!Init /\ [][Undisturbed => [Promise!Next]_(Promise!vars)]_vars`, whatever the
  interleaving: as long as no turn of the loop has cut the handler of the latest request, every step is
  one of `GpsRequest` or a stutter, by way of `Shown`, which says what the status word shows at each place
  of the handler and the loop while the other thread is anywhere. A cut handler can break the promise (section 5),
  so this is what the code keeps. `WholeTurnsImplement` draws from it the safety half of `PromiseKept` for
  `Preempt = FALSE`, under which no handler is cut. The eventual answer is liveness and stays with TLC.

`GpsSourceProofs`, under `GpsSourceAssumption`, for links of any length:

* `GivenUpAtTheEnd`: `Spec => []AskedToTheEnd`, and `ConfirmedMeansHeld`: `Spec => []ConfirmedWasHeld`, from
  `SourceInv`, most of which is about requests no turn has cut (`Asked`). `Exhausting`: the handler of a request that no turn cut has both setters to itself, and behind it
  tries made and left add up to `RepeatCount`. `Held`: what the autopilot had at any time since the request, or
  what an answer given since says, counts as held, so a setter confirmed by such an answer is confirmed
  rightly. Answers from before the request are left out of `Held` because the code cannot tell them apart.

`MagsProofs`, about the calculator alone, under `MagsWindowAssumption` and `RateAssumption`
(`PerTick * (Idle + 1) <= Window`: a window does not fill during the longest sleep and the tick
it ends in):

* `ClearIsSafe` (`NeverTorn`), `RecordsKeepTheirPlaces` (`WindowsInOrder`) and `WindowIsPrompt`
  (`WindowTakenInTime`) follow from `WindowInv`. Its heart is `TimeIsLeft`: behind a full window
  that has waited `age` ticks there are fewer than `PerTick * age + tick` records, and age and
  remaining sleep together are at most `Idle`. So no second window is full before the first
  is cleared, and `InPlace` gives each record its number. This does not keep the calculator out of a swap: its
  test may find one pointer exchanged, and its clear then begin, end or do both before the other is. `Bounds` follows
  each such overlap. With the writes in the order of the source, a clear within the swap takes nothing or
  the whole window, and the vector keeps its bounds. With the order turned round, a test between the two
  lets the clear leave the vector ending before it starts, until the next swap gives it new bounds; `history.met`
  marks that case, which `NeverTorn` leaves out and `WindowsInOrder` does not.
  The assumption is what the code counts on without saying so: the shipped window of 1024 meets
  it by far, a small `mags/windowSize` does not.

`MagsProofs`, about the board in front of it, under the same assumptions and `MagsBoardAssumption`:

* `StatusIsAboutThreeSeconds` (`StatusIsRecent`). Nothing in the code says three seconds: the detection looks
  at its time only when a sentence comes, and the counter of the second before is shown for
  another. `StatusInv` bounds the age twice, behind a counter that is still counting and behind one that is
  shown, and each bound moves by what has passed since the restart. The step between the two
  assignments of `restart()` needs a bound of its own, since the time is reset first.

`MavLinkProofs`, under `MavLinkAssumption` and `MavFrameAssumption`:

* `ProviderIsFifo`: `Spec => IsFifo`. For all senders, numbers of messages, connections, lengths and bytes,
  the provider implements `LossyFifo`: a message leaves once, in order, and arrives then or never. `LinkInv`
  says that the main thread writes only behind a queue that is not empty (the mutex is held from the
  test on, so no other thread could have emptied it) and counts those still before the mutex.

`GpsSerialProofs`, under `GpsSerialAssumption`:

* `ConfiguredMeansInTune` (`ConfiguredIsInTune`), `OneDescriptorForEachFailedPort` (`DescriptorsBounded`),
  from `SerialInv = Types /\ Held /\ OnCourse /\ ConfiguredIsInTune`. `OnCourse` follows one
  configuration: it begins with the line at the first baud; whether or not the module hears
  the PRT frame there, it is at the operating baud afterwards; from `setPort` on both agree, and each
  setting is heard. `ConfiguredIsInTune` alone is not inductive, as it says nothing of a configuration
  half made.

`MagsLogProofs`, for any number of sentences, positions, attitudes and commands:

* `RowsAreFromSentences` (`NoRowFromNothing`) and `RowsKeepOrder` (`SentenceKeepsUp`), from
  `LogInv = Types /\ Stamped /\ RowsCounted /\ FixesCounted /\ InOrder`. A flag that is up counts as a row
  to come, and so does a main thread about to raise it: rows written, flags up and flags about to be add up to no
  more than what came. `Stamped` ties a sentence to its time, `InOrder` bounds the row being
  written by what is stored.
* `RowsAreOfOneMoment` (`RowIsOneMoment`), `StopIsKept` (`StoppedStaysStopped`) and `OpenFileWrites`
  (`WholeStartsWrite`), from `WholeInv`, which adds to `LogInv` what holds as long as handlers and turns were whole:
  the threads exclude each other (`Exclusive`), a file is opened only behind a close (`FileKept`), a stop leaves
  both threads away from the log (`StopKept`), values and times agree between handlers (`InStep`), and so
  do the columns of a row, but for the one between a time and its value (`RowInStep`).

`GpsInputProofs`, under `GpsInputAssumption`, however long the receiver runs:

* `StampsRiseForEver` (`StampsNeverGoBack`), `StampsAreTrue` (`StampIsClose`), `PositionsAreFresh`
  (`NoFrozenPositionUnstepped`) and `FramesKeepComing` (`Cadence`), from
  `GpsInputInv = Types /\ StampsRise /\ SleepBounded /\ InboxInTime /\ InboxInOrder /\ ClockKept /\ FramesDue /\ DatesKept`.
  `StampsRise` says that the last stamp sent is the largest, and holds whatever happens. `InboxInTime` says of
  each sentence that waits that it is in time still when the thread has slept out and configured the receiver. `ClockKept`
  holds until the clock is stepped and ties the timers to true time. `FramesDue` strengthens `Cadence` by what is
  left of the sleep: a turn that ends without a frame leaves the last one less than a period old, and the
  poll behind it adds its own length. `DatesKept` holds until a date is damaged as
  well: no sentence still on the line is from before the day the task has reached, so a sentence read across
  midnight can be dated too early and never too late.

`CcrLinkProofs`, under `CcrAssumption`:

* `ConfirmedMeansSet` (`ConfirmedIsSet`) and `LogHasConfirmedCcr` (`LogNamedAfterCcr`), from
  `CcrInv = Types /\ OnlyItsOwn /\ RepliesLast /\ Known /\ Logs`. After a request that found nothing of an earlier one in the
  buffer or on the line, only its own SET is ever there (`OnlyItsOwn`), so the board comes to its CCR once and
  keeps it; the replies that name it are the last on the line (`RepliesLast`), so none of the older ones can
  take a confirmation back (`Known`). `Logs` follows the start of a log: a name that was read is the CCR received
  last (`NamesCurrent`), and a file that is open, or about to count as started, has the CCR that was
  confirmed (`FileNamed`). A confirmation that comes while the logger thread has the name and has not
  yet set `logStarted` is left out (`seen.cut`), as it does leave the file with the CCR before it.

### What the later theorems add

**Sentences and text** (`MagsProofs`). The reader, `Dig` and the numbers of `CsvLine` are folds and recursive
functions over sequences, and what they compute is proved for sequences of every length. The library's
induction theorems take an operator as a parameter, which no prover here can instantiate. So the
induction goes over a *set*: `SetInduction` says that a set of naturals with 0 and every successor is all of
them, from the well-founded order of the naturals, and `FoldedExists`, `FoldedSteps` and `WorthExists` unfold the function behind
a fold into "the next value comes from the one before".

* `WholeSentenceIsKept` (`WholeSentenceRecorded`), from `ReaderInv`: behind the end of a sentence nothing is being
  collected, so a whole sentence is taken part for part from its `$` on (`WholeIsTaken`), whatever an earlier one left in the buffer;
  having all the parts the handler asks for, it is read to its end without the null pointer (`WholeIsRead`).
* `FieldsInOrder` (`FieldByField`), `ValuesAreFields` (`ValueIsField`), `DefaultsAreKept` (`NothingFoundKeepsValue`),
  `NullIsBeyondTheLine` (`SafeWithinLine`), from `CsvInv`, for every set of texts, every size of a buffer
  and any number of calls. `CursorIs` and `LineIsLeft` place the cursor in its line, behind as many commas as values have been given
  less one; so a value reaches from there to the next comma. A string is then compared with its field from both ends
  (`TrimmedIs`, `CutIs`). For a number the code adds digit by digit from the left, and `NumberOf` weighs them from the
  right; `ReadIsWorth` shows by induction that what has been read, times the place of what is left, plus what is left, is the same at every digit.

**Damage on a link** (`MavLinkProofs`). `DamageStaysLocal` (`DamageIsLocal`): for every payload length and every struct cut short, of
two structs in a row that were written whole and have no marker outside their magic the second one's message
arrives. `ParserInv` says that such a struct leaves the parser waiting for a frame, wherever it was before: a false
frame it came in the middle of is over before the struct is. From there the next such struct's frame is taken, byte by byte to its
CRC; the rest is behind it.

**Types** (`TypeCorrect` in each module of proofs, `BoardTypeCorrect`, `CursorTypeCorrect`). `TypeOK` is inductive in `GpsInput`, and
a conjunct of the invariant of `GpsSource`. Elsewhere it needs more, and what it needs says something of the code:

| module | needed besides |
|---|---|
| `GpsOnOff` | a turn of the loop has a request (`TurnHasRequest`), or the count of an endless trigger comes in |
| `GpsSerial` | no more `setPort`s have failed than calls |
| `CcrLink` | a SET that is not confirmed names a CCR, so nothing else can be sent or named in a log |
| `MagsLog` | what came is within its bounds, and behind `LogInv` no row holds more than came (`LogTypes`) |
| `MagsWindow` | there are fewer swaps than records (`WindowTypes`), behind the invariant of its other theorems |
| `MagsBoard` | what the reader has are parts (`ReaderInv`), and the restart's age is its own (`StatusInv`) |
| `MavLink` | a message is on the queue when it is written (`LinkInv`) |
| `CsvLine` | a digit's worth is a natural, and a value ends in the text (`CsvInv`) |

**Composition** (`MagsProofs`). Each step of `MagsBoard` is written as a step of `MagsWindow` or as one that leaves its
variables alone, so the lemma `BoardImplementsWindow` is short, and its corollary `WindowsHoldBehindTheBoard` carries what is
proved of `MagsWindow` to `MagsBoard`, where the run checks it. It says no more than that.

### What stays with TLC

Every safety invariant and every action property that a passing run checks is stated by a theorem. Only model-checked
are the liveness properties: the eventual answer in `PromiseKept`, `PollingEnds`, `RequestsEnd`,
`ReportStaysAccurate`, `ComesIntoTune`, `SendersReturn`, `QueueMoves` and `BoardServed`. Liveness under fairness and `ENABLED` are
out of this prover's reach. No module declares a RECURSIVE operator; `CsvLine`, `MavFrame` and `MagsBoard` use the folds of the
community modules and recursive functions.

## 5. Findings

1. **A clock that is stepped back lets an old position pass as fresh** (`gps_input_frozen`,
   `ML gps_input_task.cpp:158`). The age of the fix is a difference of wall-clock times. The
   comment at line 14 promises that injection stops when the receiver goes quiet.

What the properties leave out, because the code does not do it. Each was met while modelling, and
each shows as the qualification of a property, in a variable of the model, or as data the model leaves out:

* *A request cut by a turn of the loop* (`GpsOnOff`, `Undisturbed`): the loop can pass its test on the previous,
  finished setter between `gpsRequestedType = ...` and `setParam`, and then clears the new request, whose
  "in progress" stays. Hence `NotForgotten` is about handlers no turn cut.
* *A verdict may come in the turn of the last try* (`GpsOnOff`; `ML gps_on_off_switcher.cpp:94` and `:103`): the last aux
  function finishes the trigger, and the verdict is given behind it without waiting for an answer. `NoEarlyFailure`
  says that all tries were made, not that they were waited for.
* *A switch of the source that meets the loop between its test and its clear* (`GpsSource`, `Asked`;
  `ML gps_source_switcher.cpp:99`) ends with its tries unmade. `RequestsEnd` holds of it, `AskedToTheEnd` leaves it out.
* *The pair of parameters is shown torn between two answers* (`ML gps_source_switcher.cpp:37`): `ReportStaysAccurate` says that
  it comes right again. *An answer given before the request* confirms it as well (`GpsSource`, `stale`).
* *A CCR given up without having been sent* (`CcrLink`): `CommandRequester::loop` counts a try whether or not
  `send()` took the sentence (`command_requester.cpp:16`), and the GET goes first in every turn. Hence no
  property about a CCR that is given up.
* *A log named after the CCR before* (`CcrLink`, `seen.cut`; `ML mags_logger.cpp:245`): `startLogging` reads the CCR at line 330
  and sets `logStarted` at line 369. A confirming reply between the two finds the log not started and does not restart
  it, so the file that the logger thread opens has the old CCR in its name until the next start.
* *Two starts at once leave a log that drops every row* (`MagsLog`, `WholeStartsWrite` as long as `~cut`;
  `ML mags_logger.cpp:335`): a command and an armed heartbeat start the log on both threads, the second
  `open()` meets an open stream and sets its failbit, and the file counts as created.
* *A row's sentence may be newer than its time by any number* (`MagsLog`, `SentenceKeepsUp`): the row's time is read before the rest, and
  the main thread may store sentences in between. Only the other side is bounded. A sentence that is copied while
  it is written is one step in the model, so a row torn within a sentence is not told apart.
* *An attitude stored between two tests shifts the columns of a row* (`MagsLog`, `RowIsOneMoment` while handlers and turns were whole).
* *A configuration frame whose write failed counts as sent* (`GpsSerial`, `tally.lost`): `sendUbx` ignores the result.
* *A module that restarts by itself stays deaf* (`GpsSerial`, `tally.reset`): only a lost connection configures it again.
* *The send timer stands still after a step back* (`GpsInput`, `Cadence` until the first step).
* *No frame is sent for two seconds after every turn on a closed line* (`GpsInput`, `Cadence` at `loop = "polled"`;
  `ML gps_input_task.cpp:146`), though `connect()` may have succeeded in that turn, nor while the receiver is
  configured, which sleeps (lines 277 to 323).
* *GPS time stands still after midnight until an RMC comes* (`GpsInput`, `frame.based`): a GGA is dated by the RMC before it.
  The receiver sends RMC before GGA; one that does it the other way round would have each first GGA of a day
  dated back, and is not modelled.
* *A GGA without a position goes out with the position before it* (`ML gps_input_task.cpp:391`): latitude and longitude are
  kept, and every GGA counts as an update. Positions are payload in `GpsInput`, so its properties are about the age of the
  GGA.
* *A sentence that is too short ends the program* (`MagsBoard`, `handler.at = "null"`; `CsvLine`, `SafeWithinLine`; `utils/CsvParser.cpp:110`
  and `:135`): the parser returns a null line where no line end follows, and both sentence readers
  strip the line end (`ML nmea_sentence_reader.cpp:75`, `ML gps_input_task.cpp:182`). So a `$M` sentence with a checksum and a
  field too few, or one that ends in a comma, is read through null by its handler. `SafeWithinLine` says when a call
  does so; `WholeSentenceRecorded` says that a sentence that came whole does not.
* *A test of the vector between the two writes of a swap* (`MagsWindow`, `history.met`), if they were turned round, may leave the
  vector torn until the next swap. No lock excludes it, and no rate does.
* *A message written whole may still be lost on a line that loses nothing* (`MavLink`, `clean` in `DamageIsLocal`):
  `MavlinkProvider::processSend` writes the struct as it lies in memory, with its checksum in front of the
  magic and whatever is in the unused bytes behind the frame. One of those may look like the beginning of a
  frame and swallow the next message's. The checksum alone does so for about one message in sixty.
* *A message is off the queue whether or not it was written* (`MavLink`, `Pop`), and its result is not looked at.
* *A silent autopilot over TCP holds the board* (`MavLink`, `Silent`): `recv` is called whatever `select` found, and waits.
  A board that is itself on TCP (`mags/connection/type`) would hold the main thread likewise in
  `nmeaSentenceReader.process` (`main.cpp:127`, `connection/tcp_connection.cpp:106`); `BoardServed` is about one on a serial line.
* *A refused or closed socket ends the program* (`MavLink`, `exited`): the socket counts as connected, the write raises
  SIGPIPE and `sigpipeHandler` (`src/main.cpp:24`) exits. A serial port that was not there at the start is
  never opened again, and the queue, which has no limit, then grows for good.
* *A sentence after a lost line end is lost with the one before* (`MagsBoard`, `line.ended`): `receiveChar` looks for `$` only
  outside a sentence, and nothing compares the checksum.
* *A missing second magnetometer is recorded as the first* (`MagsBoard`, `Read`): the handler reads both into
  the same three variables, and `nextInt` leaves its variable alone where there is no number. Hence
  `WholeSentenceRecorded` is about whole sentences.
* *In its first second the program shows magnetometers as detected, whatever the board sends* (`MagsBoard`, `BoardInit`):
  the time of the last detection is that of the start.
* *A silent board's last values are sent on* (`ML mags_logger.cpp:440`): only a sentence takes `outMagsDetected` back;
  `StatusIsRecent` holds of the status word because that looks at the counter as well.

Outside the models: the sequence number of a message is taken without a lock by whichever thread
builds one (`lib/mavlink/mavlink_helpers.h:249`); the autopilot's two ids are stored one after the other and
read between; the acknowledgement of a command names command 0, because `sendCommandAck` is given the
result where the command belongs (`ML mags_dispatcher.cpp:112`). In `GpsSource` the answers to a PARAM_SET and to a
PARAM_REQUEST_READ are alike, one PARAM_VALUE at most for each. `Retry` takes the test of a count and its
decrement from one load, where the source has two (`mav/param_setter.cpp:55`). Two overlapping `open` calls on the log's
one stream are undefined; `CcrLink` and `MagsLog` take them as one after the other.

## 6. Not modelled, and the plan

Could be modelled next, in this order:

1. The GPS receiver's framer (`ML gps_input_task.cpp:167`, limit 256, starts over at `$`): the same form as
   `MagsBoard`'s, and its state never crosses a reconnection.
2. The addresses learnt from heartbeats (`mav/mavlink_provider.cpp:89`), read torn by the other threads.
3. The status word (`mags_dispatcher.cpp`) over `GpsOnOff` and `GpsSource`: each part of it is a function of
   one model's state.

Left out for good: configuration and IP query (pure input at the start), logging, floating-point
geometry no one calls, the builders of MAVLink messages (each fills a struct), `TaskBase::stop` (the loop before it never
ends), vendored libraries but for the MAVLink parser and framer. The detection of the accelerometer has the shape of
that of the magnetometers. Within the modelled parts: coordinates and field values of messages,
file names, rounding and `int` overflow in the parser, the buffers' limits (a sentence of more than 1024 or 4096
characters), the switched-off `_GPS_TEST_ENABLED` code, and weak memory.

The larger part of the repository is vendored and generated: the MAVLink dialects, loguru and picojson. Of these only
what `MavFrame` needs is modelled.
