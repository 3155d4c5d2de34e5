------------------------------ MODULE MagsLog ------------------------------
(***************************************************************************)
(* The flight log (src/src/mags-logger/mags_logger.cpp): the main thread    *)
(* stores the board's latest sentence and the plane's latest position and   *)
(* attitude, the logger thread writes them as rows; both start and stop     *)
(* the log.  No lock is taken: a step is one access to what the threads     *)
(* share.                                                                   *)
(*                                                                          *)
(* A sentence, a position and an attitude are numbers in the order they     *)
(* came in, which are their times as well.  A copy of a sentence, the three *)
(* numbers of a position and those of an attitude are one step each.  Rows  *)
(* are what is given to the stream; `file` says whether it takes them.      *)
(***************************************************************************)
EXTENDS Integers

CONSTANTS
  MaxSentences,  \* bound: sentences of the board
  MaxFixes,      \* bound: positions of the plane
  MaxAttitudes,  \* bound: attitudes of the plane
  MaxCommands    \* bound: heartbeats that arm or disarm, commands, CCR replies

ASSUME MagsLogAssumption ==
  /\ MaxSentences \in Nat /\ MaxFixes \in Nat /\ MaxAttitudes \in Nat /\ MaxCommands \in Nat

None == 0   \* no such column in the row

VARIABLES
  received,    \* magsReceivedTime, magsReceivedSentence, magsReceived
  position,    \* position, positionReceived, gpsReceivedTime
  attitude,    \* attitude, attitudeReceivedTime
  armed,       \* isArmed()
  logStarted,
  file,        \* logFile: is_open(), good()
  main,        \* where the main thread is
  logger,      \* where the logger thread is
  row,         \* the columns written since the row began
  rows,        \* history: how many rows, the last one and the one before
  cut,         \* history: has a thread moved while the other was half way?
  came         \* history: sentences, fixes, attitudes and commands so far, and
               \* whether the log was stopped and neither started nor armed since

vars == <<received, position, attitude, armed, logStarted, file, main, logger, row, rows, cut, came>>
shared == <<received, position, attitude, armed, logStarted, file>>

Starting == {"Close", "Open", "Started"}    \* startLogging
MainPcs == {"idle", "Copy", "Flag", "FixFlag", "FixTime", "AttitudeTime"} \cup Starting
LoggerPcs == {"idle", "Check", "Flag", "Time", "Sentence", "Clear", "Fix", "FixTime", "FixValue",
              "FixClear", "Blank", "Attitude", "AttitudeTime", "AttitudeValue", "AttitudeClear",
              "End"} \cup Starting

Rows == [time: Nat, sentence: Nat, fixTime: Nat, fix: Nat, blank: BOOLEAN,
         attitudeTime: Nat, attitude: Nat]
NoRow == [time |-> 0, sentence |-> 0, fixTime |-> None, fix |-> None, blank |-> FALSE,
          attitudeTime |-> None, attitude |-> None]

TypeOK ==
  /\ received \in [time: 0..MaxSentences, sentence: 0..MaxSentences, flag: BOOLEAN]
  /\ position \in [fix: 0..MaxFixes, flag: BOOLEAN, time: 0..MaxFixes]
  /\ attitude \in [value: 0..MaxAttitudes, time: 0..MaxAttitudes]
  /\ armed \in BOOLEAN /\ logStarted \in BOOLEAN
  /\ file \in [open: BOOLEAN, good: BOOLEAN]
  /\ main \in MainPcs /\ logger \in LoggerPcs
  /\ row \in Rows /\ rows.last \in Rows /\ rows.previous \in Rows
  /\ rows.count \in 0..MaxSentences /\ cut \in BOOLEAN

Init ==
  /\ received = [time |-> 0, sentence |-> 0, flag |-> FALSE]
  /\ position = [fix |-> 0, flag |-> FALSE, time |-> 0]
  /\ attitude = [value |-> 0, time |-> 0]
  /\ armed = FALSE /\ logStarted = FALSE
  /\ file = [open |-> FALSE, good |-> TRUE]
  /\ main = "idle" /\ logger = "idle"
  /\ row = NoRow /\ cut = FALSE
  /\ rows = [count |-> 0, fixes |-> 0, last |-> NoRow, previous |-> NoRow]
  /\ came = [sentences |-> 0, fixes |-> 0, attitudes |-> 0, commands |-> 0, stopped |-> FALSE]

(***************************************************************************)
(* startLogging, on either thread: logInit closes the file and opens a new  *)
(* one, and then logging is on, whether or not there is a file.  A stream   *)
(* that is open already refuses to open, stays open and takes no more.      *)
(***************************************************************************)
\* Fault: the old file is not closed.
CloseMissed == UNCHANGED <<file, logStarted>>
Close == file' = [file EXCEPT !.open = FALSE] /\ UNCHANGED logStarted
Open ==
  /\ \/ file' = [open |-> TRUE, good |-> ~file.open]
     \/ ~file.open /\ file' = [file EXCEPT !.good = FALSE]
  /\ UNCHANGED logStarted
Started == logStarted' = TRUE /\ UNCHANGED file

StartLoggingStep(pc) ==
  \/ pc = "Close" /\ Close
  \/ pc = "Open" /\ Open
  \/ pc = "Started" /\ Started
After(pc, done) == CASE pc = "Close" -> "Open" [] pc = "Open" -> "Started" [] pc = "Started" -> done

(***************************************************************************)
(* The main thread.                                                         *)
(***************************************************************************)
\* onNmeaSentenceReceived, a "$M," sentence
SentenceReceived ==
  /\ main = "idle" /\ came.sentences < MaxSentences
  /\ came' = [came EXCEPT !.sentences = @ + 1]
  /\ received' = [received EXCEPT !.time = came'.sentences]
  /\ main' = "Copy"
  /\ UNCHANGED <<position, attitude, armed, logStarted, file, logger, row, rows>>

\* Fault: only its time is stored.
SentenceCopyMissed ==
  /\ main = "Copy"
  /\ main' = "Flag"
  /\ UNCHANGED shared /\ UNCHANGED <<logger, row, rows, came>>
SentenceCopied ==
  /\ main = "Copy"
  /\ received' = [received EXCEPT !.sentence = came.sentences]
  /\ main' = "Flag"
  /\ UNCHANGED <<position, attitude, armed, logStarted, file, logger, row, rows, came>>

SentenceFlagged ==
  /\ main = "Flag"
  /\ received' = [received EXCEPT !.flag = TRUE]
  /\ main' = "idle"
  /\ UNCHANGED <<position, attitude, armed, logStarted, file, logger, row, rows, came>>

\* GPS_RAW_INT with a fix: the flag is up before the time is stored.
FixReceived ==
  /\ main = "idle" /\ came.fixes < MaxFixes
  /\ came' = [came EXCEPT !.fixes = @ + 1]
  /\ position' = [position EXCEPT !.fix = came'.fixes]
  /\ main' = "FixFlag"
  /\ UNCHANGED <<received, attitude, armed, logStarted, file, logger, row, rows>>

FixFlagged ==
  /\ main = "FixFlag"
  /\ position' = [position EXCEPT !.flag = TRUE]
  /\ main' = "FixTime"
  /\ UNCHANGED <<received, attitude, armed, logStarted, file, logger, row, rows, came>>

FixTimed ==
  /\ main = "FixTime"
  /\ position' = [position EXCEPT !.time = came.fixes]
  /\ main' = "idle"
  /\ UNCHANGED <<received, attitude, armed, logStarted, file, logger, row, rows, came>>

\* ATTITUDE: its time doubles as the flag.
AttitudeReceived ==
  /\ main = "idle" /\ came.attitudes < MaxAttitudes
  /\ came' = [came EXCEPT !.attitudes = @ + 1]
  /\ attitude' = [attitude EXCEPT !.value = came'.attitudes]
  /\ main' = "AttitudeTime"
  /\ UNCHANGED <<received, position, armed, logStarted, file, logger, row, rows>>

AttitudeTimed ==
  /\ main = "AttitudeTime"
  /\ attitude' = [attitude EXCEPT !.time = came.attitudes]
  /\ main' = "idle"
  /\ UNCHANGED <<received, position, armed, logStarted, file, logger, row, rows, came>>

\* HEARTBEAT: whoever sends it, its base mode counts.
Heartbeat ==
  /\ main = "idle" /\ came.commands < MaxCommands
  /\ armed' \in BOOLEAN \ {armed}
  /\ came' = [came EXCEPT !.commands = @ + 1, !.stopped = @ /\ ~armed']
  /\ UNCHANGED <<received, position, attitude, logStarted, file, main, logger, row, rows>>

\* MAGS_LOGGING_START
StartCommand ==
  /\ main = "idle" /\ came.commands < MaxCommands
  /\ came' = [came EXCEPT !.commands = @ + 1, !.stopped = FALSE]
  /\ main' = "Close"
  /\ UNCHANGED shared /\ UNCHANGED <<logger, row, rows>>

MainStartsLogging ==
  /\ main \in Starting
  /\ StartLoggingStep(main)
  /\ main' = After(main, "idle")
  /\ UNCHANGED <<received, position, attitude, armed, logger, row, rows, came>>

\* The board names the CCR that was asked for: a log that is on goes on in a new file.
\* Fault: a log is begun whether or not one is on.
CcrReplyStarts ==
  /\ main = "idle" /\ came.commands < MaxCommands
  /\ came' = [came EXCEPT !.commands = @ + 1]
  /\ main' = "Close"
  /\ UNCHANGED shared /\ UNCHANGED <<logger, row, rows>>
CcrReply == logStarted /\ CcrReplyStarts

\* MAGS_LOGGING_STOP: the file stays open.
StopCommand ==
  /\ main = "idle" /\ came.commands < MaxCommands
  /\ came' = [came EXCEPT !.commands = @ + 1, !.stopped = ~armed]
  /\ logStarted' = FALSE
  /\ UNCHANGED <<received, position, attitude, armed, file, main, logger, row, rows>>

(***************************************************************************)
(* The logger thread: loop() as far as the log goes, and magsLogValues.     *)
(***************************************************************************)
\* An armed plane is logged.
TurnBegins ==
  /\ logger = "idle"
  /\ logger' = IF ~logStarted /\ armed THEN "Close" ELSE "Check"
  /\ UNCHANGED shared /\ UNCHANGED <<main, row, rows, came>>

LoggerStartsLogging ==
  /\ logger \in Starting
  /\ StartLoggingStep(logger)
  /\ logger' = After(logger, "Check")
  /\ UNCHANGED <<received, position, attitude, armed, main, row, rows, came>>

\* A row begins: logStarted and then magsReceived.
RowChecked ==
  /\ \/ logger = "Check" /\ logger' = IF logStarted THEN "Flag" ELSE "idle"
     \/ logger = "Flag" /\ logger' = IF received.flag THEN "Time" ELSE "idle"
  /\ UNCHANGED shared /\ UNCHANGED <<main, row, rows, came>>

\* The logger thread writes `r` of the row, changes nothing shared and goes on to `pc`.
Writes(r, pc) ==
  /\ row' = r
  /\ logger' = pc
  /\ UNCHANGED shared /\ UNCHANGED <<main, rows, came>>

RowTime ==
  logger = "Time" /\ Writes([row EXCEPT !.time = received.time], "Sentence")
RowSentence ==
  logger = "Sentence" /\ Writes([row EXCEPT !.sentence = received.sentence], "Clear")

\* Fault: the sentence is not marked as logged.
RowClearMissed ==
  /\ logger = "Clear"
  /\ logger' = "Fix"
  /\ UNCHANGED shared /\ UNCHANGED <<main, row, rows, came>>
RowClear ==
  /\ logger = "Clear"
  /\ received' = [received EXCEPT !.flag = FALSE]
  /\ logger' = "Fix"
  /\ UNCHANGED <<position, attitude, armed, logStarted, file, main, row, rows, came>>

RowFix == logger = "Fix" /\ Writes(row, IF position.flag THEN "FixTime" ELSE "Blank")
RowFixTime == logger = "FixTime" /\ Writes([row EXCEPT !.fixTime = position.time], "FixValue")
RowFixValue == logger = "FixValue" /\ Writes([row EXCEPT !.fix = position.fix], "FixClear")

RowFixClear ==
  /\ logger = "FixClear"
  /\ position' = [position EXCEPT !.flag = FALSE]
  /\ logger' = "Attitude"
  /\ UNCHANGED <<received, attitude, armed, logStarted, file, main, row, rows, came>>

\* Fault: the columns of a missing position are left out.
RowBlankMissed == logger = "Blank" /\ Writes(row, "Attitude")
\* Empty columns for the position, when an attitude is there to follow.
RowBlank == logger = "Blank" /\ Writes([row EXCEPT !.blank = attitude.time # 0], "Attitude")

RowAttitude == logger = "Attitude" /\ Writes(row, IF attitude.time # 0 THEN "AttitudeTime" ELSE "End")
RowAttitudeTime ==
  logger = "AttitudeTime" /\ Writes([row EXCEPT !.attitudeTime = attitude.time], "AttitudeValue")
RowAttitudeValue ==
  logger = "AttitudeValue" /\ Writes([row EXCEPT !.attitude = attitude.value], "AttitudeClear")

RowAttitudeClear ==
  /\ logger = "AttitudeClear"
  /\ attitude' = [attitude EXCEPT !.time = 0]
  /\ logger' = "End"
  /\ UNCHANGED <<received, position, armed, logStarted, file, main, row, rows, came>>

\* std::endl; the other threads' turn comes before the next one.
RowEnds ==
  /\ logger = "End"
  /\ rows' = [count |-> rows.count + 1, fixes |-> rows.fixes + IF row.fix = None THEN 0 ELSE 1,
              last |-> row, previous |-> rows.last]
  /\ row' = NoRow
  /\ logger' = "idle"
  /\ UNCHANGED shared /\ UNCHANGED <<main, came>>

Main ==
  \/ SentenceReceived \/ SentenceCopied \/ SentenceFlagged
  \/ FixReceived \/ FixFlagged \/ FixTimed \/ AttitudeReceived \/ AttitudeTimed
  \/ Heartbeat \/ StartCommand \/ CcrReply \/ MainStartsLogging \/ StopCommand

Logger ==
  \/ TurnBegins \/ LoggerStartsLogging \/ RowChecked
  \/ RowTime \/ RowSentence \/ RowClear
  \/ RowFix \/ RowFixTime \/ RowFixValue \/ RowFixClear \/ RowBlank
  \/ RowAttitude \/ RowAttitudeTime \/ RowAttitudeValue \/ RowAttitudeClear \/ RowEnds

Next ==
  \/ Main /\ cut' = (cut \/ logger # "idle")
  \/ Logger /\ cut' = (cut \/ main # "idle")

Spec == Init /\ [][Next]_vars

-----------------------------------------------------------------------------
Written == rows.count > 0

\* There are never more rows than sentences, nor rows with a position than
\* positions, however the threads interleave: a race can lose one or give the
\* place of one to another, never make one up.
NoRowFromNothing ==
  /\ rows.count + (IF logger \in {"Time", "Sentence", "Clear"} THEN 1 ELSE 0) <= came.sentences
  /\ rows.fixes <= came.fixes

\* A row's sentence is never older by more than one than the sentence its time
\* belongs to (it may be newer by any number: it is read later, and the logger
\* thread can be held up in between), and the rows keep the order of the board.
SentenceKeepsUp ==
  Written =>
    /\ rows.last.sentence >= rows.last.time - 1
    /\ rows.last.time >= rows.previous.time /\ rows.last.sentence >= rows.previous.sentence

\* As long as handlers and turns were whole, a row is the state of one moment,
\* and its attitude stands under its own head (mags_logger.cpp:351): behind the
\* columns of a position, filled or empty.
RowIsOneMoment ==
  Written /\ ~cut =>
    /\ rows.last.time = rows.last.sentence
    /\ rows.last.fixTime = rows.last.fix
    /\ rows.last.attitudeTime = rows.last.attitude
    /\ rows.last.attitude # None => rows.last.fixTime # None \/ rows.last.blank

\* Once stopped on a disarmed plane, the log stays stopped until it is started
\* or the plane is armed.
StoppedStaysStopped ==
  came.stopped /\ ~cut /\ main = "idle" => logger \notin {"Time", "Sentence", "End"}

\* "Mags - log file created" (mags_logger.cpp:340): a file that is open takes its
\* rows, after every start, command and arming of however many, as long as
\* handlers and turns were whole.
WholeStartsWrite == file.open /\ ~cut => file.good
=============================================================================
