--------------------------- MODULE MagsLogProofs ---------------------------
(***************************************************************************)
(* The rows of the log, for any number of sentences, positions, attitudes   *)
(* and commands and every interleaving of the two threads.  The invariant   *)
(* counts a flag that is up as a row to come: the main thread raises it     *)
(* once for each sentence, the logger thread lowers it once for each row.   *)
(***************************************************************************)
EXTENDS MagsLog, TLAPS

Sentences == [time: Nat, sentence: Nat, flag: BOOLEAN]
Positions == [fix: Nat, flag: BOOLEAN, time: Nat]
Histories == [count: Nat, fixes: Nat, last: Rows, previous: Rows]

Types ==
  /\ received \in Sentences /\ position \in Positions
  /\ attitude \in [value: Nat, time: Nat]
  /\ row \in Rows /\ rows \in Histories
  /\ came.sentences \in Nat /\ came.fixes \in Nat /\ came.attitudes \in Nat
  /\ came = [sentences |-> came.sentences, fixes |-> came.fixes, attitudes |-> came.attitudes,
             commands |-> came.commands, stopped |-> came.stopped]

One(p) == IF p THEN 1 ELSE 0

\* Where the logger thread has a position in its row, has lowered the flag of the
\* sentence, has written the sentence, and its time.
AfterFix == {"Attitude", "AttitudeTime", "AttitudeValue", "AttitudeClear", "End"}
AfterClear == {"Fix", "FixTime", "FixValue", "FixClear", "Blank"} \cup AfterFix
AfterSentence == {"Clear"} \cup AfterClear
AfterTime == {"Sentence"} \cup AfterSentence

\* The sentence stored is at most one behind its time.
Stamped ==
  /\ received.time = came.sentences
  /\ received.sentence + One(main = "Copy") = came.sentences

RowsCounted ==
  /\ rows.count + One(logger \in AfterClear) + One(received.flag) + One(main \in {"Copy", "Flag"})
       <= came.sentences
  /\ logger \in {"Time", "Sentence", "Clear"} => received.flag

FixesCounted ==
  /\ rows.fixes + One(logger \in AfterFix /\ row.fix # None) + One(position.flag)
       + One(main = "FixFlag") <= came.fixes
  /\ logger \in {"FixTime", "FixValue", "FixClear"} => position.flag
  /\ logger \notin AfterFix \cup {"FixClear"} => row.fix = None

InOrder ==
  /\ rows.last.time <= received.time /\ rows.last.sentence <= received.sentence
  /\ rows.last.time <= rows.last.sentence + 1
  /\ rows.previous.time <= rows.last.time /\ rows.previous.sentence <= rows.last.sentence
  /\ logger \in AfterTime => rows.last.time <= row.time /\ row.time <= received.time
  /\ logger \in AfterSentence =>
       /\ rows.last.sentence <= row.sentence /\ row.sentence <= received.sentence
       /\ row.time <= row.sentence + 1

LogInv == Types /\ Stamped /\ RowsCounted /\ FixesCounted /\ InOrder

USE DEF None, One, AfterFix, AfterClear, AfterSentence, AfterTime, Sentences, Positions, Histories

LEMMA LogInit ==
  ASSUME Init
  PROVE LogInv
<1>1. Types
  BY DEF Init, Types, Rows, NoRow
<1>2. Stamped /\ RowsCounted /\ FixesCounted /\ InOrder
  BY DEF Init, NoRow, Stamped, RowsCounted, FixesCounted, InOrder
<1> QED BY <1>1, <1>2 DEF LogInv

-----------------------------------------------------------------------------
\* A sentence comes in three steps.
LEMMA SentenceHolds ==
  ASSUME LogInv, SentenceReceived \/ SentenceCopied \/ SentenceFlagged
  PROVE LogInv'
<1>1. CASE SentenceReceived
  <2>1. came' = [sentences |-> came.sentences + 1, fixes |-> came.fixes,
                 attitudes |-> came.attitudes, commands |-> came.commands,
                 stopped |-> came.stopped]
    BY <1>1 DEF LogInv, Types, SentenceReceived
  <2>2. received' = [time |-> came.sentences + 1, sentence |-> received.sentence,
                     flag |-> received.flag]
    BY <1>1, <2>1 DEF LogInv, Types, SentenceReceived
  <2>3. Types'
    BY <1>1, <2>1, <2>2 DEF LogInv, Types, SentenceReceived
  <2>4. Stamped' /\ RowsCounted' /\ FixesCounted'
    BY <1>1, <2>1, <2>2
    DEF LogInv, Types, SentenceReceived, Stamped, RowsCounted, FixesCounted
  <2>5. InOrder'
    BY <1>1, <2>2 DEF LogInv, Types, Rows, SentenceReceived, Stamped, InOrder
  <2> QED BY <2>3, <2>4, <2>5 DEF LogInv
<1>2. CASE SentenceCopied
  <2>1. received' = [time |-> received.time, sentence |-> came.sentences,
                     flag |-> received.flag]
    BY <1>2 DEF LogInv, Types, SentenceCopied
  <2>2. Types'
    BY <1>2, <2>1 DEF LogInv, Types, SentenceCopied
  <2>3. Stamped' /\ RowsCounted' /\ FixesCounted'
    BY <1>2, <2>1 DEF LogInv, Types, SentenceCopied, Stamped, RowsCounted, FixesCounted
  <2>4. InOrder'
    BY <1>2, <2>1 DEF LogInv, Types, Rows, SentenceCopied, Stamped, InOrder
  <2> QED BY <2>2, <2>3, <2>4 DEF LogInv
<1>3. CASE SentenceFlagged
  <2>1. received' = [time |-> received.time, sentence |-> received.sentence, flag |-> TRUE]
    BY <1>3 DEF LogInv, Types, SentenceFlagged
  <2>2. Types'
    BY <1>3, <2>1 DEF LogInv, Types, SentenceFlagged
  <2>3. Stamped' /\ RowsCounted' /\ FixesCounted' /\ InOrder'
    BY <1>3, <2>1
    DEF LogInv, Types, SentenceFlagged, Stamped, RowsCounted, FixesCounted, InOrder
  <2> QED BY <2>2, <2>3 DEF LogInv
<1> QED BY <1>1, <1>2, <1>3

\* A position, too.
LEMMA FixHolds ==
  ASSUME LogInv, FixReceived \/ FixFlagged
  PROVE LogInv'
<1>1. CASE FixReceived
  <2>1. came' = [sentences |-> came.sentences, fixes |-> came.fixes + 1,
                 attitudes |-> came.attitudes, commands |-> came.commands,
                 stopped |-> came.stopped]
    BY <1>1 DEF LogInv, Types, FixReceived
  <2>2. position' = [fix |-> came.fixes + 1, flag |-> position.flag, time |-> position.time]
    BY <1>1, <2>1 DEF LogInv, Types, FixReceived
  <2>3. Types'
    BY <1>1, <2>1, <2>2 DEF LogInv, Types, FixReceived
  <2>4. Stamped' /\ RowsCounted' /\ FixesCounted' /\ InOrder'
    BY <1>1, <2>1, <2>2
    DEF LogInv, Types, FixReceived, Stamped, RowsCounted, FixesCounted, InOrder
  <2> QED BY <2>3, <2>4 DEF LogInv
<1>2. CASE FixFlagged
  <2>1. position' = [fix |-> position.fix, flag |-> TRUE, time |-> position.time]
    BY <1>2 DEF LogInv, Types, FixFlagged
  <2>2. Types'
    BY <1>2, <2>1 DEF LogInv, Types, FixFlagged
  <2>3. Stamped' /\ RowsCounted' /\ FixesCounted' /\ InOrder'
    BY <1>2, <2>1
    DEF LogInv, Types, FixFlagged, Stamped, RowsCounted, FixesCounted, InOrder
  <2> QED BY <2>2, <2>3 DEF LogInv
<1> QED BY <1>1, <1>2

\* The conjuncts look at nothing else the main thread does.
LEMMA MainElseHolds ==
  ASSUME LogInv, Types',
         UNCHANGED <<received, logger, row, rows>>,
         position'.flag = position.flag,
         came'.sentences = came.sentences, came'.fixes = came.fixes,
         main \notin {"Copy", "Flag", "FixFlag"}, main' \notin {"Copy", "Flag", "FixFlag"}
  PROVE LogInv'
  BY DEF LogInv, Stamped, RowsCounted, FixesCounted, InOrder

LEMMA MainHolds ==
  ASSUME LogInv, Main
  PROVE LogInv'
<1>1. CASE SentenceReceived \/ SentenceCopied \/ SentenceFlagged
  BY <1>1, SentenceHolds
<1>2. CASE FixReceived \/ FixFlagged
  BY <1>2, FixHolds
<1>3. CASE FixTimed
  <2>1. position' = [fix |-> position.fix, flag |-> position.flag, time |-> came.fixes]
    BY <1>3 DEF LogInv, Types, FixTimed
  <2>2. Types'
    BY <1>3, <2>1 DEF LogInv, Types, FixTimed
  <2> QED BY <1>3, <2>1, <2>2, MainElseHolds DEF FixTimed
<1>4. CASE AttitudeReceived
  <2>1. came' = [sentences |-> came.sentences, fixes |-> came.fixes,
                 attitudes |-> came.attitudes + 1, commands |-> came.commands,
                 stopped |-> came.stopped]
    BY <1>4 DEF LogInv, Types, AttitudeReceived
  <2>2. attitude' = [value |-> came.attitudes + 1, time |-> attitude.time]
    BY <1>4, <2>1 DEF LogInv, Types, AttitudeReceived
  <2>3. Types'
    BY <1>4, <2>1, <2>2 DEF LogInv, Types, AttitudeReceived
  <2> QED BY <1>4, <2>1, <2>3, MainElseHolds DEF AttitudeReceived
<1>5. CASE AttitudeTimed
  <2>1. attitude' = [value |-> attitude.value, time |-> came.attitudes]
    BY <1>5 DEF LogInv, Types, AttitudeTimed
  <2>2. Types'
    BY <1>5, <2>1 DEF LogInv, Types, AttitudeTimed
  <2> QED BY <1>5, <2>2, MainElseHolds DEF AttitudeTimed
<1>6. CASE Heartbeat \/ StartCommand \/ CcrReply \/ StopCommand
  <2>1. came' = [sentences |-> came.sentences, fixes |-> came.fixes,
                 attitudes |-> came.attitudes, commands |-> came'.commands,
                 stopped |-> came'.stopped]
    BY <1>6 DEF LogInv, Types, Heartbeat, StartCommand, CcrReply, CcrReplyStarts, StopCommand
  <2>2. /\ UNCHANGED <<received, position, attitude, logger, row, rows>>
        /\ main = "idle" /\ main' \in {"idle", "Close"}
    BY <1>6 DEF shared, Heartbeat, StartCommand, CcrReply, CcrReplyStarts, StopCommand
  <2>3. Types'
    BY <2>1, <2>2 DEF LogInv, Types
  <2> QED BY <2>1, <2>2, <2>3, MainElseHolds
<1>7. CASE MainStartsLogging
  <2>1. UNCHANGED <<received, position, attitude, logger, row, rows, came>>
    BY <1>7 DEF MainStartsLogging
  <2>2. main \in Starting /\ main' \in {"Open", "Started", "idle"}
    BY <1>7 DEF MainStartsLogging, Starting, After
  <2>3. Types'
    BY <2>1 DEF LogInv, Types
  <2> QED BY <2>1, <2>2, <2>3, MainElseHolds DEF Starting
<1> QED BY <1>1, <1>2, <1>3, <1>4, <1>5, <1>6, <1>7 DEF Main

-----------------------------------------------------------------------------
\* Before a row begins.
LEMMA TurnHolds ==
  ASSUME LogInv, TurnBegins \/ LoggerStartsLogging \/ RowChecked
  PROVE LogInv'
<1>1. UNCHANGED <<received, position, attitude, main, row, rows, came>>
  BY DEF TurnBegins, LoggerStartsLogging, RowChecked, shared
<1>2. /\ logger \in {"idle", "Check", "Flag", "Close", "Open", "Started"}
      /\ logger' \in {"idle", "Check", "Flag", "Close", "Open", "Started"}
           \cup (IF received.flag THEN {"Time"} ELSE {})
  BY DEF TurnBegins, LoggerStartsLogging, RowChecked, Starting, After
<1>3. Types'
  BY <1>1 DEF LogInv, Types
<1> QED BY <1>1, <1>2, <1>3 DEF LogInv, Stamped, RowsCounted, FixesCounted, InOrder

\* The columns of the sentence.
LEMMA RowTimeHolds ==
  ASSUME LogInv, RowTime
  PROVE LogInv'
<1>1. row' = [row EXCEPT !.time = received.time] /\ row'.time = received.time
      /\ row'.fix = row.fix /\ row' \in Rows
  BY DEF LogInv, Types, RowTime, Writes, Rows
<1>2. UNCHANGED <<received, position, attitude, main, rows, came>>
      /\ logger = "Time" /\ logger' = "Sentence"
  BY DEF RowTime, Writes, shared
<1>3. Types'
  BY <1>1, <1>2 DEF LogInv, Types
<1>4. received.time \in Nat
  BY DEF LogInv, Types
<1> QED BY <1>1, <1>2, <1>3, <1>4 DEF LogInv, Stamped, RowsCounted, FixesCounted, InOrder

LEMMA RowSentenceHolds ==
  ASSUME LogInv, RowSentence
  PROVE LogInv'
<1>1. row' \in Rows /\ row'.time = row.time /\ row'.sentence = received.sentence
      /\ row'.fix = row.fix
  BY DEF LogInv, Types, RowSentence, Writes, Rows
<1>2. UNCHANGED <<received, position, attitude, main, rows, came>>
      /\ logger = "Sentence" /\ logger' = "Clear"
  BY DEF RowSentence, Writes, shared
<1>3. Types'
  BY <1>1, <1>2 DEF LogInv, Types
<1>4. received.time <= received.sentence + 1 /\ received.sentence \in Nat /\ row.time \in Nat
  BY DEF LogInv, Types, Stamped, Rows
<1> QED BY <1>1, <1>2, <1>3, <1>4 DEF LogInv, Types, Stamped, RowsCounted, FixesCounted, InOrder

LEMMA RowClearHolds ==
  ASSUME LogInv, RowClear
  PROVE LogInv'
<1>1. received' = [time |-> received.time, sentence |-> received.sentence, flag |-> FALSE]
  BY DEF LogInv, Types, RowClear
<1>2. UNCHANGED <<position, attitude, main, row, rows, came>>
      /\ logger = "Clear" /\ logger' = "Fix"
  BY DEF RowClear
<1>3. Types'
  BY <1>1, <1>2 DEF LogInv, Types
<1>4. RowsCounted'
  BY <1>1, <1>2 DEF LogInv, Types, RowsCounted
<1> QED BY <1>1, <1>2, <1>3, <1>4 DEF LogInv, Stamped, FixesCounted, InOrder

\* The columns of the position: the row has one only where the flag was up.
LEMMA RowFixHolds ==
  ASSUME LogInv, RowFix \/ RowFixTime \/ RowFixValue \/ RowBlank
  PROVE LogInv'
<1>1. /\ row' \in Rows /\ row'.time = row.time /\ row'.sentence = row.sentence
      /\ logger # "FixValue" => row'.fix = row.fix
  <2>1. row \in Rows /\ position \in Positions /\ attitude \in [value: Nat, time: Nat]
    BY DEF LogInv, Types
  <2>2. CASE RowFix \/ RowFixTime
    BY <2>1, <2>2 DEF RowFix, RowFixTime, Writes, Rows
  <2>3. CASE RowFixValue \/ RowBlank
    BY <2>1, <2>3 DEF RowFixValue, RowBlank, Writes, Rows
  <2> QED
    BY <2>2, <2>3
<1>2. UNCHANGED <<received, position, attitude, main, rows, came>>
  BY DEF RowFix, RowFixTime, RowFixValue, RowBlank, Writes, shared
<1>3. \/ logger = "Fix" /\ logger' = (IF position.flag THEN "FixTime" ELSE "Blank")
      \/ logger = "FixTime" /\ logger' = "FixValue"
      \/ logger = "FixValue" /\ logger' = "FixClear"
      \/ logger = "Blank" /\ logger' = "Attitude"
  BY DEF RowFix, RowFixTime, RowFixValue, RowBlank, Writes
<1>4. Types'
  BY <1>1, <1>2 DEF LogInv, Types
<1>5. Stamped' /\ RowsCounted' /\ InOrder'
  BY <1>1, <1>2, <1>3 DEF LogInv, Stamped, RowsCounted, InOrder
<1>6. FixesCounted'
  BY <1>1, <1>2, <1>3 DEF LogInv, FixesCounted
<1> QED BY <1>4, <1>5, <1>6 DEF LogInv

LEMMA RowFixClearHolds ==
  ASSUME LogInv, RowFixClear
  PROVE LogInv'
<1>1. position' = [fix |-> position.fix, flag |-> FALSE, time |-> position.time]
  BY DEF LogInv, Types, RowFixClear
<1>2. UNCHANGED <<received, attitude, main, row, rows, came>>
      /\ logger = "FixClear" /\ logger' = "Attitude"
  BY DEF RowFixClear
<1>3. Types'
  BY <1>1, <1>2 DEF LogInv, Types
<1>4. FixesCounted'
  BY <1>1, <1>2 DEF LogInv, Types, FixesCounted
<1> QED BY <1>2, <1>3, <1>4 DEF LogInv, Stamped, RowsCounted, InOrder

\* The columns of the attitude.
LEMMA RowAttitudeHolds ==
  ASSUME LogInv,
         RowAttitude \/ RowAttitudeTime \/ RowAttitudeValue \/ RowAttitudeClear
  PROVE LogInv'
<1>1. /\ row' \in Rows /\ row'.time = row.time /\ row'.sentence = row.sentence
      /\ row'.fix = row.fix
  BY DEF LogInv, Types, RowAttitude, RowAttitudeTime, RowAttitudeValue, RowAttitudeClear,
         Writes, Rows
<1>2. UNCHANGED <<received, position, main, rows, came>>
      /\ attitude' \in [value: Nat, time: Nat]
  BY DEF LogInv, Types, RowAttitude, RowAttitudeTime, RowAttitudeValue, RowAttitudeClear,
         Writes, shared
<1>3. logger \in AfterFix \ {"End"} /\ logger' \in AfterFix
  BY DEF RowAttitude, RowAttitudeTime, RowAttitudeValue, RowAttitudeClear, Writes
<1>4. Types'
  BY <1>1, <1>2 DEF LogInv, Types
<1> QED BY <1>1, <1>2, <1>3, <1>4 DEF LogInv, Stamped, RowsCounted, FixesCounted, InOrder

\* A row that ends is the last one, and the last one is the one before.
LEMMA RowEndsHolds ==
  ASSUME LogInv, RowEnds
  PROVE LogInv'
<1>1. rows' = [count |-> rows.count + 1, fixes |-> rows.fixes + One(row.fix # None),
               last |-> row, previous |-> rows.last]
  BY DEF RowEnds
<1>2. UNCHANGED <<received, position, attitude, main, came>> /\ row' = NoRow
      /\ logger = "End" /\ logger' = "idle"
  BY DEF RowEnds, shared
<1>3. NoRow \in Rows /\ NoRow.fix = None
  BY DEF NoRow, Rows
<1>4. Types'
  BY <1>1, <1>2, <1>3 DEF LogInv, Types
<1>5. Stamped' /\ RowsCounted'
  BY <1>1, <1>2 DEF LogInv, Types, Stamped, RowsCounted
<1>6. FixesCounted'
  BY <1>1, <1>2, <1>3 DEF LogInv, Types, FixesCounted
<1>7. InOrder'
  BY <1>1, <1>2 DEF LogInv, InOrder
<1> QED BY <1>4, <1>5, <1>6, <1>7 DEF LogInv

LEMMA LogStep == LogInv /\ [Next]_vars => LogInv'
<1> SUFFICES ASSUME LogInv, [Next]_vars PROVE LogInv'
  OBVIOUS
<1>1. CASE Main
  BY <1>1, MainHolds
<1>2. CASE Logger
  BY <1>2, TurnHolds, RowTimeHolds, RowSentenceHolds, RowClearHolds, RowFixHolds,
     RowFixClearHolds, RowAttitudeHolds, RowEndsHolds DEF Logger
<1>3. CASE UNCHANGED vars
  BY <1>3 DEF vars, LogInv, Types, Stamped, RowsCounted, FixesCounted, InOrder
<1> QED BY <1>1, <1>2, <1>3 DEF Next

LEMMA LogHolds == Spec => []LogInv
<1>1. Init => LogInv
  BY LogInit
<1> QED BY <1>1, LogStep, PTL DEF Spec

\* magsLogValues: no race of the flags makes up a row, or a row's position.
THEOREM RowsAreFromSentences == Spec => []NoRowFromNothing
<1>1. LogInv => NoRowFromNothing
  BY DEF LogInv, Types, RowsCounted, FixesCounted, NoRowFromNothing
<1> QED BY <1>1, LogHolds, PTL

\* And none leaves a row with a sentence older by more than one than its time's, or changes
\* the order.
THEOREM RowsKeepOrder == Spec => []SentenceKeepsUp
<1>1. LogInv => SentenceKeepsUp
  BY DEF LogInv, Types, Rows, InOrder, SentenceKeepsUp
<1> QED BY <1>1, LogHolds, PTL

-----------------------------------------------------------------------------
\* As long as handlers and turns were whole, the threads take turns; a file is opened only
\* behind a close; and what stopped the log left it off, on a plane that is not armed.
Exclusive == main = "idle" \/ logger = "idle"

FileKept ==
  /\ file \in [open: BOOLEAN, good: BOOLEAN]
  /\ file.open => file.good
  /\ main = "Open" \/ logger = "Open" => ~file.open

StopKept ==
  came.stopped => ~armed /\ ~logStarted /\ main \notin Starting /\ logger \in {"idle", "Check"}

\* Between handlers a position and an attitude have the times they came with; an attitude
\* that was logged has none.
InStep ==
  /\ position.fix = came.fixes /\ attitude.value = came.attitudes
  /\ main \notin {"FixFlag", "FixTime"} => position.time = position.fix
  /\ position.flag \/ main \in {"FixFlag", "FixTime"} => position.fix > 0
  /\ main # "AttitudeTime" => attitude.time \in {0, attitude.value}

OfOneMoment(r) ==
  /\ r.time = r.sentence /\ r.fixTime = r.fix /\ r.attitudeTime = r.attitude
  /\ r.attitude # None => r.fix # None \/ r.blank

\* So the columns written agree, but for the one between a time and its value.
RowInStep ==
  /\ logger = "Sentence" => row.time = received.time
  /\ logger \in AfterSentence => row.time = row.sentence
  /\ row.fixTime = IF logger = "FixValue" THEN position.time ELSE row.fix
  /\ row.attitudeTime = IF logger = "AttitudeValue" THEN attitude.time ELSE row.attitude
  /\ logger = "FixClear" => row.fix # None
  /\ logger \in {"AttitudeTime", "AttitudeValue"} => attitude.time # 0
  /\ logger \notin {"AttitudeClear", "End"} => row.attitude = None
  /\ \/ logger = "Attitude" /\ attitude.time # 0
     \/ logger \in {"AttitudeTime", "AttitudeValue", "AttitudeClear"}
     \/ logger = "End" /\ row.attitude # None
     => row.fix # None \/ row.blank
  /\ OfOneMoment(rows.last)

WholeInv == LogInv /\ (~cut => Exclusive /\ FileKept /\ StopKept /\ InStep /\ RowInStep)

\* A file opened behind a close is good, so long as a stream that is open is not opened again.
LEMMA StartKeepsFile ==
  ASSUME NEW pc, StartLoggingStep(pc), file \in [open: BOOLEAN, good: BOOLEAN],
         file.open => file.good, pc = "Open" => ~file.open
  PROVE  /\ file' \in [open: BOOLEAN, good: BOOLEAN]
         /\ file'.open => file'.good
         /\ pc = "Close" => ~file'.open
<1>1. CASE pc = "Close" /\ Close
  <2>1. file' = [file EXCEPT !.open = FALSE]
    BY <1>1 DEF Close
  <2> QED
    BY <1>1, <2>1
<1>2. CASE pc = "Open" /\ Open
  <2>1. CASE file' = [open |-> TRUE, good |-> ~file.open]
    BY <1>2, <2>1
  <2>2. CASE file' = [file EXCEPT !.good = FALSE]
    BY <1>2, <2>2
  <2> QED
    BY <1>2, <2>1, <2>2 DEF Open
<1>3. CASE pc = "Started" /\ Started
  BY <1>3 DEF Started
<1> QED
  BY <1>1, <1>2, <1>3 DEF StartLoggingStep

\* A handler finds the logger thread at rest.
LEMMA MainKeepsWhole ==
  ASSUME WholeInv, Main, ~cut, logger = "idle"
  PROVE  Exclusive' /\ FileKept' /\ StopKept' /\ InStep' /\ RowInStep'
<1> USE DEF WholeInv, LogInv, Types
<1>1. UNCHANGED <<logger, row, rows>>
  BY DEF Main, SentenceReceived, SentenceCopied, SentenceFlagged, FixReceived, FixFlagged, FixTimed,
     AttitudeReceived, AttitudeTimed, Heartbeat, StartCommand, CcrReply, CcrReplyStarts, MainStartsLogging,
     StopCommand
<1>2. Exclusive' /\ RowInStep'
  BY <1>1 DEF Exclusive, RowInStep, OfOneMoment
<1>3. CASE SentenceReceived \/ SentenceCopied \/ SentenceFlagged
  <2>1. UNCHANGED <<position, attitude, armed, logStarted, file, came.fixes, came.attitudes, came.stopped>>
    BY <1>3 DEF SentenceReceived, SentenceCopied, SentenceFlagged
  <2>2. main \in {"idle", "Copy", "Flag"} /\ main' \in {"idle", "Copy", "Flag"}
    BY <1>3 DEF SentenceReceived, SentenceCopied, SentenceFlagged
  <2> QED
    BY <1>1, <1>2, <2>1, <2>2 DEF FileKept, StopKept, InStep, Starting
<1>4. CASE FixReceived
  <2>1. UNCHANGED <<attitude, armed, logStarted, file, came.attitudes, came.stopped>>
    BY <1>4 DEF FixReceived
  <2>2. position'.fix = came.fixes + 1 /\ came'.fixes = came.fixes + 1 /\ main = "idle" /\ main' = "FixFlag"
    BY <1>4 DEF FixReceived
  <2> QED
    BY <1>1, <1>2, <2>1, <2>2 DEF FileKept, StopKept, InStep, Starting
<1>5. CASE FixFlagged \/ FixTimed
  <2>1. UNCHANGED <<attitude, armed, logStarted, file, came>> /\ position'.fix = position.fix
    BY <1>5 DEF FixFlagged, FixTimed
  <2>2. \/ main = "FixFlag" /\ main' = "FixTime"
        \/ main = "FixTime" /\ main' = "idle" /\ position'.time = came.fixes
    BY <1>5 DEF FixFlagged, FixTimed
  <2> QED
    BY <1>1, <1>2, <2>1, <2>2 DEF FileKept, StopKept, InStep, Starting
<1>6. CASE AttitudeReceived
  <2>1. UNCHANGED <<position, armed, logStarted, file, came.fixes, came.stopped>>
    BY <1>6 DEF AttitudeReceived
  <2>2. attitude'.value = came.attitudes + 1 /\ came'.attitudes = came.attitudes + 1
        /\ main = "idle" /\ main' = "AttitudeTime"
    BY <1>6 DEF AttitudeReceived
  <2> QED
    BY <1>1, <1>2, <2>1, <2>2 DEF FileKept, StopKept, InStep, Starting
<1>7. CASE AttitudeTimed
  <2>1. UNCHANGED <<position, armed, logStarted, file, came>> /\ main = "AttitudeTime" /\ main' = "idle"
    BY <1>7 DEF AttitudeTimed
  <2>2. attitude'.value = attitude.value /\ attitude'.time = came.attitudes
    BY <1>7 DEF AttitudeTimed
  <2> QED
    BY <1>1, <1>2, <2>1, <2>2 DEF FileKept, StopKept, InStep, Starting
<1>8. CASE Heartbeat \/ StartCommand \/ CcrReply \/ StopCommand
  <2>1. UNCHANGED <<position, attitude, file, came.fixes, came.attitudes>> /\ main = "idle"
    BY <1>8 DEF Heartbeat, StartCommand, CcrReply, CcrReplyStarts, StopCommand, shared
  <2>2. InStep' /\ FileKept'
    <3>1. main' \in {"idle", "Close"}
      BY <1>8, <2>1 DEF Heartbeat, StartCommand, CcrReply, CcrReplyStarts, StopCommand
    <3> QED
      BY <1>1, <2>1, <3>1 DEF InStep, FileKept
  <2>3. CASE Heartbeat
    <3>1. came'.stopped = (came.stopped /\ ~armed') /\ UNCHANGED <<main, logStarted>>
      BY <2>3 DEF Heartbeat
    <3>2. StopKept'
      BY <1>1, <3>1 DEF StopKept
    <3> QED
      BY <1>2, <2>2, <3>2
  <2>4. CASE StartCommand
    BY <1>2, <2>2, <2>4 DEF StartCommand, StopKept
  <2>5. CASE CcrReply
    <3>1. logStarted /\ came'.stopped = came.stopped
      BY <2>5 DEF CcrReply, CcrReplyStarts
    <3> QED
      BY <1>2, <2>2, <3>1 DEF StopKept
  <2>6. CASE StopCommand
    <3>1. came'.stopped = ~armed /\ logStarted' = FALSE /\ UNCHANGED <<main, armed>>
      BY <2>6 DEF StopCommand
    <3> QED
      BY <1>1, <1>2, <2>1, <2>2, <3>1 DEF StopKept, Starting
  <2> QED
    BY <1>8, <2>3, <2>4, <2>5, <2>6
<1>9. CASE MainStartsLogging
  <2>1. UNCHANGED <<position, attitude, armed, came>> /\ main \in Starting
    BY <1>9 DEF MainStartsLogging
  <2>2. main' \in {"Open", "Started", "idle"} /\ (main' = "Open" => main = "Close") /\ (main = "Open" => main' = "Started")
    BY <1>9 DEF MainStartsLogging, After, Starting
  <2>3. FileKept'
    <3>1. StartLoggingStep(main) /\ (main = "Open" => ~file.open)
      BY <1>9 DEF MainStartsLogging, FileKept
    <3> QED
      BY <1>1, <2>2, <3>1, StartKeepsFile DEF FileKept
  <2>4. InStep' /\ StopKept'
    BY <1>1, <2>1, <2>2 DEF InStep, StopKept, Starting
  <2> QED
    BY <1>2, <2>3, <2>4
<1> QED
  BY <1>3, <1>4, <1>5, <1>6, <1>7, <1>8, <1>9 DEF Main

\* A turn finds the main thread at rest.
LEMMA LoggerKeepsWhole ==
  ASSUME WholeInv, LogInv', Logger, ~cut, main = "idle"
  PROVE  Exclusive' /\ FileKept' /\ StopKept' /\ InStep' /\ RowInStep'
<1> USE DEF WholeInv
<1>1. UNCHANGED <<main, came, armed>> /\ Exclusive'
  BY DEF Logger, TurnBegins, LoggerStartsLogging, RowChecked, RowTime, RowSentence, RowClear, RowFix, RowFixTime,
     RowFixValue, RowFixClear, RowBlank, RowAttitude, RowAttitudeTime, RowAttitudeValue, RowAttitudeClear, RowEnds,
     Writes, shared, Exclusive
<1>2. row \in Rows /\ position \in Positions /\ attitude \in [value: Nat, time: Nat]
      /\ received.time = received.sentence
  BY DEF LogInv, Types, Stamped
<1>3. CASE LoggerStartsLogging
  <2>1. UNCHANGED <<received, position, attitude, row, rows>> /\ logger \in Starting
    BY <1>3 DEF LoggerStartsLogging
  <2>2. /\ logger' \in {"Open", "Started", "Check"}
        /\ (logger' = "Open" => logger = "Close") /\ (logger = "Open" => logger' = "Started")
    BY <1>3 DEF LoggerStartsLogging, After, Starting
  <2>3. FileKept'
    <3>1. StartLoggingStep(logger) /\ (logger = "Open" => ~file.open)
      BY <1>3 DEF LoggerStartsLogging, FileKept
    <3> QED
      BY <1>1, <2>2, <3>1, StartKeepsFile DEF FileKept
  <2>4. InStep' /\ RowInStep' /\ StopKept'
    BY <1>1, <2>1, <2>2 DEF InStep, RowInStep, OfOneMoment, StopKept, Starting
  <2> QED
    BY <1>1, <2>3, <2>4
<1>4. CASE TurnBegins \/ RowChecked
  <2>1. UNCHANGED <<received, position, attitude, logStarted, file, row, rows>>
    BY <1>4 DEF TurnBegins, RowChecked, shared
  <2>2. /\ logger \in {"idle", "Check", "Flag"} /\ logger' \in {"idle", "Close", "Check", "Flag", "Time"}
        /\ logger' = "Close" => armed
        /\ logger' = "Flag" => logStarted
        /\ logger' = "Time" => logger = "Flag"
    BY <1>4 DEF TurnBegins, RowChecked
  <2> QED
    BY <1>1, <2>1, <2>2 DEF FileKept, InStep, RowInStep, OfOneMoment, StopKept
<1>5. ASSUME UNCHANGED <<file, logStarted>>, logger \notin {"idle", "Check"}, logger' # "Open"
      PROVE  FileKept' /\ StopKept'
  BY <1>1, <1>5 DEF FileKept, StopKept
<1>6. CASE RowTime \/ RowSentence
  <2>1. UNCHANGED <<received, position, attitude, logStarted, file, rows>> /\ row' \in Rows
    BY <1>6 DEF RowTime, RowSentence, Writes, shared, LogInv, Types
  <2>2. /\ \/ logger = "Time" /\ logger' = "Sentence" /\ row'.time = received.time
           \/ logger = "Sentence" /\ logger' = "Clear" /\ row'.time = row.time /\ row'.sentence = received.sentence
        /\ UNCHANGED <<row.fixTime, row.fix, row.blank, row.attitudeTime, row.attitude>>
    BY <1>2, <1>6 DEF RowTime, RowSentence, Writes, Rows
  <2>3. InStep'
    BY <1>1, <2>1 DEF InStep
  <2>4. RowInStep'
    BY <1>2, <2>1, <2>2 DEF RowInStep, OfOneMoment
  <2> QED
    BY <1>1, <1>5, <2>1, <2>2, <2>3, <2>4
<1>7. CASE RowClear
  <2>1. UNCHANGED <<position, attitude, logStarted, file, row, rows>> /\ logger = "Clear" /\ logger' = "Fix"
    BY <1>7 DEF RowClear
  <2>2. InStep' /\ RowInStep'
    BY <1>1, <2>1 DEF InStep, RowInStep, OfOneMoment
  <2> QED
    BY <1>1, <1>5, <2>1, <2>2
<1>8. CASE RowFix \/ RowFixTime \/ RowFixValue \/ RowBlank
  <2>1. UNCHANGED <<received, position, attitude, logStarted, file, rows>>
    BY <1>8 DEF RowFix, RowFixTime, RowFixValue, RowBlank, Writes, shared
  <2>2. /\ \/ logger = "Fix" /\ logger' \in {"FixTime", "Blank"} /\ row' = row
           \/ logger = "FixTime" /\ logger' = "FixValue" /\ row'.fixTime = position.time /\ row'.fix = row.fix
           \/ logger = "FixValue" /\ logger' = "FixClear" /\ row'.fix = position.fix /\ row'.fixTime = row.fixTime
           \/ logger = "Blank" /\ logger' = "Attitude" /\ row'.fix = row.fix /\ row'.fixTime = row.fixTime
                /\ (attitude.time # 0 => row'.blank)
        /\ UNCHANGED <<row.time, row.sentence, row.attitudeTime, row.attitude>>
    BY <1>2, <1>8 DEF RowFix, RowFixTime, RowFixValue, RowBlank, Writes, Rows
  <2>3. InStep'
    BY <1>1, <2>1 DEF InStep
  <2>4. logger = "FixValue" => position.fix > 0 /\ position.time = position.fix
    BY DEF LogInv, FixesCounted, InStep
  <2>5. RowInStep'
    BY <1>2, <2>1, <2>2, <2>4 DEF RowInStep, OfOneMoment
  <2> QED
    BY <1>1, <1>5, <2>1, <2>2, <2>3, <2>5
<1>9. CASE RowFixClear
  <2>1. UNCHANGED <<received, attitude, logStarted, file, row, rows>> /\ logger = "FixClear" /\ logger' = "Attitude"
    BY <1>9 DEF RowFixClear
  <2>2. position'.fix = position.fix /\ position'.time = position.time /\ ~position'.flag
    BY <1>2, <1>9 DEF RowFixClear, Positions
  <2>3. InStep' /\ RowInStep'
    BY <1>1, <2>1, <2>2 DEF InStep, RowInStep, OfOneMoment
  <2> QED
    BY <1>1, <1>5, <2>1, <2>3
<1>10. CASE RowAttitude \/ RowAttitudeTime \/ RowAttitudeValue
  <2>1. UNCHANGED <<received, position, attitude, logStarted, file, rows>>
    BY <1>10 DEF RowAttitude, RowAttitudeTime, RowAttitudeValue, Writes, shared
  <2>2. /\ \/ logger = "Attitude" /\ logger' = (IF attitude.time # 0 THEN "AttitudeTime" ELSE "End") /\ row' = row
           \/ logger = "AttitudeTime" /\ logger' = "AttitudeValue" /\ row'.attitudeTime = attitude.time
                /\ row'.attitude = row.attitude
           \/ logger = "AttitudeValue" /\ logger' = "AttitudeClear" /\ row'.attitude = attitude.value
                /\ row'.attitudeTime = row.attitudeTime
        /\ UNCHANGED <<row.time, row.sentence, row.fixTime, row.fix, row.blank>>
    BY <1>2, <1>10 DEF RowAttitude, RowAttitudeTime, RowAttitudeValue, Writes, Rows
  <2>3. InStep'
    BY <1>1, <2>1 DEF InStep
  <2>4. logger = "AttitudeValue" => attitude.time = attitude.value
    BY DEF InStep, RowInStep
  <2>5. RowInStep'
    BY <1>2, <2>1, <2>2, <2>4 DEF RowInStep, OfOneMoment
  <2> QED
    BY <1>1, <1>5, <2>1, <2>2, <2>3, <2>5
<1>11. CASE RowAttitudeClear
  <2>1. UNCHANGED <<received, position, logStarted, file, row, rows>> /\ logger = "AttitudeClear" /\ logger' = "End"
    BY <1>11 DEF RowAttitudeClear
  <2>2. attitude'.value = attitude.value /\ attitude'.time = 0
    BY <1>2, <1>11 DEF RowAttitudeClear
  <2>3. InStep' /\ RowInStep'
    BY <1>1, <2>1, <2>2 DEF InStep, RowInStep, OfOneMoment
  <2> QED
    BY <1>1, <1>5, <2>1, <2>3
<1>12. CASE RowEnds
  <2>1. /\ UNCHANGED <<received, position, attitude, logStarted, file>> /\ logger = "End" /\ logger' = "idle"
        /\ rows'.last = row /\ row' = NoRow
    BY <1>12 DEF RowEnds, shared
  <2>2. InStep'
    BY <1>1, <2>1 DEF InStep
  <2>3. RowInStep'
    BY <2>1 DEF RowInStep, OfOneMoment, NoRow
  <2> QED
    BY <1>1, <1>5, <2>1, <2>2, <2>3
<1> QED
  BY <1>3, <1>4, <1>6, <1>7, <1>8, <1>9, <1>10, <1>11, <1>12 DEF Logger

\* The invariant of whole handlers and turns; once one was cut it says no more than LogInv.
LEMMA WholeHolds == Spec => []WholeInv
<1>1. Init => WholeInv
  <2> SUFFICES ASSUME Init PROVE WholeInv
    OBVIOUS
  <2>1. Exclusive /\ FileKept /\ StopKept /\ InStep /\ RowInStep
    BY DEF Init, NoRow, Exclusive, FileKept, StopKept, InStep, RowInStep, OfOneMoment, Starting
  <2> QED
    BY <2>1, LogInit DEF WholeInv
<1>2. WholeInv /\ [Next]_vars => WholeInv'
  <2> SUFFICES ASSUME WholeInv, [Next]_vars PROVE WholeInv'
    OBVIOUS
  <2>1. LogInv'
    BY LogStep DEF WholeInv
  <2>2. CASE Main /\ cut' = (cut \/ logger # "idle")
    BY <2>1, <2>2, MainKeepsWhole DEF WholeInv
  <2>3. CASE Logger /\ cut' = (cut \/ main # "idle")
    BY <2>1, <2>3, LoggerKeepsWhole DEF WholeInv
  <2>4. CASE UNCHANGED vars
    BY <2>1, <2>4 DEF vars, WholeInv, Exclusive, FileKept, StopKept, InStep, RowInStep, OfOneMoment
  <2> QED
    BY <2>2, <2>3, <2>4 DEF Next
<1> QED BY <1>1, <1>2, PTL DEF Spec

\* magsLogValues: with whole handlers and turns the columns of a row are of one moment.
THEOREM RowsAreOfOneMoment == Spec => []RowIsOneMoment
<1>1. WholeInv => RowIsOneMoment
  BY DEF WholeInv, RowInStep, OfOneMoment, RowIsOneMoment
<1> QED BY <1>1, WholeHolds, PTL

\* MAGS_LOGGING_STOP: and a log that was stopped on a plane that is not armed writes none.
THEOREM StopIsKept == Spec => []StoppedStaysStopped
<1>1. WholeInv => StoppedStaysStopped
  BY DEF WholeInv, StopKept, StoppedStaysStopped
<1> QED BY <1>1, WholeHolds, PTL

\* logInit: and no start, however many there are, opens a stream that is open.
THEOREM OpenFileWrites == Spec => []WholeStartsWrite
<1>1. WholeInv => WholeStartsWrite
  BY DEF WholeInv, FileKept, WholeStartsWrite
<1> QED BY <1>1, WholeHolds, PTL
-----------------------------------------------------------------------------
\* What is stored came, so it is in range while what came is.
CameBounded ==
  came.sentences <= MaxSentences /\ came.fixes <= MaxFixes /\ came.attitudes <= MaxAttitudes
LogTypes == TypeOK /\ CameBounded

LEMMA LogTypesInit == Init => LogTypes
<1> SUFFICES ASSUME Init PROVE LogTypes
  OBVIOUS
<1>1. /\ received \in [time: 0..MaxSentences, sentence: 0..MaxSentences, flag: BOOLEAN]
      /\ position \in [fix: 0..MaxFixes, flag: BOOLEAN, time: 0..MaxFixes]
      /\ attitude \in [value: 0..MaxAttitudes, time: 0..MaxAttitudes]
  BY MagsLogAssumption DEF Init
<1>2. NoRow \in Rows
  BY DEF NoRow, Rows
<1>3. row \in Rows /\ rows.last \in Rows /\ rows.previous \in Rows /\ rows.count \in 0..MaxSentences
  <2>1. row = NoRow /\ rows.last = NoRow /\ rows.previous = NoRow /\ rows.count = 0
    BY DEF Init
  <2> QED BY <1>2, <2>1, MagsLogAssumption
<1>4. file \in [open: BOOLEAN, good: BOOLEAN]
  BY DEF Init
<1>5. armed \in BOOLEAN /\ logStarted \in BOOLEAN /\ cut \in BOOLEAN /\ main \in MainPcs /\ logger \in LoggerPcs
  BY DEF Init, MainPcs, LoggerPcs
<1>6. CameBounded
  BY MagsLogAssumption DEF Init, CameBounded
<1> QED BY <1>1, <1>3, <1>4, <1>5, <1>6 DEF LogTypes, TypeOK

\* A message more has come only below its bound.
LEMMA CameStaysBounded ==
  ASSUME LogInv, CameBounded, Main
  PROVE CameBounded'
<1>1. came.sentences \in Nat /\ came.fixes \in Nat /\ came.attitudes \in Nat
  BY DEF LogInv, Types
<1>2. PICK s, f, a, c, t : came = [sentences |-> s, fixes |-> f, attitudes |-> a, commands |-> c, stopped |-> t]
  BY DEF LogInv, Types
<1>3. CASE SentenceReceived
  <2>1. came'.sentences = s + 1 /\ s < MaxSentences /\ came'.fixes = f /\ came'.attitudes = a
    BY <1>2, <1>3 DEF SentenceReceived
  <2> QED BY <1>1, <1>2, <2>1, MagsLogAssumption DEF CameBounded
<1>4. CASE FixReceived
  <2>1. came'.sentences = s /\ f < MaxFixes /\ came'.fixes = f + 1 /\ came'.attitudes = a
    BY <1>2, <1>4 DEF FixReceived
  <2> QED BY <1>1, <1>2, <2>1, MagsLogAssumption DEF CameBounded
<1>5. CASE AttitudeReceived
  <2>1. came'.sentences = s /\ a < MaxAttitudes /\ came'.fixes = f /\ came'.attitudes = a + 1
    BY <1>2, <1>5 DEF AttitudeReceived
  <2> QED BY <1>1, <1>2, <2>1, MagsLogAssumption DEF CameBounded
<1>6. CASE Heartbeat \/ StartCommand \/ CcrReply \/ StopCommand
  <2>1. came'.sentences = s /\ came'.fixes = f /\ came'.attitudes = a
    BY <1>2, <1>6 DEF Heartbeat, StartCommand, CcrReply, CcrReplyStarts, StopCommand
  <2> QED BY <1>2, <2>1 DEF CameBounded
<1>7. CASE SentenceCopied \/ SentenceFlagged \/ FixFlagged \/ FixTimed \/ AttitudeTimed \/ MainStartsLogging
  <2>1. UNCHANGED came
    BY <1>7 DEF SentenceCopied, SentenceFlagged, FixFlagged, FixTimed, AttitudeTimed, MainStartsLogging
  <2> QED BY <2>1 DEF CameBounded
<1> QED BY <1>3, <1>4, <1>5, <1>6, <1>7 DEF Main

\* The stream and the switches, on either thread.
LEMMA StreamTyped ==
  ASSUME TypeOK, Main \/ Logger
  PROVE file' \in [open: BOOLEAN, good: BOOLEAN] /\ armed' \in BOOLEAN /\ logStarted' \in BOOLEAN
<1>1. file \in [open: BOOLEAN, good: BOOLEAN] /\ armed \in BOOLEAN /\ logStarted \in BOOLEAN
  BY DEF TypeOK
<1>2. \/ UNCHANGED <<file, armed, logStarted>>
      \/ UNCHANGED armed /\ \E pc \in Starting : StartLoggingStep(pc)
      \/ UNCHANGED <<file, logStarted>> /\ armed' \in BOOLEAN
      \/ UNCHANGED <<file, armed>> /\ logStarted' = FALSE
  <2>1. CASE Main
    BY <2>1 DEF Main, SentenceReceived, SentenceCopied, SentenceFlagged, FixReceived, FixFlagged, FixTimed,
       AttitudeReceived, AttitudeTimed, Heartbeat, StartCommand, CcrReply, CcrReplyStarts, MainStartsLogging,
       StopCommand, shared
  <2>2. CASE Logger
    BY <2>2 DEF Logger, TurnBegins, LoggerStartsLogging, RowChecked, RowTime, RowSentence, RowClear, RowFix,
       RowFixTime, RowFixValue, RowFixClear, RowBlank, RowAttitude, RowAttitudeTime, RowAttitudeValue,
       RowAttitudeClear, RowEnds, Writes, shared
  <2> QED BY <2>1, <2>2
<1>3. ASSUME NEW pc \in Starting, StartLoggingStep(pc)
      PROVE file' \in [open: BOOLEAN, good: BOOLEAN] /\ logStarted' \in BOOLEAN
  <2>1. CASE Close
    BY <1>1, <2>1 DEF Close
  <2>2. CASE Open
    <3>1. CASE file' = [open |-> TRUE, good |-> ~file.open]
      <4>1. PICK b \in BOOLEAN : b = ~file.open
        BY <1>1, Zenon
      <4>2. file' = [open |-> TRUE, good |-> b]
        BY <3>1, <4>1, Zenon
      <4> QED BY <1>1, <2>2, <4>2 DEF Open
    <3>2. CASE file' = [file EXCEPT !.good = FALSE]
      BY <1>1, <2>2, <3>2 DEF Open
    <3> QED BY <2>2, <3>1, <3>2 DEF Open
  <2>3. CASE Started
    BY <1>1, <2>3 DEF Started
  <2> QED BY <1>3, <2>1, <2>2, <2>3 DEF StartLoggingStep
<1> QED BY <1>1, <1>2, <1>3

\* Where the threads are.
LEMMA PlacesTyped ==
  ASSUME TypeOK, Main \/ Logger
  PROVE main' \in MainPcs /\ logger' \in LoggerPcs
<1>1. main \in MainPcs /\ logger \in LoggerPcs
  BY DEF TypeOK
<1>2. CASE Main
  BY <1>1, <1>2 DEF Main, SentenceReceived, SentenceCopied, SentenceFlagged, FixReceived, FixFlagged, FixTimed,
     AttitudeReceived, AttitudeTimed, Heartbeat, StartCommand, CcrReply, CcrReplyStarts, MainStartsLogging,
     StopCommand, MainPcs, Starting, After
<1>3. CASE Logger
  BY <1>1, <1>3 DEF Logger, TurnBegins, LoggerStartsLogging, RowChecked, RowTime, RowSentence, RowClear, RowFix,
     RowFixTime, RowFixValue, RowFixClear, RowBlank, RowAttitude, RowAttitudeTime, RowAttitudeValue,
     RowAttitudeClear, RowEnds, Writes, LoggerPcs, Starting, After
<1> QED BY <1>2, <1>3

\* The values, and their times.
LEMMA ValuesTyped ==
  ASSUME LogInv, LogTypes, Main \/ Logger, CameBounded'
  PROVE /\ position' \in [fix: 0..MaxFixes, flag: BOOLEAN, time: 0..MaxFixes]
        /\ attitude' \in [value: 0..MaxAttitudes, time: 0..MaxAttitudes]
<1>1. /\ position \in [fix: 0..MaxFixes, flag: BOOLEAN, time: 0..MaxFixes]
      /\ attitude \in [value: 0..MaxAttitudes, time: 0..MaxAttitudes]
  BY DEF LogTypes, TypeOK
<1>2. CASE FixReceived
  <2>1. PICK f : f = came'.fixes
    OBVIOUS
  <2>2. f \in 0..MaxFixes
    BY <1>2, <2>1, MagsLogAssumption DEF FixReceived, LogInv, Types, CameBounded
  <2>3. position' = [position EXCEPT !.fix = f] /\ UNCHANGED attitude
    BY <1>2, <2>1 DEF FixReceived
  <2> QED BY <1>1, <2>2, <2>3
<1>3. CASE FixTimed
  <2>1. came.fixes \in 0..MaxFixes
    BY MagsLogAssumption DEF LogTypes, CameBounded, LogInv, Types
  <2> QED BY <1>1, <1>3, <2>1 DEF FixTimed
<1>4. CASE AttitudeReceived
  <2>1. PICK a : a = came'.attitudes
    OBVIOUS
  <2>2. a \in 0..MaxAttitudes
    BY <1>4, <2>1, MagsLogAssumption DEF AttitudeReceived, LogInv, Types, CameBounded
  <2>3. attitude' = [attitude EXCEPT !.value = a] /\ UNCHANGED position
    BY <1>4, <2>1 DEF AttitudeReceived
  <2> QED BY <1>1, <2>2, <2>3
<1>5. CASE AttitudeTimed
  <2>1. came.attitudes \in 0..MaxAttitudes
    BY MagsLogAssumption DEF LogTypes, CameBounded, LogInv, Types
  <2> QED BY <1>1, <1>5, <2>1 DEF AttitudeTimed
<1>6. CASE FixFlagged \/ RowFixClear
  <2>1. UNCHANGED attitude /\ \E b \in BOOLEAN : position' = [position EXCEPT !.flag = b]
    BY <1>6 DEF FixFlagged, RowFixClear
  <2> QED BY <1>1, <2>1
<1>7. CASE RowAttitudeClear
  <2>1. 0 \in 0..MaxAttitudes
    BY MagsLogAssumption
  <2> QED BY <1>1, <1>7, <2>1 DEF RowAttitudeClear
<1>8. CASE UNCHANGED <<position, attitude>>
  BY <1>1, <1>8
<1>9. UNCHANGED <<position, attitude>>
        \/ FixReceived \/ FixTimed \/ FixFlagged \/ AttitudeReceived \/ AttitudeTimed \/ RowFixClear
        \/ RowAttitudeClear
  BY DEF Main, SentenceReceived, SentenceCopied, SentenceFlagged, Heartbeat, StartCommand, CcrReply,
     CcrReplyStarts, MainStartsLogging, StopCommand, Logger, TurnBegins, LoggerStartsLogging, RowChecked, RowTime,
     RowSentence, RowClear, RowFix, RowFixTime, RowFixValue, RowBlank, RowAttitude, RowAttitudeTime,
     RowAttitudeValue, RowEnds, Writes, shared
<1> QED BY <1>2, <1>3, <1>4, <1>5, <1>6, <1>7, <1>8, <1>9

LEMMA LogTypesStep == LogInv /\ LogInv' /\ LogTypes /\ [Next]_vars => LogTypes'
<1> SUFFICES ASSUME LogInv, LogInv', LogTypes, [Next]_vars PROVE LogTypes'
  OBVIOUS
<1>1. CASE UNCHANGED vars
  BY <1>1 DEF vars, LogTypes, TypeOK, CameBounded
<1>2. CASE Next
  <2>1. (Main \/ Logger) /\ cut' \in BOOLEAN
    BY <1>2 DEF Next, LogTypes, TypeOK
  <2>2. CameBounded'
    <3>1. Logger => UNCHANGED came
      BY DEF Logger, TurnBegins, LoggerStartsLogging, RowChecked, RowTime, RowSentence, RowClear, RowFix,
         RowFixTime, RowFixValue, RowFixClear, RowBlank, RowAttitude, RowAttitudeTime, RowAttitudeValue,
         RowAttitudeClear, RowEnds, Writes
    <3> QED BY <2>1, <3>1, CameStaysBounded DEF LogTypes, CameBounded
  <2>3. received' \in [time: 0..MaxSentences, sentence: 0..MaxSentences, flag: BOOLEAN]
    <3>1. received' \in Sentences /\ came'.sentences \in Nat /\ came'.sentences <= MaxSentences
      BY <2>2 DEF LogInv, Types, CameBounded
    <3>2. received'.time <= MaxSentences /\ received'.sentence <= MaxSentences
      BY <3>1, MagsLogAssumption DEF LogInv, Stamped
    <3> QED BY <3>1, <3>2, MagsLogAssumption
  <2>4. row' \in Rows /\ rows'.last \in Rows /\ rows'.previous \in Rows /\ rows'.count \in 0..MaxSentences
    <3>1. row' \in Rows /\ rows' \in Histories
      BY DEF LogInv, Types
    <3>2. rows'.count \in Nat /\ rows'.last \in Rows /\ rows'.previous \in Rows
      BY <3>1
    <3>3. rows'.count <= came'.sentences /\ came'.sentences \in Nat
      BY <3>2 DEF LogInv, Types, RowsCounted
    <3> QED BY <2>2, <3>1, <3>2, <3>3, MagsLogAssumption DEF CameBounded
  <2>5. /\ file' \in [open: BOOLEAN, good: BOOLEAN] /\ armed' \in BOOLEAN /\ logStarted' \in BOOLEAN
        /\ main' \in MainPcs /\ logger' \in LoggerPcs
    BY <2>1, StreamTyped, PlacesTyped DEF LogTypes
  <2>6. /\ position' \in [fix: 0..MaxFixes, flag: BOOLEAN, time: 0..MaxFixes]
        /\ attitude' \in [value: 0..MaxAttitudes, time: 0..MaxAttitudes]
    BY <2>1, <2>2, ValuesTyped
  <2> QED BY <2>1, <2>2, <2>3, <2>4, <2>5, <2>6 DEF LogTypes, TypeOK
<1> QED BY <1>1, <1>2

\* The two threads of the logger: whatever they interleave, what is stored and what is
\* written came from the plane or the board, and both threads are always within a handler or a turn.
THEOREM TypeCorrect == Spec => []TypeOK
<1>1. LogTypes => TypeOK
  BY DEF LogTypes
<1> QED BY <1>1, LogHolds, LogTypesInit, LogTypesStep, PTL DEF Spec
=============================================================================
