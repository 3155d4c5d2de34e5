------------------------------ MODULE CcrLink ------------------------------
(***************************************************************************)
(* Setting the CCR (cycle count) of the magnetometer board over the serial  *)
(* line: MagsLogger::onCcrSet, onCcrGet, the $MAG,CCR reply and the three   *)
(* CommandRequesters (src/src/mags-logger/mags_logger.cpp), which share the *)
(* one-sentence send buffer of NmeaSentenceReader                           *)
(* (src/src/mags-logger/nmea_sentence_reader.cpp).  A send while the buffer *)
(* is taken is refused, and the requester counts the try all the same.      *)
(*                                                                          *)
(* The logger thread goes through the senders of one turn in their order;   *)
(* the main thread drains the buffer and handles replies in between.  Each  *)
(* requester's loop is one step here (GpsOnOff splits them), and so is each *)
(* handler but for the start of a log, which either thread makes: it reads  *)
(* the CCR for the file's name, opens the file, and only then counts as     *)
(* started.                                                                 *)
(***************************************************************************)
EXTENDS Retry, Sequences, SequencesExt

CONSTANTS
  Ccrs,         \* the cycle counts asked for
  Tries,        \* CCR_SET_REQUEST_TRIES, and the tries of the GET
  Timeout,      \* CCR_SET_REQUEST_PERIOD, in ticks
  MaxRequests,  \* bound: CCR requests, the one at the start included
  MaxWire       \* bound: sentences under way, in each direction

ASSUME CcrAssumption ==
  /\ Ccrs # {} /\ Ccrs \subseteq Nat \ {0}
  /\ Tries \in Nat \ {0} /\ Timeout \in Nat \ {0}
  /\ MaxRequests \in Nat /\ MaxWire \in Nat \ {0}

NoCcr == 0
Empty == [cmd |-> "none", ccr |-> NoCcr]
Get == [cmd |-> "GET", ccr |-> NoCcr]
Set(ccr) == [cmd |-> "SET", ccr |-> ccr]
Other == [cmd |-> "OTHER", ccr |-> NoCcr]   \* $MAG,STATUS and $MAG,OUT sentences

VARIABLES
  get,          \* ccrGetRequester
  set,          \* ccrSetRequester; value is its tag
  turn,         \* where the logger thread is in its turn
  start,        \* where each thread is in startLogging, and the CCR it read for the name
  slot,         \* NmeaSentenceReader::sendBuf
  toBoard,      \* GET and SET sentences under way to the board
  fromBoard,    \* $MAG,CCR replies under way
  board,        \* the CCR the board runs with
  ccrReceived,  \* as in MagsLogger
  logStarted,   \* as in MagsLogger
  logCcr,       \* the CCR in the name of the open log file
  seen          \* history: requests made, whether a sentence of an earlier one was
                \* under way at the latest, and whether the reply that confirmed it came
                \* in between the name and the end of the logger thread's last start

line == <<toBoard, fromBoard, board>>
log == <<start, logStarted, logCcr>>
vars == <<get, set, turn, slot, line, ccrReceived, log, seen>>

Sentences == {Empty, Get, Other} \cup {Set(c) : c \in Ccrs}
Threads == {"logger", "main"}
NotStarting == [at |-> "no", ccr |-> NoCcr]
Starting(t) == start[t].at # "no"
Requesters == [value: Ccrs \cup {NoCcr}, age: 0..Timeout, left: 0..Tries, confirmed: BOOLEAN]

TypeOK ==
  /\ get \in Requesters /\ set \in Requesters
  /\ turn \in {"arm", "status", "get", "set", "out"}
  /\ start \in [Threads -> [at: {"no", "asked", "named", "open"}, ccr: Ccrs \cup {NoCcr}]]
  /\ slot \in Sentences
  /\ toBoard \in BoundedSeq(Sentences \ {Empty, Other}, MaxWire)
  /\ fromBoard \in BoundedSeq(Ccrs \cup {NoCcr}, MaxWire)
  /\ board \in Ccrs \cup {NoCcr}
  /\ ccrReceived \in Ccrs \cup {NoCcr}
  /\ logStarted \in BOOLEAN
  /\ logCcr \in Ccrs \cup {NoCcr}
  /\ seen \in [requests: 0..MaxRequests, stale: BOOLEAN, cut: BOOLEAN]

Init ==
  /\ get = [value |-> NoCcr, age |-> Timeout, left |-> 0, confirmed |-> TRUE]
  /\ set = get
  /\ turn = "arm" /\ start = [t \in Threads |-> NotStarting]
  /\ slot = Empty
  /\ toBoard = <<>> /\ fromBoard = <<>>
  /\ board \in Ccrs \cup {NoCcr}
  /\ ccrReceived = NoCcr
  /\ logStarted = FALSE /\ logCcr = NoCcr
  /\ seen = [requests |-> 0, stale |-> FALSE, cut |-> FALSE]

\* setCommand: due at once, all tries left, not confirmed.
Armed(value) == [value |-> value, age |-> Timeout, left |-> Tries, confirmed |-> FALSE]

\* NmeaSentenceReader::send: refused while a sentence waits.
Offered(sentence) == IF slot = Empty THEN sentence ELSE slot

\* The rest of CommandRequester::loop, whether the sentence was taken or not.
Tried(r) == [r EXCEPT !.age = 0, !.left = Stored(@, @)]

\* Nothing of an earlier request is in the buffer or under way.
Clean == slot \in {Empty, Other} /\ toBoard = <<>> /\ fromBoard = <<>>

(***************************************************************************)
(* startLogging: the CCR for the name is read, the open file closed and the *)
(* new one opened, and at the end the log is started.  Only the main thread *)
(* changes the CCR received, so it reads at once; the logger thread makes   *)
(* the test before its start, and reads later.                              *)
(***************************************************************************)
\* A reply can no longer change the name the logger thread gives.
NameRead == start["logger"].at \in {"named", "open"}

\* The name is read.
Named(t, ccr) == start' = [start EXCEPT ![t] = [at |-> "named", ccr |-> ccr]]
Cut(cut) == seen' = [seen EXCEPT !.cut = cut]

Names ==
  /\ start["logger"].at = "asked"
  /\ Named("logger", ccrReceived) /\ Cut(FALSE)
  /\ UNCHANGED <<get, set, turn, slot, line, ccrReceived, logStarted, logCcr>>

Opens ==
  /\ start["logger"].at = "named"
  /\ start' = [start EXCEPT !["logger"] = [at |-> "open", ccr |-> NoCcr]]
  /\ logCcr' = start["logger"].ccr
  /\ UNCHANGED <<get, set, turn, slot, line, ccrReceived, logStarted, seen>>

Starts ==
  /\ start["logger"].at = "open"
  /\ start' = [start EXCEPT !["logger"] = NotStarting]
  /\ logStarted' = TRUE
  /\ UNCHANGED <<get, set, turn, slot, line, ccrReceived, logCcr, seen>>

\* On the main thread the two are one step: what the logger thread may do in between, test
\* logStarted or open and start a log of its own, it may as well do before or behind.
OpensAndStarts ==
  /\ start["main"].at = "named"
  /\ start' = [start EXCEPT !["main"] = NotStarting]
  /\ logCcr' = start["main"].ccr
  /\ logStarted' = TRUE
  /\ UNCHANGED <<get, set, turn, slot, line, ccrReceived, seen>>

(***************************************************************************)
(* The logger thread's turn: the log of an armed plane, returnStatus, then  *)
(* the requesters in order.                                                 *)
(***************************************************************************)
TurnArm(armed) ==
  /\ turn = "arm" /\ turn' = "status"
  /\ start' = IF armed /\ ~logStarted
              THEN [start EXCEPT !["logger"] = [at |-> "asked", ccr |-> NoCcr]]
              ELSE start
  /\ UNCHANGED <<get, set, slot, line, ccrReceived, logStarted, logCcr, seen>>

\* returnStatus, when its period is over.
TurnStatus ==
  /\ turn = "status" /\ turn' = "get" /\ ~Starting("logger")
  /\ slot' \in {slot, Offered(Other)}
  /\ UNCHANGED <<get, set, line, ccrReceived, log, seen>>

TurnGet ==
  /\ turn = "get" /\ turn' = "set"
  /\ IF IsDue(get, Timeout)
     THEN get' = Tried(get) /\ slot' = Offered(Get)
     ELSE UNCHANGED <<get, slot>>
  /\ UNCHANGED <<set, line, ccrReceived, log, seen>>

TurnSet ==
  /\ turn = "set" /\ turn' = "out"
  /\ IF IsDue(set, Timeout)
     THEN set' = Tried(set) /\ slot' = Offered(Set(set.value))
     ELSE UNCHANGED <<set, slot>>
  /\ UNCHANGED <<get, line, ccrReceived, log, seen>>

\* outSetCommandRequester, whose commands come at the ground station's will.
TurnOut ==
  /\ turn = "out" /\ turn' = "arm"
  /\ slot' \in {slot, Offered(Other)}
  /\ UNCHANGED <<get, set, line, ccrReceived, log, seen>>

(***************************************************************************)
(* The main thread, which does nothing else while it starts a log.          *)
(***************************************************************************)
\* onCcrSet, from a command or from initParams.
CcrSet(ccr) ==
  /\ ~Starting("main") /\ seen.requests < MaxRequests
  /\ set' = Armed(ccr)
  /\ get' = Armed(NoCcr)
  /\ seen' = [seen EXCEPT !.requests = @ + 1, !.stale = ~Clean, !.cut = FALSE]
  /\ UNCHANGED <<turn, slot, line, ccrReceived, log>>

\* processSend: any outcome of the write but 0 empties the buffer, and only a
\* whole sentence reaches the line.
Drain(written) ==
  /\ ~Starting("main") /\ slot # Empty
  /\ written => Len(toBoard) < MaxWire
  /\ slot' = Empty
  /\ toBoard' = IF written /\ slot # Other THEN Append(toBoard, slot) ELSE toBoard
  /\ UNCHANGED <<get, set, turn, fromBoard, board, ccrReceived, log, seen>>

\* Fault: every reply asks again.
AskAgain(found) == Armed(NoCcr)
\* The GET is confirmed, or armed again while the SET is not.
GetAfterReply(found) == IF IsFinished(found) THEN Answered(get, NoCcr) ELSE Armed(NoCcr)

\* Fault: the log goes on as it is.
LogKept(restarted, ccr) == UNCHANGED start
\* The log is restarted; a start on the logger thread goes on with the name it has.
LogRestarted(restarted, ccr) ==
  IF restarted THEN Named("main", ccr) ELSE UNCHANGED start

\* $MAG,CCR: a SET is looked at, and the log restarted, only while it is open.
CcrReply ==
  /\ ~Starting("main") /\ fromBoard # <<>>
  /\ LET ccr == Head(fromBoard)
         found == Answered(set, ccr)
     IN /\ fromBoard' = Tail(fromBoard)
        /\ ccrReceived' = ccr
        /\ set' = found
        /\ get' = GetAfterReply(found)
        /\ LogRestarted(~IsFinished(set) /\ logStarted, ccr)
        /\ Cut(IF found.confirmed /\ ~set.confirmed THEN NameRead ELSE seen.cut)
  /\ UNCHANGED <<turn, slot, toBoard, board, logStarted, logCcr>>

\* MAGS_LOGGING_START, of a started log as well; and MAGS_LOGGING_STOP, which leaves
\* the file open.
LoggingStart ==
  /\ ~Starting("main") /\ Named("main", ccrReceived) /\ Cut(seen.cut /\ NameRead)
  /\ UNCHANGED <<get, set, turn, slot, line, ccrReceived, logStarted, logCcr>>

LoggingStop ==
  /\ ~Starting("main") /\ logStarted
  /\ logStarted' = FALSE
  /\ UNCHANGED <<get, set, turn, slot, line, ccrReceived, start, logCcr, seen>>

(***************************************************************************)
(* The board and the line, as the program expects them.                     *)
(***************************************************************************)
BoardTakes ==
  /\ toBoard # <<>>
  /\ toBoard' = Tail(toBoard)
  /\ board' = IF Head(toBoard).cmd = "SET" THEN Head(toBoard).ccr ELSE board
  /\ IF Head(toBoard).cmd = "GET" /\ Len(fromBoard) < MaxWire
     THEN fromBoard' = Append(fromBoard, board)
     ELSE UNCHANGED fromBoard
  /\ UNCHANGED <<get, set, turn, slot, ccrReceived, log, seen>>

LineLoses ==
  /\ \/ toBoard # <<>> /\ toBoard' = Tail(toBoard) /\ UNCHANGED fromBoard
     \/ fromBoard # <<>> /\ fromBoard' = Tail(fromBoard) /\ UNCHANGED toBoard
  /\ UNCHANGED <<get, set, turn, slot, board, ccrReceived, log, seen>>

Tick ==
  /\ get.age < Timeout \/ set.age < Timeout
  /\ get' = [get EXCEPT !.age = Aged(@, Timeout)]
  /\ set' = [set EXCEPT !.age = Aged(@, Timeout)]
  /\ UNCHANGED <<turn, slot, line, ccrReceived, log, seen>>

Turn ==
  \/ \E a \in BOOLEAN : TurnArm(a)
  \/ TurnStatus \/ TurnGet \/ TurnSet \/ TurnOut
  \/ Names \/ Opens \/ Starts

Next ==
  \/ Turn
  \/ \E c \in Ccrs : CcrSet(c)
  \/ \E w \in BOOLEAN : Drain(w)
  \/ CcrReply \/ LoggingStart \/ LoggingStop \/ OpensAndStarts
  \/ BoardTakes \/ LineLoses
  \/ Tick

Spec == Init /\ [][Next]_vars
FairSpec == Spec /\ WF_vars(Turn) /\ WF_vars(Tick)

-----------------------------------------------------------------------------
\* Polling ends: the GET is armed again by every reply that does not confirm
\* the SET, and still both requesters come to rest after the last request.
PollingEnds == <>[](IsFinished(get) /\ IsFinished(set))

\* The file being written carries the CCR that was confirmed, whether the log was started
\* before the confirmation or after, by which thread, and how often: but for a reply that
\* confirmed it while the logger thread was starting the log, the name already read.
LogNamedAfterCcr ==
  /\ ~seen.stale /\ seen.requests > 0 /\ set.confirmed
  /\ logStarted /\ ~seen.cut /\ \A t \in Threads : ~Starting(t)
  => logCcr = set.value

\* A confirmed CCR is the one the board runs with, unless a sentence of an
\* earlier request was still under way when it was asked for.
ConfirmedIsSet ==
  ~seen.stale /\ seen.requests > 0 /\ set.confirmed => board = set.value
=============================================================================
