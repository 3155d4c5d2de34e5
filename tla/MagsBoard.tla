----------------------------- MODULE MagsBoard -----------------------------
(***************************************************************************)
(* A sentence of the magnetometer board, from the line to the calculator:   *)
(* NmeaSentenceReader cuts the line into sentences                          *)
(* (src/src/mags-logger/nmea_sentence_reader.cpp), the handler reads        *)
(* "$M,mags-time,mx1,my1,mz1,mx2,my2,mz2,accel-time,..." field by field and *)
(* hands a record to MagsWindow, and the logger's thread turns the counter  *)
(* of each second into what the status word shows                           *)
(* (mags_logger.cpp, mags_dispatcher.cpp).  The main thread handles and     *)
(* swaps; MagsWindow's steps are its steps, and all others leave it alone.  *)
(*                                                                          *)
(* A part is the text from one comma to the next, its comma in front; the   *)
(* fields behind the magnetometers are one, as is the checksum with the     *)
(* last.  The line may lose a part or make it unreadable; nothing checks    *)
(* the sentence.  The accelerometer is detected as the magnetometers are,   *)
(* by another field.  Of counters only whether they are 0 is kept.          *)
(***************************************************************************)
EXTENDS MagsWindow, SequencesExt

CONSTANTS
  Second,     \* 1000 ms, in ticks: the detection's timeout and the counters' period
  MaxDamage,  \* bound: parts lost or unreadable
  MaxSilent   \* bound: sentences without a magnetometer time

ASSUME MagsBoardAssumption ==
  Second \in Nat \ {0} /\ MaxDamage \in Nat /\ MaxSilent \in Nat

VARIABLES
  reader,     \* NmeaSentenceReader: collecting or not, and the parts so far
  handler,    \* the main thread in the handler: its place, or the end of the program at a
              \* null pointer, and the time and the six axes it has read
  detected,   \* outMagsDetected
  counter,    \* magsReceivedCounter: counter > 0, count > 0, and the logger between
              \* the two assignments of restart()
  ages,       \* ticks since magsDetectedLastTime and counterTime
  line        \* history: parts damaged, sentences without a time; has the last one come
              \* to its end, has the latest one come whole behind it?

boardVars == <<reader, handler, detected, counter, ages, line>>
allVars == <<vars, boardVars>>

Parts == <<"M", "time", "x1", "y1", "z1", "x2", "y2", "z2", "accel", "end">>
Axes == 1..6
AxisOf(a) == Parts[a + 2]
Asked == 8  \* the parts of $M that the handler asks for
Numbers == {Parts[i] : i \in 2..9}
Readings == [part: Numbers, new: BOOLEAN]  \* of the latest sentence, or an earlier one
None == [part |-> "none", new |-> FALSE]
OldAge == 4 * Second  \* from here on, ages are not told apart
\* What a part may be when it has come over the line.
Part == [part: Numbers \cup {"M", "zero", "end", "text"}, new: BOOLEAN]
Taken == Readings \cup {None}

\* The handler's variables are its own.
Outside == [at |-> "none", time |-> None, axes |-> [a \in Axes |-> None]]

BoardTypeOK ==
  /\ reader \in [on: BOOLEAN, parts: Seq(Part)]
  /\ handler \in [at: {"none", "count", "push", "null"}, time: Taken, axes: [Axes -> Taken]]
  /\ detected \in BOOLEAN
  /\ counter \in [counter: BOOLEAN, count: BOOLEAN, restarting: BOOLEAN]
  /\ ages \in [mags: 0..OldAge, restart: 0..Second]
  /\ line \in [damage: 0..MaxDamage, silent: 0..MaxSilent, ended: BOOLEAN, whole: BOOLEAN]

BoardInit ==
  /\ Init
  /\ reader = [on |-> FALSE, parts |-> <<>>]
  /\ handler = Outside
  /\ detected = FALSE
  /\ counter = [counter |-> FALSE, count |-> FALSE, restarting |-> FALSE]
  /\ ages = [mags |-> 0, restart |-> 0]  \* both times are that of the start
  /\ line = [damage |-> 0, silent |-> 0, ended |-> TRUE, whole |-> FALSE]

-----------------------------------------------------------------------------
(***************************************************************************)
(* receiveChar, a part at a time: a '$' begins a sentence only where none   *)
(* is being collected, and adds to the field before it otherwise; a field   *)
(* is collected or passed over; the end gives the sentence on.              *)
(***************************************************************************)
\* Fault: bufferSize is not set back to 0.
NotEmptied(r) == r
Emptied(r) == [r EXCEPT !.parts = <<>>]

ReceivePart(r, p) ==
  CASE p.part = "M" -> IF r.on THEN r ELSE [Emptied(r) EXCEPT !.on = TRUE]
    [] p.part = "end" -> [r EXCEPT !.on = FALSE]
    [] OTHER -> IF r.on THEN [r EXCEPT !.parts = Append(@, p)] ELSE r

\* What the line makes of a sentence: at most one part is lost, or no number.
Sent(mags) ==
  [i \in 1..Len(Parts) |->
     [part |-> IF Parts[i] = "time" /\ ~mags THEN "zero" ELSE Parts[i], new |-> TRUE]]
Lost(s, i) == RemoveAt(s, i)
Unreadable(s, i) == [s EXCEPT ![i].part = "text"]
OnTheLine(mags) ==
  {[parts |-> Sent(mags), damaged |-> FALSE]}
    \cup {[parts |-> Lost(Sent(mags), i), damaged |-> TRUE] : i \in 1..Len(Parts)}
    \cup {[parts |-> Unreadable(Sent(mags), i), damaged |-> TRUE] : i \in 2..(Len(Parts) - 1)}

-----------------------------------------------------------------------------
(***************************************************************************)
(* The handler.  nextInt leaves its variable alone where it finds no        *)
(* number, and it reads through a null pointer where the text of the last   *)
(* part is not all read: the line end that would stop it is stripped.       *)
(***************************************************************************)
Field(parts, i, default) ==
  IF i <= Len(parts) /\ parts[i].part \in Numbers THEN parts[i] ELSE default

\* mx, my and mz are used twice.
Axis(parts, a) ==
  Field(parts, a + 1, IF a <= 3 THEN None ELSE Field(parts, a - 2, None))
Read(parts) ==
  [at |-> "count", time |-> Field(parts, 1, None), axes |-> [a \in Axes |-> Axis(parts, a)]]

\* With fewer parts than it asks for, it depends on the text of the last one, and on
\* whether the accelerometer's fields are asked for.
Handled(parts) ==
  {Read(parts)} \cup {[Read(parts) EXCEPT !.at = "null"] : i \in (Len(parts) + 1)..Asked}

\* A sentence comes over the line, and the parts of one before are no longer new.
Receive ==
  /\ handler.at = "none" /\ main = "idle" /\ tick < PerTick /\ history.came < MaxRecords
  /\ \E mags \in BOOLEAN : \E s \in OnTheLine(mags) :
       LET before == [reader EXCEPT !.parts = [i \in DOMAIN @ |-> [@[i] EXCEPT !.new = FALSE]]]
           after == FoldLeft(ReceivePart, before, s.parts)
           ends == Last(s.parts).part = "end"
       IN /\ line.damage + (IF s.damaged THEN 1 ELSE 0) <= MaxDamage
          /\ line.silent + (IF mags THEN 0 ELSE 1) <= MaxSilent
          /\ line' = [damage |-> line.damage + (IF s.damaged THEN 1 ELSE 0),
                      silent |-> line.silent + (IF mags THEN 0 ELSE 1),
                      ended |-> ends, whole |-> line.ended /\ ~s.damaged /\ mags]
          /\ IF ends /\ (reader.on \/ s.parts[1].part = "M")
             THEN handler' \in Handled(after.parts) /\ reader' = Emptied(after)
             ELSE reader' = after /\ UNCHANGED handler
  /\ UNCHANGED <<vars, detected, counter, ages>>

\* Fault: once detected, for ever.
DetectOnce ==
  /\ handler.at = "count"
  /\ counter' = [counter EXCEPT !.counter = TRUE]
  /\ ages' = [ages EXCEPT !.mags = IF handler.time # None THEN 0 ELSE @]
  /\ detected' = (detected \/ handler.time # None)
  /\ handler' = IF handler.time # None THEN [handler EXCEPT !.at = "push"] ELSE Outside
  /\ UNCHANGED <<vars, reader, line>>
\* magsReceivedCounter.add, and the detection.
Detect ==
  /\ handler.at = "count"
  /\ counter' = [counter EXCEPT !.counter = TRUE]
  /\ ages' = [ages EXCEPT !.mags = IF handler.time # None THEN 0 ELSE @]
  /\ detected' = (ages'.mags < Second)
  /\ handler' = IF handler.time # None THEN [handler EXCEPT !.at = "push"] ELSE Outside
  /\ UNCHANGED <<vars, reader, line>>

\* The listener is called when there is a time.
HandOver ==
  /\ handler.at = "push" /\ PushBack
  /\ handler' = Outside
  /\ UNCHANGED <<reader, detected, counter, ages, line>>

-----------------------------------------------------------------------------
(***************************************************************************)
(* The logger's thread: loop() restarts the counters each second.           *)
(***************************************************************************)
Restart ==
  /\ ages.restart >= Second /\ ~counter.restarting
  /\ counter' = [counter EXCEPT !.count = counter.counter, !.restarting = TRUE]
  /\ ages' = [ages EXCEPT !.restart = 0]
  /\ UNCHANGED <<vars, reader, handler, detected, line>>
RestartEnds ==
  /\ counter.restarting
  /\ counter' = [counter EXCEPT !.counter = FALSE, !.restarting = FALSE]
  /\ UNCHANGED <<vars, reader, handler, detected, ages, line>>

\* The logger has many turns in a tick, so no restart is put off to the next.
BoardTick ==
  /\ handler.at = "none" /\ ages.restart < Second /\ ~counter.restarting
  /\ Tick
  /\ ages' = [mags |-> IF ages.mags < OldAge THEN ages.mags + 1 ELSE OldAge,
              restart |-> ages.restart + 1]
  /\ UNCHANGED <<reader, handler, detected, counter, line>>

Others ==
  /\ SwapBegins \/ SwapEnds \/ FindsWindow \/ ClearBegins \/ ClearEnds \/ Returns \/ Wakes
  /\ UNCHANGED boardVars

\* Every thread ends with the program.
BoardNext ==
  /\ handler.at # "null"
  /\ \/ Receive \/ Detect \/ HandOver \/ Others
     \/ Restart \/ RestartEnds \/ BoardTick

BoardSpec == BoardInit /\ [][BoardNext]_allVars

-----------------------------------------------------------------------------
\* Whatever was lost or garbled before, a sentence that comes whole behind the end of
\* another one does not end the program, and is recorded as it was sent, each value in
\* its place.
WholeSentenceRecorded ==
  line.whole /\ handler.at # "none" =>
    /\ handler.at # "null"
    /\ handler.time = [part |-> "time", new |-> TRUE]
    /\ \A a \in Axes : handler.axes[a] = [part |-> AxisOf(a), new |-> TRUE]

\* A status that shows the board online and its magnetometers detected is never about
\* magnetometers that have given nothing for three seconds, though the
\* detection stands still with the board and the counter is restarted
\* under the handler.
StatusIsRecent == counter.count /\ detected => ages.mags < 3 * Second
=============================================================================
