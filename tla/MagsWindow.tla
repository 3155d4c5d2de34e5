----------------------------- MODULE MagsWindow -----------------------------
(***************************************************************************)
(* The calculator's windows (src/src/mags-logger/mags_calculator.cpp): the  *)
(* main thread accumulates records and, at WINDOW_SIZE of them, swaps the   *)
(* full vector for the one the calculator has emptied; the calculator's     *)
(* thread looks for a full vector between sleeps.  Only the main thread     *)
(* takes the lock, so the calculator may run between any two of its steps,  *)
(* those of vector::swap among them: it writes one pointer after another.   *)
(*                                                                          *)
(* Records are numbers in the order they came.  A tick is a tenth of a      *)
(* second; a turn of the calculator takes less than one.  A vector is where *)
(* it starts and where it finishes, each in the memory of one swap or       *)
(* another; it is empty where both are the same place.  vector::clear reads *)
(* the start and then makes that the finish.  The source orders the two     *)
(* writes of a swap, but without a lock on the other side the compiler and  *)
(* the processor may turn them round.                                       *)
(***************************************************************************)
EXTENDS Integers, Sequences

CONSTANTS
  Window,      \* WINDOW_SIZE
  Busy, Idle,  \* RUN_THREAD_TIMEOUT_IN_PROGRESS and TaskBase's timeout, in ticks
  PerTick,     \* the board's rate: most records in a tick
  MaxRecords   \* bound: records of the board

ASSUME MagsWindowAssumption ==
  /\ Window \in Nat \ {0} /\ PerTick \in Nat \ {0} /\ MaxRecords \in Nat
  /\ Busy \in Nat \ {0} /\ Idle \in Nat /\ Idle >= Busy

\* The board does not fill a window while the calculator sleeps: the code counts
\* on it.
ASSUME RateAssumption == PerTick * (Idle + 1) <= Window

VARIABLES
  recordsAccumulator, records,
  main,     \* the main thread: "idle", before the "Swap", or with one pointer written
  calc,     \* where the calculator is
  sleep,    \* ticks until it wakes
  start, finish,  \* in whose memory `records` starts and finishes: the swaps before
  begin,    \* the start that clear found
  tick,     \* records in this tick
  history   \* records that came and were taken, swaps, the age of a full window, and
            \* whether a test fell between the writes of the last swap, turned round

vars == <<recordsAccumulator, records, main, calc, sleep, start, finish, begin, tick, history>>

MainPcs == {"idle", "Swap", "StartWritten", "FinishWritten"}
CalcPcs == {"asleep", "Empty", "Begin", "End", "Return"}

TypeOK ==
  /\ recordsAccumulator \in Seq(1..MaxRecords) /\ records \in Seq(1..MaxRecords)
  /\ main \in MainPcs /\ calc \in CalcPcs
  /\ sleep \in 0..Idle /\ tick \in 0..PerTick
  /\ start \in 0..MaxRecords /\ finish \in 0..MaxRecords /\ begin \in 0..MaxRecords
  /\ history \in [came: 0..MaxRecords, taken: 0..MaxRecords, swaps: 0..MaxRecords,
                  age: Nat, met: BOOLEAN]

Init ==
  /\ recordsAccumulator = <<>> /\ records = <<>>
  /\ main = "idle" /\ calc = "Empty" /\ sleep = 0
  /\ start = 0 /\ finish = 0 /\ begin = 0 /\ tick = 0
  /\ history = [came |-> 0, taken |-> 0, swaps |-> 0, age |-> 0, met |-> FALSE]

\* Between the two writes of a swap.
MidSwap == main \in {"StartWritten", "FinishWritten"}

\* Fault: records are given on from half a window.
PushBackHalf ==
  /\ main = "idle" /\ tick < PerTick /\ history.came < MaxRecords
  /\ history' = [history EXCEPT !.came = @ + 1]
  /\ recordsAccumulator' = Append(recordsAccumulator, history'.came)
  /\ main' = IF 2 * Len(recordsAccumulator') >= Window THEN "Swap" ELSE "idle"
  /\ tick' = tick + 1
  /\ UNCHANGED <<records, calc, sleep, start, finish, begin>>
\* onMagsDataReceived
PushBack ==
  /\ main = "idle" /\ tick < PerTick /\ history.came < MaxRecords
  /\ history' = [history EXCEPT !.came = @ + 1]
  /\ recordsAccumulator' = Append(recordsAccumulator, history'.came)
  /\ main' = IF Len(recordsAccumulator') >= Window THEN "Swap" ELSE "idle"
  /\ tick' = tick + 1
  /\ UNCHANGED <<records, calc, sleep, start, finish, begin>>

\* records.swap(recordsAccumulator): one pointer ...
SwapBegins ==
  /\ main = "Swap"
  /\ \/ start' = history.swaps + 1 /\ main' = "StartWritten" /\ UNCHANGED finish
     \/ finish' = history.swaps + 1 /\ main' = "FinishWritten" /\ UNCHANGED start
  /\ history' = [history EXCEPT !.met = FALSE]
  /\ UNCHANGED <<recordsAccumulator, records, calc, sleep, begin, tick>>

\* ... and the other, over whatever the calculator has made of it.
\* Fault: the full vector is copied, and goes on being filled.
SwapCopies ==
  /\ MidSwap
  /\ IF main = "StartWritten" THEN finish' = history.swaps + 1 /\ UNCHANGED start
     ELSE start' = history.swaps + 1 /\ UNCHANGED finish
  /\ records' = recordsAccumulator
  /\ history' = [history EXCEPT !.swaps = @ + 1, !.age = 0]
  /\ main' = "idle"
  /\ UNCHANGED <<recordsAccumulator, calc, sleep, begin, tick>>
SwapEnds ==
  /\ MidSwap
  /\ IF main = "StartWritten" THEN finish' = history.swaps + 1 /\ UNCHANGED start
     ELSE start' = history.swaps + 1 /\ UNCHANGED finish
  /\ records' = recordsAccumulator
  /\ recordsAccumulator' = records
  /\ history' = [history EXCEPT !.swaps = @ + 1, !.age = 0]
  /\ main' = "idle"
  /\ UNCHANGED <<calc, sleep, begin, tick>>

\* loop(): one pointer swapped is a vector that is not empty, whatever there is in it.
FindsWindow ==
  /\ calc = "Empty"
  /\ calc' = IF start # finish \/ records # <<>> THEN "Begin" ELSE "Return"
  /\ history' = [history EXCEPT !.met = @ \/ main = "FinishWritten"]
  /\ UNCHANGED <<recordsAccumulator, records, main, sleep, start, finish, begin, tick>>

\* onRecordsAccumulated: clear() finds the vector ...
ClearBegins ==
  /\ calc = "Begin"
  /\ begin' = start
  /\ calc' = "End"
  /\ UNCHANGED <<recordsAccumulator, records, main, sleep, start, finish, tick, history>>

\* ... and ends it where it began: its records are gone if they are there.
\* Fault: it is left as it is.
ClearMissed ==
  /\ calc = "End"
  /\ calc' = "Return"
  /\ UNCHANGED <<recordsAccumulator, records, main, sleep, start, finish, begin, tick, history>>
ClearEnds ==
  /\ calc = "End"
  /\ finish' = begin
  /\ IF begin = start /\ ~MidSwap
     THEN records' = <<>> /\ history' = [history EXCEPT !.taken = @ + Len(records)]
     ELSE UNCHANGED <<records, history>>
  /\ calc' = "Return"
  /\ UNCHANGED <<recordsAccumulator, main, sleep, start, begin, tick>>

\* recordsAccumulator.empty(): either answer while it is being swapped.
Returns ==
  /\ calc = "Return"
  /\ \/ sleep' = IF recordsAccumulator = <<>> THEN Idle ELSE Busy
     \/ MidSwap /\ sleep' = Idle
  /\ calc' = "asleep"
  /\ UNCHANGED <<recordsAccumulator, records, main, start, finish, begin, tick, history>>

Wakes ==
  /\ calc = "asleep" /\ sleep = 0
  /\ calc' = "Empty"
  /\ UNCHANGED <<recordsAccumulator, records, main, sleep, start, finish, begin, tick, history>>

\* The clock: a turn ends in the tick it began in, and so does a handler.
Tick ==
  /\ calc = "asleep" /\ sleep > 0 /\ main = "idle"
  /\ sleep' = sleep - 1
  /\ tick' = 0
  /\ history' = [history EXCEPT !.age = IF records = <<>> THEN 0 ELSE @ + 1]
  /\ UNCHANGED <<recordsAccumulator, records, main, calc, start, finish, begin>>

Next ==
  \/ PushBack \/ SwapBegins \/ SwapEnds
  \/ FindsWindow \/ ClearBegins \/ ClearEnds \/ Returns \/ Wakes
  \/ Tick

Spec == Init /\ [][Next]_vars

-----------------------------------------------------------------------------
\* Every record that came is in its place: the windows taken are whole windows, the
\* next ones follow in order, no record lost, repeated or between two windows.  So it is
\* also behind a clear that fell within a swap, which takes nothing or takes it all.
WindowsInOrder ==
  /\ Len(records) \in {0, Window}
  /\ Len(recordsAccumulator) <= Window
  /\ records \o recordsAccumulator
       = [i \in 1..(history.came - history.taken) |-> history.taken + i]

\* No lock keeps a clear from a swap, and one may begin, end or do both within the other.
\* A vector still starts and finishes in the same memory, unless a test fell between the
\* writes of the last swap and these were turned round; and then it does by the next one.
NeverTorn == ~MidSwap /\ ~history.met => start = finish

\* A full window waits no longer than the longest sleep: with nothing accumulated
\* behind it, the calculator sleeps for the idle time while a window may be due; and a
\* clear that falls within the swap leaves the window for the next turn.
WindowTakenInTime == records # <<>> => history.age <= Idle
=============================================================================
