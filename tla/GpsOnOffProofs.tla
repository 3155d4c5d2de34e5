--------------------------- MODULE GpsOnOffProofs ---------------------------
(***************************************************************************)
(* Theorems about GpsOnOff, for every number of retries, every timeout and  *)
(* any number of requests, with threads that preempt each other or not.     *)
(***************************************************************************)
EXTENDS GpsOnOff, TLAPS

\* The types alone are not inductive: a turn of the loop reads the type of the
\* request it works on, which has to be one.
TypeInv == TypeOK /\ TurnHasRequest

\* Registers go back to zero, which is in the range of every counter.
LEMMA ZeroInRange == 0 \in 0..RepeatCount /\ 0 \in 0..SrcRepeatCount
  BY RetryAssumption

\* What the history records about a PARAM_SET stays in range.
LEMMA SentType == ASSUME NEW t \in Tallies, NEW v \in {0, 1} PROVE Sent(t, v) \in Tallies
<1> DEFINE n == t.tries + 1
           last == IF planeReady THEN v ELSE t.lastSet
<1>1. n \in Nat /\ last \in {-1, 0, 1}
  BY DEF Tallies
<1>2. Sent(t, v) = [t EXCEPT !.tries = n, !.lastSet = last]
  BY DEF Sent
<1> HIDE DEF n, last
<1> QED
  BY <1>1, <1>2 DEF Tallies

\* What the history records about an aux function stays in range.
LEMMA SwitchedType == ASSUME NEW t \in Tallies, NEW k \in Kinds PROVE Switched(t, k) \in Tallies
<1> DEFINE n == t.aux + 1
           last == IF planeReady THEN k ELSE t.lastAux
<1>1. n \in Nat /\ last \in Kinds \cup {"NONE"}
  BY DEF Tallies
<1>2. Switched(t, k) = [t EXCEPT !.aux = n, !.lastAux = last]
  BY DEF Switched
<1> HIDE DEF n, last
<1> QED
  BY <1>1, <1>2 DEF Tallies

\* The handlers of the main thread keep every field of both threads' state in
\* its range, whatever the logger thread does between two of their statements.
LEMMA HandlerTypes == TypeInv /\ Handler => TypeInv'
<1> USE RetryAssumption DEF TypeInv, TypeOK, TurnHasRequest, MainAt
<1> SUFFICES ASSUME TypeInv, Handler PROVE TypeInv'
  OBVIOUS
<1>1. CASE SetInProgress
  BY <1>1 DEF SetInProgress, Mains, MainPcs, RequestPcs, Kinds, Results, InProgress, Started
<1>2. CASE SetParamValue
  BY <1>2 DEF SetParamValue, Mains, MainPcs, RequestPcs, Setters, ParamOf
<1>3. CASE SetParamSendTime
  BY <1>3 DEF SetParamSendTime, Mains, MainPcs, RequestPcs, Setters
<1>4. CASE SetParamCount
  BY <1>4 DEF SetParamCount, Mains, MainPcs, RequestPcs, Setters
<1>5. CASE SetParamUnconfirm
  BY <1>5 DEF SetParamUnconfirm, Mains, MainPcs, RequestPcs, Setters
<1>6. CASE RequestSend
  <2>1. tally' \in Tallies
    BY <1>6, SentType DEF RequestSend, Setters
  <2>2. main' \in Mains
    BY <1>6 DEF RequestSend, Mains, MainPcs, RequestPcs
  <2> QED
    BY <1>6, <2>1, <2>2 DEF RequestSend
<1>7. CASE RequestStamp
  <2>1. setter' \in Setters
    BY <1>7 DEF RequestStamp, Setters
  <2>2. main' \in Mains
    BY <1>7 DEF RequestStamp, Mains, MainPcs, RequestPcs, Setters
  <2> QED
    BY <1>7, <2>1, <2>2 DEF RequestStamp
<1>8. CASE RequestStore
  <2>1. setter' \in Setters
    BY <1>8 DEF RequestStore, Setters, Mains, Stored
  <2>2. main' \in Mains
    BY <1>8, ZeroInRange DEF RequestStore, Mains, MainPcs, RequestPcs
  <2> QED
    BY <1>8, <2>1, <2>2 DEF RequestStore
<1>9. CASE ArmTriggerCount
  BY <1>9 DEF ArmTriggerCount, Mains, MainPcs, RequestPcs, Triggers
<1>10. CASE ArmTriggerTime
  BY <1>10 DEF ArmTriggerTime, Mains, MainPcs, RequestPcs, Triggers
<1>11. CASE RequestAux
  <2>1. tally' \in Tallies
    BY <1>11, SwitchedType DEF RequestAux, Mains
  <2>2. main' \in Mains
    BY <1>11 DEF RequestAux, Mains, MainPcs, RequestPcs, Kinds
  <2> QED
    BY <1>11, <2>1, <2>2 DEF RequestAux
<1>12. CASE EkfSourceSetMatched
  <2>1. trigger' \in Triggers
    BY <1>12 DEF EkfSourceSetMatched, Triggers
  <2>2. tally' \in Tallies
    BY <1>12 DEF EkfSourceSetMatched, Tallies
  <2>3. main' \in Mains
    BY <1>12 DEF EkfSourceSetMatched, Mains, MainPcs, RequestPcs, EkfSets
  <2> QED
    BY <1>12, <2>1, <2>2, <2>3 DEF EkfSourceSetMatched
<1> QED
  BY <1>1, <1>2, <1>3, <1>4, <1>5, <1>6, <1>7, <1>8, <1>9, <1>10, <1>11, <1>12 DEF Handler

\* What comes in on the main thread: a request, the plane's messages.
LEMMA ArrivalTypes == TypeInv /\ Arrival => TypeInv'
<1> USE RetryAssumption DEF TypeInv, TypeOK, TurnHasRequest, MainAt
<1> SUFFICES ASSUME TypeInv, Arrival PROVE TypeInv'
  OBVIOUS
<1>1. ASSUME NEW k \in Kinds, Request(k) PROVE TypeInv'
  <2>1. tally' \in Tallies
    <3>1. tally.requests + 1 \in 0..MaxRequests
      BY <1>1 DEF Request, Tallies
    <3> QED
      BY <1>1, <3>1 DEF Request, Tallies
  <2>2. main' \in Mains
    BY <1>1 DEF Request, Mains, MainPcs, RequestPcs
  <2>3. type' \in Kinds /\ type' # "NONE"
    BY <1>1 DEF Request, Kinds
  <2> QED
    BY <1>1, <2>1, <2>2, <2>3 DEF Request
<1>2. ASSUME NEW v \in {0, 1}, ParamValueReceived(v) PROVE TypeInv'
  BY <1>2 DEF ParamValueReceived, Answered, IsFinished, Setters
<1>3. ASSUME NEW n \in {1, 2, 3}, EkfSourceSetDetected(n) PROVE TypeInv'
  BY <1>3 DEF EkfSourceSetDetected, Mains, MainPcs, EkfSets
<1>4. CASE PlaneDetected
  BY <1>4 DEF PlaneDetected
<1> QED
  BY <1>1, <1>2, <1>3, <1>4 DEF Arrival

\* A turn of the loop: no store of a count that was loaded earlier leaves
\* 0..RepeatCount, so a finite trigger never becomes INFINITE (-1).
LEMMA LoopTypes == TypeInv /\ Loop => TypeInv'
<1> USE RetryAssumption DEF TypeInv, TypeOK, TurnHasRequest, LoggerAt
<1> SUFFICES ASSUME TypeInv, Loop PROVE TypeInv'
  OBVIOUS
<1>1. CASE LoopStarts
  BY <1>1 DEF LoopStarts, Loggers, LoggerPcs, Tallies
<1>2. CASE LoopSetter
  BY <1>2 DEF LoopSetter, Loggers, LoggerPcs
<1>3. CASE LoopLoad
  BY <1>3 DEF LoopLoad, Loggers, LoggerPcs, Setters
<1>4. CASE LoopSend
  <2>1. tally' \in Tallies
    BY <1>4, SentType DEF LoopSend, Loggers
  <2>2. logger' \in Loggers /\ type' # "NONE"
    BY <1>4 DEF LoopSend, Loggers, LoggerPcs
  <2> QED
    BY <1>4, <2>1, <2>2 DEF LoopSend
<1>5. CASE LoopStamp
  <2>1. setter' \in Setters
    BY <1>5 DEF LoopStamp, Setters
  <2>2. logger' \in Loggers /\ type' # "NONE"
    BY <1>5 DEF LoopStamp, Loggers, LoggerPcs, Setters
  <2> QED
    BY <1>5, <2>1, <2>2 DEF LoopStamp
<1>6. CASE LoopStore
  <2>1. setter' \in Setters
    BY <1>6 DEF LoopStore, Setters, Loggers, Stored
  <2>2. logger' \in Loggers /\ type' # "NONE"
    BY <1>6, ZeroInRange DEF LoopStore, Loggers, LoggerPcs
  <2> QED
    BY <1>6, <2>1, <2>2 DEF LoopStore
<1>7. CASE LoopTrigger
  BY <1>7 DEF LoopTrigger, Loggers, LoggerPcs, Triggers
<1>8. CASE LoopFire
  <2>1. trigger' \in Triggers
    BY <1>8 DEF LoopFire, Triggers, Loggers, Stored
  <2>2. logger' \in Loggers /\ type' # "NONE"
    BY <1>8, ZeroInRange DEF LoopFire, Loggers, LoggerPcs
  <2> QED
    BY <1>8, <2>1, <2>2 DEF LoopFire
<1>9. CASE LoopKind
  BY <1>9 DEF LoopKind, Loggers, LoggerPcs, Kinds
<1>10. CASE LoopAux
  <2>1. tally' \in Tallies
    BY <1>10, SwitchedType DEF LoopAux, Loggers
  <2>2. logger' \in Loggers /\ type' # "NONE"
    BY <1>10 DEF LoopAux, Loggers, LoggerPcs, Kinds
  <2> QED
    BY <1>10, <2>1, <2>2 DEF LoopAux
<1>11. CASE LoopSetterDone
  BY <1>11 DEF LoopSetterDone, Loggers, LoggerPcs
<1>12. CASE LoopTriggerDone
  BY <1>12 DEF LoopTriggerDone, Loggers, LoggerPcs
<1>13. CASE LoopVerdict
  BY <1>13 DEF LoopVerdict, Loggers, LoggerPcs, Results, Successes, Failures, Succeeded, Failed
<1>14. CASE LoopWrite
  BY <1>14 DEF LoopWrite, Loggers, LoggerPcs, Results
<1>15. CASE LoopClear
  BY <1>15 DEF LoopClear, Loggers, LoggerPcs
<1> QED
  BY <1>1, <1>2, <1>3, <1>4, <1>5, <1>6, <1>7, <1>8, <1>9, <1>10, <1>11, <1>12, <1>13, <1>14, <1>15 DEF Loop

\* Time never takes a stamp past its timeout.
LEMMA TickTypes == TypeInv /\ Tick => TypeInv'
<1> USE RetryAssumption DEF TypeInv, TypeOK, TurnHasRequest
<1> SUFFICES ASSUME TypeInv, Tick PROVE TypeInv'
  OBVIOUS
<1>1. setter' \in Setters
  BY DEF Tick, Aged, Setters
<1>2. trigger' \in Triggers
  BY DEF Tick, Aged, Triggers
<1>3. tally' \in Tallies
  BY DEF Tick, Tallies
<1> QED
  BY <1>1, <1>2, <1>3 DEF Tick

\* The initial state is well typed.
LEMMA TypesInitially == Init => TypeInv
<1> SUFFICES ASSUME Init PROVE TypeInv
  OBVIOUS
<1>1. setter \in Setters /\ trigger \in Triggers
  BY RetryAssumption DEF Init, Setters, Triggers
<1>2. main \in Mains
  BY RetryAssumption DEF Init, Mains, MainPcs, Kinds, EkfSets
<1>3. logger \in Loggers
  BY RetryAssumption DEF Init, Loggers, LoggerPcs, Kinds, Results
<1>4. tally \in Tallies
  BY RetryAssumption DEF Init, Tallies, Kinds
<1> QED
  BY <1>1, <1>2, <1>3, <1>4 DEF Init, TypeInv, TypeOK, TurnHasRequest, Kinds, Results, EkfSets

\* Every step keeps the types.
LEMMA TypesKept == TypeInv /\ [Next]_vars => TypeInv'
<1>1. TypeInv /\ Next => TypeInv'
  BY HandlerTypes, ArrivalTypes, LoopTypes, TickTypes DEF Next
<1>2. TypeInv /\ UNCHANGED vars => TypeInv'
  BY DEF TypeInv, TypeOK, TurnHasRequest, vars
<1> QED
  BY <1>1, <1>2

\* Every reachable state is well typed: in particular sendCountLeft and countLeft
\* stay in range although two threads decrement and reset them without a lock.
THEOREM TypeCorrect == Spec => []TypeOK
<1>1. TypeInv => TypeOK
  BY DEF TypeInv
<1> QED
  BY <1>1, TypesInitially, TypesKept, PTL DEF Spec

-----------------------------------------------------------------------------
\* A request that is not disturbed has the switcher to itself while its handler
\* runs, and keeps its type until its verdict is shown.
Alone ==
  /\ main.pc \in RequestPcs => logger.pc = "idle" /\ type # "NONE"
  /\ logger.pc = "Write" => logger.verdict \notin InProgress
  /\ logger.pc = "Clear" => result \notin InProgress
  /\ type = "NONE" => result \notin InProgress

\* A try is counted in tally.tries at the send and leaves sendCountLeft two
\* statements later; between them the sum is one too large.
InFlight == main.pc \in {"Stamp", "Store"} \/ logger.pc \in {"Stamp", "Store"}

Counted ==
  /\ tally.tries + setter.left <= RepeatCount + IF InFlight THEN 1 ELSE 0
  /\ main.pc \in {"Result", "Value", "SendTime", "Count", "Unconfirm", "Send"} => tally.tries = 0
  /\ main.pc \in {"Unconfirm", "Send", "Stamp", "Store"} => setter.left > 0
  /\ logger.pc \in {"Load", "Send", "Stamp", "Store"} => setter.left > 0
  /\ main.pc = "Store" => main.left = setter.left
  /\ logger.pc = "Store" => logger.left = setter.left

RequestInv == TypeInv /\ (Undisturbed => Alone /\ Counted)

\* The handler of an undisturbed request: no other thread touches the count, so
\* it goes from RepeatCount down by one, and the type stays set.
LEMMA HandlerRequest ==
  RequestInv /\ TypeInv' /\ Handler /\ Undisturbed' => Alone' /\ Counted'
<1> SUFFICES ASSUME RequestInv, TypeInv', Handler, Undisturbed' PROVE Alone' /\ Counted'
  OBVIOUS
<1> USE RetryAssumption DEF RequestInv, TypeInv, TypeOK, Undisturbed, Mains, Loggers, Setters, Tallies, MainAt
<1>1. CASE SetInProgress
  <2>1. Undisturbed
    BY <1>1 DEF SetInProgress
  <2>2. Alone'
    BY <1>1, <2>1 DEF SetInProgress, Alone, RequestPcs
  <2>3. Counted'
    BY <1>1, <2>1 DEF SetInProgress, Counted, InFlight
  <2> QED
    BY <2>2, <2>3
<1>2. CASE SetParamValue
  <2>1. Undisturbed
    BY <1>2 DEF SetParamValue
  <2>2. Alone'
    BY <1>2, <2>1 DEF SetParamValue, Alone, RequestPcs
  <2>3. Counted'
    BY <1>2, <2>1 DEF SetParamValue, Counted, InFlight
  <2> QED
    BY <2>2, <2>3
<1>3. CASE SetParamSendTime
  <2>1. Undisturbed
    BY <1>3 DEF SetParamSendTime
  <2>2. Alone'
    BY <1>3, <2>1 DEF SetParamSendTime, Alone, RequestPcs
  <2>3. Counted'
    BY <1>3, <2>1 DEF SetParamSendTime, Counted, InFlight
  <2> QED
    BY <2>2, <2>3
<1>4. CASE SetParamCount
  <2>1. Undisturbed
    BY <1>4 DEF SetParamCount
  <2>2. Alone'
    BY <1>4, <2>1 DEF SetParamCount, Alone, RequestPcs
  <2>3. Counted'
    BY <1>4, <2>1 DEF SetParamCount, Counted, InFlight, Alone, RequestPcs
  <2> QED
    BY <2>2, <2>3
<1>5. CASE SetParamUnconfirm
  <2>1. Undisturbed
    BY <1>5 DEF SetParamUnconfirm
  <2>2. Alone'
    BY <1>5, <2>1 DEF SetParamUnconfirm, Alone, RequestPcs
  <2>3. Counted'
    BY <1>5, <2>1 DEF SetParamUnconfirm, Counted, InFlight
  <2> QED
    BY <2>2, <2>3
<1>6. CASE RequestSend
  <2>1. Undisturbed
    BY <1>6 DEF RequestSend, Sent
  <2>2. Alone'
    BY <1>6, <2>1 DEF RequestSend, Alone, RequestPcs, Sent
  <2>3. Counted'
    BY <1>6, <2>1 DEF RequestSend, Counted, InFlight, Sent
  <2> QED
    BY <2>2, <2>3
<1>7. CASE RequestStamp
  <2>1. Undisturbed
    BY <1>7 DEF RequestStamp
  <2>2. Alone'
    BY <1>7, <2>1 DEF RequestStamp, Alone, RequestPcs
  <2>3. Counted'
    BY <1>7, <2>1 DEF RequestStamp, Counted, InFlight
  <2> QED
    BY <2>2, <2>3
<1>8. CASE RequestStore
  <2>1. Undisturbed
    BY <1>8 DEF RequestStore
  <2>2. Alone'
    BY <1>8, <2>1 DEF RequestStore, Alone, RequestPcs
  <2>3. Counted'
    BY <1>8, <2>1 DEF RequestStore, Counted, InFlight, Stored, Alone, RequestPcs
  <2> QED
    BY <2>2, <2>3
<1>9. CASE ArmTriggerCount
  <2>1. Undisturbed
    BY <1>9 DEF ArmTriggerCount
  <2>2. Alone'
    BY <1>9, <2>1 DEF ArmTriggerCount, Alone, RequestPcs
  <2>3. Counted'
    BY <1>9, <2>1 DEF ArmTriggerCount, Counted, InFlight
  <2> QED
    BY <2>2, <2>3
<1>10. CASE ArmTriggerTime
  <2>1. Undisturbed
    BY <1>10 DEF ArmTriggerTime
  <2>2. Alone'
    BY <1>10, <2>1 DEF ArmTriggerTime, Alone, RequestPcs
  <2>3. Counted'
    BY <1>10, <2>1 DEF ArmTriggerTime, Counted, InFlight
  <2> QED
    BY <2>2, <2>3
<1>11. CASE RequestAux
  <2>1. Undisturbed
    BY <1>11 DEF RequestAux, Switched
  <2>2. Alone'
    BY <1>11, <2>1 DEF RequestAux, Alone, RequestPcs, Switched
  <2>3. Counted'
    BY <1>11, <2>1 DEF RequestAux, Counted, InFlight, Switched
  <2> QED
    BY <2>2, <2>3
<1>12. CASE EkfSourceSetMatched
  <2>1. Undisturbed
    BY <1>12 DEF EkfSourceSetMatched
  <2>2. Alone'
    BY <1>12, <2>1 DEF EkfSourceSetMatched, Alone, RequestPcs
  <2>3. Counted'
    BY <1>12, <2>1 DEF EkfSourceSetMatched, Counted, InFlight
  <2> QED
    BY <2>2, <2>3
<1> QED
  BY <1>1, <1>2, <1>3, <1>4, <1>5, <1>6, <1>7, <1>8, <1>9, <1>10, <1>11, <1>12 DEF Handler

\* What comes in: a new request starts a count of its own, once the loop rests.
LEMMA ArrivalRequest ==
  RequestInv /\ TypeInv' /\ Arrival /\ Undisturbed' => Alone' /\ Counted'
<1> SUFFICES ASSUME RequestInv, TypeInv', Arrival, Undisturbed' PROVE Alone' /\ Counted'
  OBVIOUS
<1> USE RetryAssumption DEF RequestInv, TypeInv, TypeOK, Undisturbed, Mains, Loggers, Setters, Tallies, MainAt
<1>1. ASSUME NEW k \in Kinds, Request(k) PROVE Alone' /\ Counted'
  <2>1. main'.pc = "Result" /\ logger'.pc = "idle" /\ type' # "NONE" /\ tally'.tries = 0
    BY <1>1 DEF Request, Kinds
  <2>2. setter'.left \in 0..RepeatCount
    BY <1>1
  <2>3. Alone'
    BY <2>1 DEF Alone
  <2>4. Counted'
    BY <2>1, <2>2 DEF Counted, InFlight
  <2> QED
    BY <2>3, <2>4
<1>2. ASSUME NEW v \in {0, 1}, ParamValueReceived(v) PROVE Alone' /\ Counted'
  <2>1. setter'.left = setter.left
    BY <1>2 DEF ParamValueReceived, Answered
  <2>2. Alone'
    BY <1>2 DEF ParamValueReceived, Alone
  <2>3. Counted'
    BY <1>2, <2>1 DEF ParamValueReceived, Counted, InFlight
  <2> QED
    BY <2>2, <2>3
<1>3. ASSUME NEW n \in {1, 2, 3}, EkfSourceSetDetected(n) PROVE Alone' /\ Counted'
  BY <1>3 DEF EkfSourceSetDetected, Alone, Counted, InFlight, RequestPcs
<1>4. CASE PlaneDetected
  BY <1>4 DEF PlaneDetected, Alone, Counted, InFlight
<1> QED
  BY <1>1, <1>2, <1>3, <1>4 DEF Arrival

\* A turn of the loop beside an undisturbed request: it sends only while tries
\* are left, and clears the type only once a verdict is shown.
LEMMA LoopRequest ==
  RequestInv /\ TypeInv' /\ Loop /\ Undisturbed' => Alone' /\ Counted'
<1> SUFFICES ASSUME RequestInv, TypeInv', Loop, Undisturbed' PROVE Alone' /\ Counted'
  OBVIOUS
<1> USE RetryAssumption DEF RequestInv, TypeInv, TypeOK, Undisturbed, Mains, Loggers, Setters, Tallies, LoggerAt
<1>1. CASE LoopStarts
  <2>1. Undisturbed
    BY <1>1 DEF LoopStarts
  <2>2. Alone'
    BY <1>1, <2>1 DEF LoopStarts, Alone, RequestPcs
  <2>3. Counted'
    BY <1>1, <2>1 DEF LoopStarts, Counted, InFlight
  <2> QED
    BY <2>2, <2>3
<1>2. CASE LoopSetter
  <2>1. Undisturbed
    BY <1>2 DEF LoopSetter
  <2>2. Alone'
    BY <1>2, <2>1 DEF LoopSetter, Alone, RequestPcs
  <2>3. Counted'
    BY <1>2, <2>1 DEF LoopSetter, Counted, InFlight, IsDue, IsFinished
  <2> QED
    BY <2>2, <2>3
<1>3. CASE LoopLoad
  <2>1. Undisturbed
    BY <1>3 DEF LoopLoad
  <2>2. Alone'
    BY <1>3, <2>1 DEF LoopLoad, Alone, RequestPcs
  <2>3. Counted'
    BY <1>3, <2>1 DEF LoopLoad, Counted, InFlight
  <2> QED
    BY <2>2, <2>3
<1>4. CASE LoopSend
  <2>1. Undisturbed
    BY <1>4 DEF LoopSend, Sent
  <2>2. Alone'
    BY <1>4, <2>1 DEF LoopSend, Alone, RequestPcs, Sent
  <2>3. Counted'
    BY <1>4, <2>1 DEF LoopSend, Counted, InFlight, Sent, Alone, RequestPcs
  <2> QED
    BY <2>2, <2>3
<1>5. CASE LoopStamp
  <2>1. Undisturbed
    BY <1>5 DEF LoopStamp
  <2>2. Alone'
    BY <1>5, <2>1 DEF LoopStamp, Alone, RequestPcs
  <2>3. Counted'
    BY <1>5, <2>1 DEF LoopStamp, Counted, InFlight
  <2> QED
    BY <2>2, <2>3
<1>6. CASE LoopStore
  <2>1. Undisturbed
    BY <1>6 DEF LoopStore
  <2>2. Alone'
    BY <1>6, <2>1 DEF LoopStore, Alone, RequestPcs
  <2>3. Counted'
    BY <1>6, <2>1 DEF LoopStore, Counted, InFlight, Stored, Alone, RequestPcs
  <2> QED
    BY <2>2, <2>3
<1>7. CASE LoopTrigger
  <2>1. Undisturbed
    BY <1>7 DEF LoopTrigger
  <2>2. Alone'
    BY <1>7, <2>1 DEF LoopTrigger, Alone, RequestPcs
  <2>3. Counted'
    BY <1>7, <2>1 DEF LoopTrigger, Counted, InFlight
  <2> QED
    BY <2>2, <2>3
<1>8. CASE LoopFire
  <2>1. Undisturbed
    BY <1>8 DEF LoopFire
  <2>2. Alone'
    BY <1>8, <2>1 DEF LoopFire, Alone, RequestPcs
  <2>3. Counted'
    BY <1>8, <2>1 DEF LoopFire, Counted, InFlight
  <2> QED
    BY <2>2, <2>3
<1>9. CASE LoopKind
  <2>1. Undisturbed
    BY <1>9 DEF LoopKind
  <2>2. Alone'
    BY <1>9, <2>1 DEF LoopKind, Alone, RequestPcs
  <2>3. Counted'
    BY <1>9, <2>1 DEF LoopKind, Counted, InFlight
  <2> QED
    BY <2>2, <2>3
<1>10. CASE LoopAux
  <2>1. Undisturbed
    BY <1>10 DEF LoopAux, Switched
  <2>2. Alone'
    BY <1>10, <2>1 DEF LoopAux, Alone, RequestPcs, Switched
  <2>3. Counted'
    BY <1>10, <2>1 DEF LoopAux, Counted, InFlight, Switched
  <2> QED
    BY <2>2, <2>3
<1>11. CASE LoopSetterDone
  <2>1. Undisturbed
    BY <1>11 DEF LoopSetterDone
  <2>2. Alone'
    BY <1>11, <2>1 DEF LoopSetterDone, Alone, RequestPcs
  <2>3. Counted'
    BY <1>11, <2>1 DEF LoopSetterDone, Counted, InFlight
  <2> QED
    BY <2>2, <2>3
<1>12. CASE LoopTriggerDone
  <2>1. Undisturbed
    BY <1>12 DEF LoopTriggerDone
  <2>2. Alone'
    BY <1>12, <2>1 DEF LoopTriggerDone, Alone, RequestPcs
  <2>3. Counted'
    BY <1>12, <2>1 DEF LoopTriggerDone, Counted, InFlight
  <2> QED
    BY <2>2, <2>3
<1>13. CASE LoopVerdict
  <2>1. Undisturbed
    BY <1>13 DEF LoopVerdict
  <2>2. Alone'
    BY <1>13, <2>1 DEF LoopVerdict, Alone, RequestPcs, Succeeded, Failed, InProgress
  <2>3. Counted'
    BY <1>13, <2>1 DEF LoopVerdict, Counted, InFlight
  <2> QED
    BY <2>2, <2>3
<1>14. CASE LoopWrite
  <2>1. Undisturbed
    BY <1>14 DEF LoopWrite
  <2>2. Alone'
    BY <1>14, <2>1 DEF LoopWrite, Alone, RequestPcs
  <2>3. Counted'
    BY <1>14, <2>1 DEF LoopWrite, Counted, InFlight
  <2> QED
    BY <2>2, <2>3
<1>15. CASE LoopClear
  <2>1. Undisturbed
    BY <1>15 DEF LoopClear
  <2>2. Alone'
    BY <1>15, <2>1 DEF LoopClear, Alone, RequestPcs
  <2>3. Counted'
    BY <1>15, <2>1 DEF LoopClear, Counted, InFlight
  <2> QED
    BY <2>2, <2>3
<1> QED
  BY <1>1, <1>2, <1>3, <1>4, <1>5, <1>6, <1>7, <1>8, <1>9, <1>10, <1>11, <1>12, <1>13, <1>14, <1>15 DEF Loop

\* Time changes neither the counts nor what is shown.
LEMMA TickRequest ==
  RequestInv /\ TypeInv' /\ Tick /\ Undisturbed' => Alone' /\ Counted'
<1> SUFFICES ASSUME RequestInv, TypeInv', Tick, Undisturbed' PROVE Alone' /\ Counted'
  OBVIOUS
<1> USE DEF RequestInv, TypeInv, TypeOK, Undisturbed, Setters, Tallies
<1>1. setter'.left = setter.left /\ tally'.tries = tally.tries /\ Undisturbed
  BY DEF Tick
<1>2. UNCHANGED <<type, result, main, logger>>
  BY DEF Tick
<1>3. Alone'
  BY <1>1, <1>2 DEF Alone
<1>4. Counted'
  BY <1>1, <1>2 DEF Counted, InFlight
<1> QED
  BY <1>3, <1>4

\* No request has been made at first.
LEMMA RequestInitially == Init => RequestInv
<1> SUFFICES ASSUME Init PROVE RequestInv
  OBVIOUS
<1>1. TypeInv
  BY TypesInitially
<1>2. Alone
  BY DEF Init, Alone, RequestPcs, InProgress
<1>3. Counted
  BY RetryAssumption DEF Init, Counted, InFlight
<1> QED
  BY <1>1, <1>2, <1>3 DEF RequestInv

\* Every step keeps what is said of a request.
LEMMA RequestKept == RequestInv /\ [Next]_vars => RequestInv'
<1> SUFFICES ASSUME RequestInv, [Next]_vars PROVE RequestInv'
  OBVIOUS
<1>1. TypeInv'
  BY TypesKept DEF RequestInv
<1>2. ASSUME Undisturbed' PROVE Alone' /\ Counted'
  <2>1. CASE Next
    BY <2>1, <1>1, <1>2, HandlerRequest, ArrivalRequest, LoopRequest, TickRequest DEF Next
  <2>2. CASE UNCHANGED vars
    BY <2>2, <1>2 DEF RequestInv, Undisturbed, Alone, Counted, InFlight, vars
  <2> QED
    BY <2>1, <2>2
<1> QED
  BY <1>1, <1>2 DEF RequestInv

\* The invariant both theorems below follow from.
LEMMA RequestInvariant == Spec => []RequestInv
  BY RequestInitially, RequestKept, PTL DEF Spec

\* A request whose handler met no turn of the loop half way is shown in progress
\* only while the loop works on it: it is never lost.
THEOREM NeverForgotten == Spec => []NotForgotten
<1>1. RequestInv => NotForgotten
  BY DEF RequestInv, Alone, NotForgotten
<1> QED
  BY <1>1, RequestInvariant, PTL

\* The parameter of such a request is sent at most RepeatCount times.
THEOREM TriesBounded == Spec => []RetryBudget
<1>1. RequestInv => RetryBudget
  <2> SUFFICES ASSUME RequestInv, Undisturbed PROVE tally.tries <= RepeatCount
    BY DEF RetryBudget
  <2>1. tally.tries \in Nat /\ setter.left \in 0..RepeatCount
    BY DEF RequestInv, TypeInv, TypeOK, Tallies, Setters
  <2> QED
    BY <2>1, RetryAssumption DEF RequestInv, Counted, InFlight
<1> QED
  BY <1>1, RequestInvariant, PTL
-----------------------------------------------------------------------------
\* Nothing is queued before the plane is known, disturbed or not.
QueuedWhenReady == ~planeReady => tally.lastSet = -1 /\ tally.lastAux = "NONE"

\* Nothing runs and nothing is shown before the first request.
Asked == tally.requests = 0 => type = "NONE" /\ result = "NA" /\ main.pc \notin RequestPcs

ResultsOf(k) == {Started(k), Failed(k), Succeeded(k)}
BeforeSend == {"Result", "Value", "SendTime", "Count", "Unconfirm", "Send"}

\* Whatever an undisturbed request has not yet replaced, its handler is about to.
Latest ==
  /\ type \in {"NONE", tally.kind}
  /\ main.pc \in RequestPcs => main.kind = tally.kind
  /\ tally.requests > 0 /\ main.pc # "Result" => result \in ResultsOf(tally.kind)
  /\ logger.pc = "Write" => logger.verdict \in ResultsOf(tally.kind)
  /\ tally.requests > 0 /\ main.pc \notin {"Result", "Value"} => setter.value = ParamOf(tally.kind)
  /\ logger.pc = "Send" => logger.value = ParamOf(tally.kind)
  /\ logger.pc = "Aux" => logger.kind = tally.kind
  /\ tally.requests > 0 /\ main.pc \notin BeforeSend => tally.lastSet \in {-1, ParamOf(tally.kind)}
  /\ tally.requests > 0 /\ main.pc \notin RequestPcs => tally.lastAux \in {"NONE", tally.kind}

\* From the store of the count on, a try is made, left or under way; from the end of
\* the handler on, so is a repeat of the aux function until the plane reports.  A
\* request that is over, or about to be, has none left.
Tries ==
  tally.requests > 0 /\ main.pc \notin {"Result", "Value", "SendTime", "Count"} =>
    tally.tries + setter.left = RepeatCount + IF InFlight THEN 1 ELSE 0

Repeats ==
  /\ main.pc \in RequestPcs => tally.aux = 0
  /\ main.pc \in {"ArmTime", "Aux"} => trigger.left = SrcRepeatCount
  /\ tally.requests > 0 /\ main.pc \notin RequestPcs /\ ~tally.matched =>
       tally.aux + trigger.left + (IF logger.pc \in {"Kind", "Aux"} THEN 1 ELSE 0) = 1 + SrcRepeatCount
  /\ logger.pc = "Fire" /\ ~tally.matched => logger.shots = trigger.left /\ trigger.left > 0

Over == type = "NONE" /\ tally.requests > 0

Exhausted ==
  /\ Over \/ logger.pc \in {"TriggerDone", "Verdict", "Write", "Clear"} => IsFinished(setter)
  /\ Over \/ logger.pc \in {"Verdict", "Write", "Clear"} => tally.matched \/ trigger.left = 0

OutcomeInv ==
  /\ RequestInv
  /\ QueuedWhenReady /\ Asked
  /\ Undisturbed => Latest /\ Tries /\ Repeats /\ Exhausted

\* A message is queued only when the plane is known, which it stays, and the threads run
\* only for a request.
LEMMA BeginningKept == QueuedWhenReady /\ Asked /\ TypeInv /\ Next => QueuedWhenReady' /\ Asked'
<1> SUFFICES ASSUME QueuedWhenReady, Asked, TypeInv, Next PROVE QueuedWhenReady' /\ Asked'
  OBVIOUS
<1> USE DEF QueuedWhenReady, Asked, TypeInv, TypeOK, Tallies
<1>1. CASE Handler
  <2>1. CASE RequestSend \/ RequestAux
    BY <2>1 DEF RequestSend, RequestAux, MainAt, RequestPcs, Sent, Switched
  <2>2. CASE EkfSourceSetMatched
    BY <2>2 DEF EkfSourceSetMatched, MainAt, RequestPcs
  <2>3. CASE SetInProgress \/ SetParamValue \/ SetParamSendTime \/ SetParamCount \/ SetParamUnconfirm
    BY <2>3 DEF SetInProgress, SetParamValue, SetParamSendTime, SetParamCount, SetParamUnconfirm, MainAt, RequestPcs
  <2>4. CASE RequestStamp \/ RequestStore \/ ArmTriggerCount \/ ArmTriggerTime
    BY <2>4 DEF RequestStamp, RequestStore, ArmTriggerCount, ArmTriggerTime, MainAt, RequestPcs
  <2> QED
    BY <1>1, <2>1, <2>2, <2>3, <2>4 DEF Handler
<1>2. CASE Arrival
  <2>1. ASSUME NEW k \in Kinds, Request(k) PROVE QueuedWhenReady' /\ Asked'
    BY <2>1 DEF Request
  <2>2. ASSUME NEW v \in {0, 1}, ParamValueReceived(v) PROVE QueuedWhenReady' /\ Asked'
    BY <2>2 DEF ParamValueReceived
  <2>3. ASSUME NEW n \in {1, 2, 3}, EkfSourceSetDetected(n) PROVE QueuedWhenReady' /\ Asked'
    BY <2>3 DEF EkfSourceSetDetected, RequestPcs, Mains
  <2>4. CASE PlaneDetected
    BY <2>4 DEF PlaneDetected
  <2> QED
    BY <1>2, <2>1, <2>2, <2>3, <2>4 DEF Arrival
<1>3. CASE Loop
  BY <1>3 DEF Loop, LoggerAt, TurnHasRequest, LoopStarts, LoopSetter, LoopLoad, LoopSend, LoopStamp, LoopStore,
    LoopTrigger, LoopFire, LoopKind, LoopAux, LoopSetterDone, LoopTriggerDone, LoopVerdict, LoopWrite, LoopClear,
    Sent, Switched
<1>4. CASE Tick
  BY <1>4 DEF Tick
<1> QED
  BY <1>1, <1>2, <1>3, <1>4 DEF Next

\* The handler of an undisturbed request replaces what the last one left, one field
\* after the other, while the loop rests.
LEMMA HandlerOutcome ==
  OutcomeInv /\ RequestInv' /\ Handler /\ Undisturbed' => Latest' /\ Tries' /\ Repeats' /\ Exhausted'
<1> SUFFICES ASSUME OutcomeInv, RequestInv', Handler, Undisturbed' PROVE Latest' /\ Tries' /\ Repeats' /\ Exhausted'
  OBVIOUS
<1> USE RetryAssumption DEF OutcomeInv, RequestInv, TypeInv, TypeOK, Undisturbed, Mains, Loggers, Setters, Triggers,
  Tallies, MainAt
<1>1. CASE SetInProgress
  <2>1. Undisturbed
    BY <1>1 DEF SetInProgress
  <2>2. Latest'
    BY <1>1, <2>1 DEF SetInProgress, Latest, RequestPcs, BeforeSend, Alone, ResultsOf
  <2>3. Tries'
    BY <1>1, <2>1 DEF SetInProgress, Tries, InFlight, Alone, Counted
  <2>4. Repeats'
    BY <1>1, <2>1 DEF SetInProgress, Repeats, RequestPcs, Alone
  <2>5. Exhausted'
    BY <1>1, <2>1 DEF SetInProgress, Exhausted, Over, IsFinished, Alone, RequestPcs
  <2> QED
    BY <2>2, <2>3, <2>4, <2>5
<1>2. CASE SetParamValue
  <2>1. Undisturbed
    BY <1>2 DEF SetParamValue
  <2>2. Latest'
    BY <1>2, <2>1 DEF SetParamValue, Latest, RequestPcs, BeforeSend, Alone
  <2>3. Tries'
    BY <1>2, <2>1 DEF SetParamValue, Tries, InFlight, Alone, Counted
  <2>4. Repeats'
    BY <1>2, <2>1 DEF SetParamValue, Repeats, RequestPcs, Alone
  <2>5. Exhausted'
    BY <1>2, <2>1 DEF SetParamValue, Exhausted, Over, IsFinished, Alone, RequestPcs
  <2> QED
    BY <2>2, <2>3, <2>4, <2>5
<1>3. CASE SetParamSendTime
  <2>1. Undisturbed
    BY <1>3 DEF SetParamSendTime
  <2>2. Latest'
    BY <1>3, <2>1 DEF SetParamSendTime, Latest, RequestPcs, BeforeSend, Alone
  <2>3. Tries'
    BY <1>3, <2>1 DEF SetParamSendTime, Tries, InFlight, Alone, Counted
  <2>4. Repeats'
    BY <1>3, <2>1 DEF SetParamSendTime, Repeats, RequestPcs, Alone
  <2>5. Exhausted'
    BY <1>3, <2>1 DEF SetParamSendTime, Exhausted, Over, IsFinished, Alone, RequestPcs
  <2> QED
    BY <2>2, <2>3, <2>4, <2>5
<1>4. CASE SetParamCount
  <2>1. Undisturbed
    BY <1>4 DEF SetParamCount
  <2>2. Latest'
    BY <1>4, <2>1 DEF SetParamCount, Latest, RequestPcs, BeforeSend, Alone
  <2>3. Tries'
    BY <1>4, <2>1 DEF SetParamCount, Tries, InFlight, Alone, Counted, RequestPcs
  <2>4. Repeats'
    BY <1>4, <2>1 DEF SetParamCount, Repeats, RequestPcs, Alone
  <2>5. Exhausted'
    BY <1>4, <2>1 DEF SetParamCount, Exhausted, Over, IsFinished, Alone, RequestPcs
  <2> QED
    BY <2>2, <2>3, <2>4, <2>5
<1>5. CASE SetParamUnconfirm
  <2>1. Undisturbed
    BY <1>5 DEF SetParamUnconfirm
  <2>2. Latest'
    BY <1>5, <2>1 DEF SetParamUnconfirm, Latest, RequestPcs, BeforeSend, Alone
  <2>3. Tries'
    BY <1>5, <2>1 DEF SetParamUnconfirm, Tries, InFlight, Alone, Counted
  <2>4. Repeats'
    BY <1>5, <2>1 DEF SetParamUnconfirm, Repeats, RequestPcs, Alone
  <2>5. Exhausted'
    BY <1>5, <2>1 DEF SetParamUnconfirm, Exhausted, Over, IsFinished, Alone, RequestPcs
  <2> QED
    BY <2>2, <2>3, <2>4, <2>5
<1>6. CASE RequestSend
  <2>1. Undisturbed
    BY <1>6 DEF RequestSend, Sent
  <2>2. Latest'
    BY <1>6, <2>1 DEF RequestSend, Latest, RequestPcs, BeforeSend, Sent, Alone, QueuedWhenReady
  <2>3. Tries'
    BY <1>6, <2>1 DEF RequestSend, Tries, InFlight, Sent, Alone, Counted, Stored, RequestPcs
  <2>4. Repeats'
    BY <1>6, <2>1 DEF RequestSend, Repeats, RequestPcs, Sent, Alone
  <2>5. Exhausted'
    BY <1>6, <2>1 DEF RequestSend, Exhausted, Over, IsFinished, Sent, Alone, RequestPcs
  <2> QED
    BY <2>2, <2>3, <2>4, <2>5
<1>7. CASE RequestStamp
  <2>1. Undisturbed
    BY <1>7 DEF RequestStamp
  <2>2. Latest'
    BY <1>7, <2>1 DEF RequestStamp, Latest, RequestPcs, BeforeSend, Alone
  <2>3. Tries'
    BY <1>7, <2>1 DEF RequestStamp, Tries, InFlight, Alone, Counted, Stored, RequestPcs
  <2>4. Repeats'
    BY <1>7, <2>1 DEF RequestStamp, Repeats, RequestPcs, Alone
  <2>5. Exhausted'
    BY <1>7, <2>1 DEF RequestStamp, Exhausted, Over, IsFinished, Alone, RequestPcs
  <2> QED
    BY <2>2, <2>3, <2>4, <2>5
<1>8. CASE RequestStore
  <2>1. Undisturbed
    BY <1>8 DEF RequestStore
  <2>2. Latest'
    BY <1>8, <2>1 DEF RequestStore, Latest, RequestPcs, BeforeSend, Alone
  <2>3. Tries'
    BY <1>8, <2>1 DEF RequestStore, Tries, InFlight, Alone, Counted, Stored, RequestPcs
  <2>4. Repeats'
    BY <1>8, <2>1 DEF RequestStore, Repeats, RequestPcs, Alone
  <2>5. Exhausted'
    BY <1>8, <2>1 DEF RequestStore, Exhausted, Over, IsFinished, Alone, RequestPcs
  <2> QED
    BY <2>2, <2>3, <2>4, <2>5
<1>9. CASE ArmTriggerCount
  <2>1. Undisturbed
    BY <1>9 DEF ArmTriggerCount
  <2>2. Latest'
    BY <1>9, <2>1 DEF ArmTriggerCount, Latest, RequestPcs, BeforeSend, Alone
  <2>3. Tries'
    BY <1>9, <2>1 DEF ArmTriggerCount, Tries, InFlight, Alone, Counted
  <2>4. Repeats'
    BY <1>9, <2>1 DEF ArmTriggerCount, Repeats, RequestPcs, Alone
  <2>5. Exhausted'
    BY <1>9, <2>1 DEF ArmTriggerCount, Exhausted, Over, IsFinished, Alone, RequestPcs
  <2> QED
    BY <2>2, <2>3, <2>4, <2>5
<1>10. CASE ArmTriggerTime
  <2>1. Undisturbed
    BY <1>10 DEF ArmTriggerTime
  <2>2. Latest'
    BY <1>10, <2>1 DEF ArmTriggerTime, Latest, RequestPcs, BeforeSend, Alone
  <2>3. Tries'
    BY <1>10, <2>1 DEF ArmTriggerTime, Tries, InFlight, Alone, Counted
  <2>4. Repeats'
    BY <1>10, <2>1 DEF ArmTriggerTime, Repeats, RequestPcs, Alone
  <2>5. Exhausted'
    BY <1>10, <2>1 DEF ArmTriggerTime, Exhausted, Over, IsFinished, Alone, RequestPcs
  <2> QED
    BY <2>2, <2>3, <2>4, <2>5
<1>11. CASE RequestAux
  <2>1. Undisturbed
    BY <1>11 DEF RequestAux, Switched
  <2>2. Latest'
    BY <1>11, <2>1 DEF RequestAux, Latest, RequestPcs, BeforeSend, Switched, Alone, QueuedWhenReady
  <2>3. Tries'
    BY <1>11, <2>1 DEF RequestAux, Tries, InFlight, Switched, Alone, Counted
  <2>4. Repeats'
    BY <1>11, <2>1 DEF RequestAux, Repeats, RequestPcs, Switched, Alone
  <2>5. Exhausted'
    BY <1>11, <2>1 DEF RequestAux, Exhausted, Over, IsFinished, Switched, Alone, RequestPcs
  <2> QED
    BY <2>2, <2>3, <2>4, <2>5
<1>12. CASE EkfSourceSetMatched
  <2>1. Undisturbed
    BY <1>12 DEF EkfSourceSetMatched
  <2>2. Latest'
    BY <1>12, <2>1 DEF EkfSourceSetMatched, Latest, RequestPcs, BeforeSend
  <2>3. Tries'
    BY <1>12, <2>1 DEF EkfSourceSetMatched, Tries, InFlight
  <2>4. Repeats'
    BY <1>12, <2>1 DEF EkfSourceSetMatched, Repeats, RequestPcs
  <2>5. Exhausted'
    BY <1>12, <2>1 DEF EkfSourceSetMatched, Exhausted, Over, IsFinished
  <2> QED
    BY <2>2, <2>3, <2>4, <2>5
<1> QED
  BY <1>1, <1>2, <1>3, <1>4, <1>5, <1>6, <1>7, <1>8, <1>9, <1>10, <1>11, <1>12 DEF Handler

\* A new request owes nothing yet; an answer of the plane can only end what is under way.
LEMMA ArrivalOutcome ==
  OutcomeInv /\ RequestInv' /\ Arrival /\ Undisturbed' => Latest' /\ Tries' /\ Repeats' /\ Exhausted'
<1> SUFFICES ASSUME OutcomeInv, RequestInv', Arrival, Undisturbed' PROVE Latest' /\ Tries' /\ Repeats' /\ Exhausted'
  OBVIOUS
<1> USE RetryAssumption DEF OutcomeInv, RequestInv, TypeInv, TypeOK, Undisturbed, Mains, Loggers, Setters, Triggers,
  Tallies, MainAt
<1>1. ASSUME NEW k \in Kinds, Request(k) PROVE Latest' /\ Tries' /\ Repeats' /\ Exhausted'
  <2>1. main'.pc = "Result" /\ main'.kind = k /\ logger'.pc = "idle" /\ type' = k /\ k # "NONE"
    BY <1>1 DEF Request, Kinds
  <2>2. tally'.requests > 0 /\ tally'.kind = k /\ tally'.aux = 0
    BY <1>1 DEF Request
  <2>3. Latest'
    BY <2>1, <2>2 DEF Latest, RequestPcs, BeforeSend
  <2>4. Tries' /\ Repeats' /\ Exhausted'
    BY <2>1, <2>2 DEF Tries, Repeats, Exhausted, Over, RequestPcs
  <2> QED
    BY <2>3, <2>4
<1>2. ASSUME NEW v \in {0, 1}, ParamValueReceived(v) PROVE Latest' /\ Tries' /\ Repeats' /\ Exhausted'
  <2>1. setter'.left = setter.left /\ setter'.value = setter.value /\ (IsFinished(setter) => IsFinished(setter'))
    BY <1>2 DEF ParamValueReceived, Answered, IsFinished
  <2>2. UNCHANGED <<type, result, trigger, main, logger, tally>> /\ Undisturbed
    BY <1>2 DEF ParamValueReceived
  <2>3. Latest' /\ Tries'
    BY <2>1, <2>2 DEF Latest, Tries, InFlight
  <2>4. Repeats' /\ Exhausted'
    BY <2>1, <2>2 DEF Repeats, Exhausted, Over
  <2> QED
    BY <2>3, <2>4
<1>3. ASSUME NEW n \in {1, 2, 3}, EkfSourceSetDetected(n) PROVE Latest' /\ Tries' /\ Repeats' /\ Exhausted'
  <2>1. main.pc = "idle" /\ main'.pc = "Match"
    BY <1>3 DEF EkfSourceSetDetected
  <2>2. UNCHANGED <<type, result, setter, trigger, logger, tally>> /\ Undisturbed
    BY <1>3 DEF EkfSourceSetDetected
  <2>3. Latest' /\ Tries'
    BY <2>1, <2>2 DEF Latest, Tries, InFlight, RequestPcs, BeforeSend
  <2>4. Repeats' /\ Exhausted'
    BY <2>1, <2>2 DEF Repeats, Exhausted, Over, RequestPcs, IsFinished
  <2> QED
    BY <2>3, <2>4
<1>4. CASE PlaneDetected
  BY <1>4 DEF PlaneDetected, Latest, Tries, InFlight, Repeats, Exhausted, Over, IsFinished
<1> QED
  BY <1>1, <1>2, <1>3, <1>4 DEF Arrival

\* A turn of the loop beside it sends what the handler set, and reaches the verdict with
\* every try and repeat made or answered.
LEMMA LoopOutcome ==
  OutcomeInv /\ RequestInv' /\ Loop /\ Undisturbed' => Latest' /\ Tries' /\ Repeats' /\ Exhausted'
<1> SUFFICES ASSUME OutcomeInv, RequestInv', Loop, Undisturbed' PROVE Latest' /\ Tries' /\ Repeats' /\ Exhausted'
  OBVIOUS
<1> USE RetryAssumption DEF OutcomeInv, RequestInv, TypeInv, TypeOK, Undisturbed, Mains, Loggers, Setters, Triggers,
  Tallies, LoggerAt
<1>1. CASE LoopStarts
  <2>1. Undisturbed
    BY <1>1 DEF LoopStarts
  <2>2. Latest'
    BY <1>1, <2>1 DEF LoopStarts, Latest, RequestPcs, BeforeSend
  <2>3. Tries'
    BY <1>1, <2>1 DEF LoopStarts, Tries, InFlight
  <2>4. Repeats'
    BY <1>1, <2>1 DEF LoopStarts, Repeats, RequestPcs
  <2>5. Exhausted'
    BY <1>1, <2>1 DEF LoopStarts, Exhausted, Over, IsFinished
  <2> QED
    BY <2>2, <2>3, <2>4, <2>5
<1>2. CASE LoopSetter
  <2>1. Undisturbed
    BY <1>2 DEF LoopSetter
  <2>2. Latest'
    BY <1>2, <2>1 DEF LoopSetter, Latest, RequestPcs, BeforeSend
  <2>3. Tries'
    BY <1>2, <2>1 DEF LoopSetter, Tries, InFlight, Alone, RequestPcs, IsDue
  <2>4. Repeats'
    BY <1>2, <2>1 DEF LoopSetter, Repeats, RequestPcs
  <2>5. Exhausted'
    BY <1>2, <2>1 DEF LoopSetter, Exhausted, Over, IsFinished
  <2> QED
    BY <2>2, <2>3, <2>4, <2>5
<1>3. CASE LoopLoad
  <2>1. Undisturbed
    BY <1>3 DEF LoopLoad
  <2>2. Latest'
    BY <1>3, <2>1 DEF LoopLoad, Latest, RequestPcs, BeforeSend, Alone, Asked, TurnHasRequest
  <2>3. Tries'
    BY <1>3, <2>1 DEF LoopLoad, Tries, InFlight
  <2>4. Repeats'
    BY <1>3, <2>1 DEF LoopLoad, Repeats, RequestPcs
  <2>5. Exhausted'
    BY <1>3, <2>1 DEF LoopLoad, Exhausted, Over, IsFinished
  <2> QED
    BY <2>2, <2>3, <2>4, <2>5
<1>4. CASE LoopSend
  <2>1. Undisturbed
    BY <1>4 DEF LoopSend, Sent
  <2>2. Latest'
    BY <1>4, <2>1 DEF LoopSend, Latest, RequestPcs, BeforeSend, Sent, QueuedWhenReady
  <2>3. Tries'
    BY <1>4, <2>1 DEF LoopSend, Tries, InFlight, Sent, Alone, RequestPcs
  <2>4. Repeats'
    BY <1>4, <2>1 DEF LoopSend, Repeats, RequestPcs, Sent
  <2>5. Exhausted'
    BY <1>4, <2>1 DEF LoopSend, Exhausted, Over, IsFinished, Sent
  <2> QED
    BY <2>2, <2>3, <2>4, <2>5
<1>5. CASE LoopStamp
  <2>1. Undisturbed
    BY <1>5 DEF LoopStamp
  <2>2. Latest'
    BY <1>5, <2>1 DEF LoopStamp, Latest, RequestPcs, BeforeSend
  <2>3. Tries'
    BY <1>5, <2>1 DEF LoopStamp, Tries, InFlight, Alone, RequestPcs, Counted, Stored
  <2>4. Repeats'
    BY <1>5, <2>1 DEF LoopStamp, Repeats, RequestPcs
  <2>5. Exhausted'
    BY <1>5, <2>1 DEF LoopStamp, Exhausted, Over, IsFinished
  <2> QED
    BY <2>2, <2>3, <2>4, <2>5
<1>6. CASE LoopStore
  <2>1. Undisturbed
    BY <1>6 DEF LoopStore
  <2>2. Latest'
    BY <1>6, <2>1 DEF LoopStore, Latest, RequestPcs, BeforeSend
  <2>3. Tries'
    BY <1>6, <2>1 DEF LoopStore, Tries, InFlight, Alone, RequestPcs, Counted, Stored
  <2>4. Repeats'
    BY <1>6, <2>1 DEF LoopStore, Repeats, RequestPcs
  <2>5. Exhausted'
    BY <1>6, <2>1 DEF LoopStore, Exhausted, Over, IsFinished, TurnHasRequest, Counted, Stored
  <2> QED
    BY <2>2, <2>3, <2>4, <2>5
<1>7. CASE LoopTrigger
  <2>1. Undisturbed
    BY <1>7 DEF LoopTrigger
  <2>2. Latest'
    BY <1>7, <2>1 DEF LoopTrigger, Latest, RequestPcs, BeforeSend
  <2>3. Tries'
    BY <1>7, <2>1 DEF LoopTrigger, Tries, InFlight
  <2>4. Repeats'
    BY <1>7, <2>1 DEF LoopTrigger, Repeats, RequestPcs, IsFired
  <2>5. Exhausted'
    BY <1>7, <2>1 DEF LoopTrigger, Exhausted, Over, IsFinished
  <2> QED
    BY <2>2, <2>3, <2>4, <2>5
<1>8. CASE LoopFire
  <2>1. Undisturbed
    BY <1>8 DEF LoopFire
  <2>2. Latest'
    BY <1>8, <2>1 DEF LoopFire, Latest, RequestPcs, BeforeSend
  <2>3. Tries'
    BY <1>8, <2>1 DEF LoopFire, Tries, InFlight
  <2>4. Repeats'
    BY <1>8, <2>1 DEF LoopFire, Repeats, RequestPcs, Stored, Alone
  <2>5. Exhausted'
    BY <1>8, <2>1 DEF LoopFire, Exhausted, Over, IsFinished, TurnHasRequest
  <2> QED
    BY <2>2, <2>3, <2>4, <2>5
<1>9. CASE LoopKind
  <2>1. Undisturbed
    BY <1>9 DEF LoopKind
  <2>2. Latest'
    BY <1>9, <2>1 DEF LoopKind, Latest, RequestPcs, BeforeSend, TurnHasRequest
  <2>3. Tries'
    BY <1>9, <2>1 DEF LoopKind, Tries, InFlight
  <2>4. Repeats'
    BY <1>9, <2>1 DEF LoopKind, Repeats, RequestPcs
  <2>5. Exhausted'
    BY <1>9, <2>1 DEF LoopKind, Exhausted, Over, IsFinished
  <2> QED
    BY <2>2, <2>3, <2>4, <2>5
<1>10. CASE LoopAux
  <2>1. Undisturbed
    BY <1>10 DEF LoopAux, Switched
  <2>2. Latest'
    BY <1>10, <2>1 DEF LoopAux, Latest, RequestPcs, BeforeSend, Switched, Alone, QueuedWhenReady
  <2>3. Tries'
    BY <1>10, <2>1 DEF LoopAux, Tries, InFlight, Switched
  <2>4. Repeats'
    BY <1>10, <2>1 DEF LoopAux, Repeats, RequestPcs, Switched, Alone
  <2>5. Exhausted'
    BY <1>10, <2>1 DEF LoopAux, Exhausted, Over, IsFinished, Switched
  <2> QED
    BY <2>2, <2>3, <2>4, <2>5
<1>11. CASE LoopSetterDone
  <2>1. Undisturbed
    BY <1>11 DEF LoopSetterDone
  <2>2. Latest'
    BY <1>11, <2>1 DEF LoopSetterDone, Latest, RequestPcs, BeforeSend
  <2>3. Tries'
    BY <1>11, <2>1 DEF LoopSetterDone, Tries, InFlight
  <2>4. Repeats'
    BY <1>11, <2>1 DEF LoopSetterDone, Repeats, RequestPcs
  <2>5. Exhausted'
    BY <1>11, <2>1 DEF LoopSetterDone, Exhausted, Over, IsFinished
  <2> QED
    BY <2>2, <2>3, <2>4, <2>5
<1>12. CASE LoopTriggerDone
  <2>1. Undisturbed
    BY <1>12 DEF LoopTriggerDone
  <2>2. Latest'
    BY <1>12, <2>1 DEF LoopTriggerDone, Latest, RequestPcs, BeforeSend
  <2>3. Tries'
    BY <1>12, <2>1 DEF LoopTriggerDone, Tries, InFlight
  <2>4. Repeats'
    BY <1>12, <2>1 DEF LoopTriggerDone, Repeats, RequestPcs
  <2>5. Exhausted'
    BY <1>12, <2>1 DEF LoopTriggerDone, Exhausted, Over, IsFinished
  <2> QED
    BY <2>2, <2>3, <2>4, <2>5
<1>13. CASE LoopVerdict
  <2>1. Undisturbed
    BY <1>13 DEF LoopVerdict
  <2>2. Latest'
    BY <1>13, <2>1 DEF LoopVerdict, Latest, RequestPcs, BeforeSend, TurnHasRequest, ResultsOf
  <2>3. Tries'
    BY <1>13, <2>1 DEF LoopVerdict, Tries, InFlight
  <2>4. Repeats'
    BY <1>13, <2>1 DEF LoopVerdict, Repeats, RequestPcs
  <2>5. Exhausted'
    BY <1>13, <2>1 DEF LoopVerdict, Exhausted, Over, IsFinished
  <2> QED
    BY <2>2, <2>3, <2>4, <2>5
<1>14. CASE LoopWrite
  <2>1. Undisturbed
    BY <1>14 DEF LoopWrite
  <2>2. Latest'
    BY <1>14, <2>1 DEF LoopWrite, Latest, RequestPcs, BeforeSend
  <2>3. Tries'
    BY <1>14, <2>1 DEF LoopWrite, Tries, InFlight
  <2>4. Repeats'
    BY <1>14, <2>1 DEF LoopWrite, Repeats, RequestPcs
  <2>5. Exhausted'
    BY <1>14, <2>1 DEF LoopWrite, Exhausted, Over, IsFinished
  <2> QED
    BY <2>2, <2>3, <2>4, <2>5
<1>15. CASE LoopClear
  <2>1. Undisturbed
    BY <1>15 DEF LoopClear
  <2>2. Latest'
    BY <1>15, <2>1 DEF LoopClear, Latest, RequestPcs, BeforeSend
  <2>3. Tries'
    BY <1>15, <2>1 DEF LoopClear, Tries, InFlight
  <2>4. Repeats'
    BY <1>15, <2>1 DEF LoopClear, Repeats, RequestPcs
  <2>5. Exhausted'
    BY <1>15, <2>1 DEF LoopClear, Exhausted, Over, IsFinished
  <2> QED
    BY <2>2, <2>3, <2>4, <2>5
<1> QED
  BY <1>1, <1>2, <1>3, <1>4, <1>5, <1>6, <1>7, <1>8, <1>9, <1>10, <1>11, <1>12, <1>13, <1>14, <1>15 DEF Loop

\* Time changes none of it.
LEMMA TickOutcome ==
  OutcomeInv /\ RequestInv' /\ Tick /\ Undisturbed' => Latest' /\ Tries' /\ Repeats' /\ Exhausted'
<1> SUFFICES ASSUME OutcomeInv, RequestInv', Tick, Undisturbed' PROVE Latest' /\ Tries' /\ Repeats' /\ Exhausted'
  OBVIOUS
<1> USE DEF OutcomeInv, RequestInv, TypeInv, TypeOK, Undisturbed, Setters, Triggers
<1>1. setter'.left = setter.left /\ setter'.value = setter.value /\ setter'.confirmed = setter.confirmed
  BY DEF Tick
<1>2. trigger'.left = trigger.left
  BY DEF Tick
<1>3. UNCHANGED <<type, result, main, logger, tally>> /\ Undisturbed
  BY DEF Tick
<1>4. Latest' /\ Tries'
  BY <1>1, <1>3 DEF Latest, Tries, InFlight
<1>5. Repeats' /\ Exhausted'
  BY <1>1, <1>2, <1>3 DEF Repeats, Exhausted, Over, IsFinished
<1> QED
  BY <1>4, <1>5

\* The invariant of the two theorems below.
LEMMA OutcomeInvariant == Spec => []OutcomeInv
<1>1. Init => OutcomeInv
  <2> SUFFICES ASSUME Init PROVE OutcomeInv
    OBVIOUS
  <2>1. RequestInv
    BY RequestInitially
  <2>2. QueuedWhenReady /\ Asked
    BY DEF Init, QueuedWhenReady, Asked, RequestPcs
  <2>3. Latest /\ Tries
    BY DEF Init, Latest, Tries, RequestPcs
  <2>4. Repeats /\ Exhausted
    BY DEF Init, Repeats, Exhausted, Over, RequestPcs
  <2> QED
    BY <2>1, <2>2, <2>3, <2>4 DEF OutcomeInv
<1>2. OutcomeInv /\ [Next]_vars => OutcomeInv'
  <2> SUFFICES ASSUME OutcomeInv, [Next]_vars PROVE OutcomeInv'
    OBVIOUS
  <2>1. RequestInv'
    BY RequestKept DEF OutcomeInv
  <2>2. CASE Next
    <3>1. QueuedWhenReady' /\ Asked'
      BY <2>2, BeginningKept DEF OutcomeInv, RequestInv
    <3>2. ASSUME Undisturbed' PROVE Latest' /\ Tries' /\ Repeats' /\ Exhausted'
      BY <2>1, <2>2, <3>2, HandlerOutcome, ArrivalOutcome, LoopOutcome, TickOutcome DEF Next
    <3> QED
      BY <2>1, <3>1, <3>2 DEF OutcomeInv
  <2>3. CASE UNCHANGED vars
    <3>1. QueuedWhenReady' /\ Asked'
      BY <2>3 DEF OutcomeInv, QueuedWhenReady, Asked, vars
    <3>2. ASSUME Undisturbed' PROVE Latest' /\ Tries' /\ Repeats' /\ Exhausted'
      BY <2>3, <3>2 DEF OutcomeInv, Undisturbed, Latest, Tries, InFlight, Repeats, Exhausted, Over, IsFinished, vars
    <3> QED
      BY <2>1, <3>1, <3>2 DEF OutcomeInv
  <2> QED
    BY <2>2, <2>3
<1> QED
  BY <1>1, <1>2, PTL DEF Spec

\* loop's verdict: such a request is shown as failed only with the parameter confirmed or
\* sent RepeatCount times, and the plane's report or every repeat of the aux function.
THEOREM FailsOnlyInTheEnd == Spec => []NoEarlyFailure
<1>1. OutcomeInv => NoEarlyFailure
  <2> SUFFICES ASSUME OutcomeInv, Undisturbed, AtRest, type = "NONE", result \in Failures
               PROVE /\ setter.confirmed \/ tally.tries = RepeatCount
                     /\ tally.matched \/ tally.aux = 1 + SrcRepeatCount
    BY DEF NoEarlyFailure
  <2> USE DEF OutcomeInv, RequestInv, TypeInv, TypeOK, AtRest
  <2>1. tally.requests > 0
    BY RetryAssumption DEF Asked, Failures, Tallies
  <2>2. setter.confirmed \/ tally.tries = RepeatCount
    BY <2>1, RetryAssumption DEF Exhausted, Over, IsFinished, Tries, InFlight, Setters, Tallies
  <2>3. tally.matched \/ tally.aux = 1 + SrcRepeatCount
    BY <2>1, RetryAssumption DEF Exhausted, Over, Repeats, RequestPcs, Triggers, Tallies
  <2> QED
    BY <2>2, <2>3
<1> QED
  BY <1>1, OutcomeInvariant, PTL

\* requestGpsOn/Off: behind such a request nothing of an earlier one is sent or shown.
THEOREM LatestWins == Spec => []LatestRequestWins
<1>1. OutcomeInv => LatestRequestWins
  BY DEF OutcomeInv, Latest, LatestRequestWins, AtRest, ResultsOf, BeforeSend, RequestPcs
<1> QED
  BY <1>1, OutcomeInvariant, PTL

-----------------------------------------------------------------------------
\* An undisturbed request is shown in progress from its second statement until the loop
\* has its verdict, which is one of its own.
Shown ==
  Undisturbed =>
    /\ type # "NONE" /\ main.pc # "Result" /\ logger.pc # "Clear" => result = Started(type)
    /\ logger.pc = "Write" => logger.verdict \in {Failed(type), Succeeded(type)}

\* A step that neither names a request, shows a result nor comes to a verdict.
LEMMA StillShown ==
  ASSUME Shown, UNCHANGED <<type, result>>, tally'.overlap = tally.overlap,
         main'.pc = "Result" \/ main.pc # "Result", logger'.pc # "Write", logger.pc # "Clear"
  PROVE  Shown'
BY DEF Shown, Undisturbed

\* The turn of the loop up to its verdict.
LEMMA LoopAtWork ==
  ASSUME TypeInv,
         \/ LoopSetter \/ LoopLoad \/ LoopSend \/ LoopStamp \/ LoopStore
         \/ LoopTrigger \/ LoopFire \/ LoopKind \/ LoopAux
         \/ LoopSetterDone \/ LoopTriggerDone
  PROVE  /\ UNCHANGED <<type, result, main>> /\ tally'.overlap = tally.overlap
         /\ logger.pc # "Clear" /\ logger'.pc # "Write"
<1>1. tally \in Tallies /\ logger \in Loggers
  BY DEF TypeInv, TypeOK
<1> USE DEF Tallies, Loggers
<1>2. CASE LoopSetter
  BY <1>1, <1>2 DEF LoopSetter, LoggerAt
<1>3. CASE LoopLoad
  BY <1>1, <1>3 DEF LoopLoad, LoggerAt
<1>4. CASE LoopSend
  BY <1>1, <1>4 DEF LoopSend, LoggerAt, Sent
<1>5. CASE LoopStamp
  BY <1>1, <1>5 DEF LoopStamp, LoggerAt
<1>6. CASE LoopStore
  BY <1>1, <1>6 DEF LoopStore, LoggerAt
<1>7. CASE LoopTrigger
  BY <1>1, <1>7 DEF LoopTrigger, LoggerAt
<1>8. CASE LoopFire
  BY <1>1, <1>8 DEF LoopFire, LoggerAt
<1>9. CASE LoopKind
  BY <1>1, <1>9 DEF LoopKind, LoggerAt
<1>10. CASE LoopAux
  BY <1>1, <1>10 DEF LoopAux, LoggerAt, Switched
<1>11. CASE LoopSetterDone
  BY <1>1, <1>11 DEF LoopSetterDone, LoggerAt
<1>12. CASE LoopTriggerDone
  BY <1>1, <1>12 DEF LoopTriggerDone, LoggerAt
<1> QED
  BY <1>2, <1>3, <1>4, <1>5, <1>6, <1>7, <1>8, <1>9, <1>10, <1>11, <1>12

\* Its handler has the switcher to itself, and the plane's messages touch nothing shown.
LEMMA ShownKept ==
  ASSUME OutcomeInv, OutcomeInv', Shown, Next
  PROVE Shown'
<1> USE DEF OutcomeInv, RequestInv, TypeInv, TypeOK, Shown, Undisturbed, Alone, Tallies, Mains, Loggers
<1>1. CASE Handler
  <2>1. CASE SetInProgress
    BY <2>1 DEF SetInProgress, MainAt, Latest, RequestPcs
  <2>2. CASE SetParamValue \/ SetParamSendTime \/ SetParamCount \/ SetParamUnconfirm
    BY <2>2 DEF SetParamValue, SetParamSendTime, SetParamCount, SetParamUnconfirm, MainAt
  <2>3. CASE RequestStamp \/ RequestStore \/ ArmTriggerCount \/ ArmTriggerTime
    BY <2>3 DEF RequestStamp, RequestStore, ArmTriggerCount, ArmTriggerTime, MainAt
  <2>4. CASE RequestSend \/ RequestAux
    <3>1. CASE RequestSend
      BY <3>1, SMTT(30) DEF RequestSend, MainAt, Sent
    <3>2. CASE RequestAux
      BY <3>2, SMTT(30) DEF RequestAux, MainAt, Switched
    <3> QED
      BY <2>4, <3>1, <3>2
  <2>5. CASE EkfSourceSetMatched
    BY <2>5 DEF EkfSourceSetMatched, MainAt
  <2> QED
    BY <1>1, <2>1, <2>2, <2>3, <2>4, <2>5 DEF Handler
<1>2. CASE Arrival
  <2>1. ASSUME NEW k \in Kinds, Request(k) PROVE Shown'
    BY <2>1 DEF Request, MainAt
  <2>2. ASSUME NEW v \in {0, 1}, ParamValueReceived(v) PROVE Shown'
    BY <2>2 DEF ParamValueReceived, MainAt
  <2>3. ASSUME NEW n \in {1, 2, 3}, EkfSourceSetDetected(n) PROVE Shown'
    BY <2>3 DEF EkfSourceSetDetected, MainAt
  <2>4. CASE PlaneDetected
    BY <2>4 DEF PlaneDetected
  <2> QED
    BY <1>2, <2>1, <2>2, <2>3, <2>4 DEF Arrival
<1>3. CASE Loop
  <2>1. CASE LoopStarts
    BY <2>1, SMTT(30) DEF LoopStarts, LoggerAt, RequestPcs
  <2>2. CASE LoopSetter \/ LoopLoad \/ LoopSend \/ LoopStamp \/ LoopStore
    BY <2>2, LoopAtWork, StillShown
  <2>3. CASE LoopTrigger \/ LoopFire \/ LoopKind \/ LoopAux
    BY <2>3, LoopAtWork, StillShown
  <2>4. CASE LoopSetterDone \/ LoopTriggerDone
    BY <2>4, LoopAtWork, StillShown
  <2>5. CASE LoopVerdict
    BY <2>5 DEF LoopVerdict, LoggerAt
  <2>6. CASE LoopWrite \/ LoopClear
    <3>1. CASE LoopWrite
      BY <3>1 DEF LoopWrite, LoggerAt
    <3>2. CASE LoopClear
      BY <3>2 DEF LoopClear, LoggerAt
    <3> QED
      BY <2>6, <3>1, <3>2
  <2> QED
    BY <1>3, <2>1, <2>2, <2>3, <2>4, <2>5, <2>6 DEF Loop
<1>4. CASE Tick
  BY <1>4 DEF Tick
<1> QED
  BY <1>1, <1>2, <1>3, <1>4 DEF Next

\* The store of "in progress" is the abstract request and the store of the verdict its
\* answer; every other step is none of the ground station's business.
LEMMA StepIsPromised ==
  ASSUME OutcomeInv, Shown, Undisturbed, Next
  PROVE [Promise!Next]_(Promise!vars)
<1> USE DEF OutcomeInv, RequestInv, TypeInv, TypeOK, Tallies, Mains, Loggers, Promise!vars
<1>1. CASE Handler
  <2>1. CASE SetInProgress
    <3>1. main.pc = "Result" /\ main'.pc = "Value" /\ result' = Promise!Started(main.kind)
      BY <2>1 DEF SetInProgress, MainAt, Started, Promise!Started
    <3>2. tally' = tally /\ tally.requests \in 0..MaxRequests /\ main.kind \in Promise!Kinds
      BY <2>1 DEF SetInProgress, Kinds, Promise!Kinds
    <3>3. Promise!Request(main.kind)
      BY <3>1, <3>2, RetryAssumption DEF Promise!Request
    <3> QED
      BY <3>2, <3>3 DEF Promise!Next
  <2>2. CASE SetParamValue \/ SetParamSendTime \/ SetParamCount \/ SetParamUnconfirm
    BY <2>2 DEF SetParamValue, SetParamSendTime, SetParamCount, SetParamUnconfirm, MainAt
  <2>3. CASE RequestStamp \/ RequestStore \/ ArmTriggerCount \/ ArmTriggerTime
    BY <2>3 DEF RequestStamp, RequestStore, ArmTriggerCount, ArmTriggerTime, MainAt
  <2>4. CASE RequestSend \/ RequestAux
    BY <2>4 DEF RequestSend, RequestAux, MainAt, Sent, Switched
  <2>5. CASE EkfSourceSetMatched
    BY <2>5 DEF EkfSourceSetMatched, MainAt
  <2> QED
    BY <1>1, <2>1, <2>2, <2>3, <2>4, <2>5 DEF Handler
<1>2. CASE Arrival
  <2>1. ASSUME NEW k \in Kinds, Request(k) PROVE UNCHANGED Promise!vars
    BY <2>1 DEF Request, MainAt
  <2>2. ASSUME NEW v \in {0, 1}, ParamValueReceived(v) PROVE UNCHANGED Promise!vars
    BY <2>2 DEF ParamValueReceived
  <2>3. ASSUME NEW n \in {1, 2, 3}, EkfSourceSetDetected(n) PROVE UNCHANGED Promise!vars
    BY <2>3 DEF EkfSourceSetDetected, MainAt
  <2>4. CASE PlaneDetected
    BY <2>4 DEF PlaneDetected
  <2> QED
    BY <1>2, <2>1, <2>2, <2>3, <2>4 DEF Arrival
<1>3. CASE Loop
  <2>1. CASE LoopWrite
    <3>1. logger.pc = "Write" /\ main.pc # "Result" /\ type \in Kinds
      BY <2>1 DEF LoopWrite, LoggerAt, TurnHasRequest, Alone, RequestPcs
    <3>2. result = Promise!Started(type) /\ logger.verdict \in Promise!Verdicts(type)
      BY <3>1 DEF Shown, Kinds, Started, Failed, Succeeded, Promise!Started, Promise!Verdicts
    <3>3. result' = logger.verdict /\ UNCHANGED <<main, tally>>
      BY <2>1 DEF LoopWrite
    <3>4. Promise!Answer(type)
      BY <3>2, <3>3 DEF Promise!Answer
    <3> QED
      BY <3>1, <3>4 DEF Promise!Next, Kinds, Promise!Kinds
  <2>2. CASE LoopStarts \/ LoopSend \/ LoopAux
    BY <2>2 DEF LoopStarts, LoopSend, LoopAux, Sent, Switched
  <2>3. CASE LoopSetter \/ LoopLoad \/ LoopStamp \/ LoopStore \/ LoopTrigger \/ LoopFire
    BY <2>3 DEF LoopSetter, LoopLoad, LoopStamp, LoopStore, LoopTrigger, LoopFire
  <2>4. CASE LoopKind \/ LoopSetterDone \/ LoopTriggerDone \/ LoopVerdict \/ LoopClear
    BY <2>4 DEF LoopKind, LoopSetterDone, LoopTriggerDone, LoopVerdict, LoopClear
  <2> QED
    BY <1>3, <2>1, <2>2, <2>3, <2>4 DEF Loop
<1>4. CASE Tick
  BY <1>4 DEF Tick
<1> QED
  BY <1>1, <1>2, <1>3, <1>4 DEF Next

\* GPSOnOffSwitcher, whatever the interleaving: while no turn of the loop has cut the handler
\* of the latest request, every step shows the ground station what it was promised: the
\* request in progress, then its own verdict, once, or a later request.
THEOREM PromiseIsKept == Spec => Promise!Init /\ [][Undisturbed => [Promise!Next]_(Promise!vars)]_vars
<1>1. Init => Promise!Init /\ Shown
  BY DEF Init, Promise!Init, Shown, Undisturbed
<1>2. OutcomeInv /\ OutcomeInv' /\ Shown /\ [Next]_vars =>
        Shown' /\ [Undisturbed => [Promise!Next]_(Promise!vars)]_vars
  <2> SUFFICES ASSUME OutcomeInv, OutcomeInv', Shown, [Next]_vars
               PROVE Shown' /\ (Undisturbed => [Promise!Next]_(Promise!vars))
    OBVIOUS
  <2>1. CASE Next
    BY <2>1, ShownKept, StepIsPromised
  <2>2. CASE UNCHANGED vars
    BY <2>2 DEF Shown, Undisturbed, vars, Promise!vars
  <2> QED
    BY <2>1, <2>2
<1> QED
  BY <1>1, <1>2, OutcomeInvariant, PTL DEF Spec

\* No handler is cut when handlers and turns run to their end, and the switcher implements
\* the promise.
COROLLARY WholeTurnsImplement ==
  ASSUME Preempt = FALSE
  PROVE Spec => Promise!Init /\ [][Promise!Next]_(Promise!vars)
<1> DEFINE Whole == TypeInv /\ Undisturbed /\ (main.pc = "idle" \/ logger.pc = "idle")
<1>1. Init => Whole
  BY TypesInitially DEF Init, Undisturbed
<1>2. Whole /\ [Next]_vars => Whole'
  <2> SUFFICES ASSUME Whole, Next PROVE Whole'
    BY TypesKept DEF TypeInv, TypeOK, TurnHasRequest, Undisturbed, vars
  <2>1. TypeInv'
    BY TypesKept
  <2> USE DEF TypeInv, TypeOK, Undisturbed, Tallies, Mains, Loggers
  <2>2. CASE Handler
    BY <2>1, <2>2 DEF Handler, MainAt, SetInProgress, SetParamValue, SetParamSendTime, SetParamCount, SetParamUnconfirm,
      RequestSend, RequestStamp, RequestStore, ArmTriggerCount, ArmTriggerTime, RequestAux, EkfSourceSetMatched,
      Sent, Switched
  <2>3. CASE Arrival
    BY <2>1, <2>3 DEF Arrival, MainAt, Request, ParamValueReceived, EkfSourceSetDetected, PlaneDetected
  <2>4. CASE Loop
    BY <2>1, <2>4 DEF Loop, LoggerAt, RequestPcs, LoopStarts, LoopSetter, LoopLoad, LoopSend, LoopStamp, LoopStore,
      LoopTrigger, LoopFire, LoopKind, LoopAux, LoopSetterDone, LoopTriggerDone, LoopVerdict, LoopWrite, LoopClear,
      Sent, Switched
  <2>5. CASE Tick
    BY <2>1, <2>5 DEF Tick
  <2> QED
    BY <2>2, <2>3, <2>4, <2>5 DEF Next
<1>3. Whole => Undisturbed
  OBVIOUS
<1>4. UNCHANGED vars => UNCHANGED Promise!vars
  BY DEF vars, Promise!vars
<1> HIDE DEF Whole
<1>5. Whole /\ [Undisturbed => [Promise!Next]_(Promise!vars)]_vars => [Promise!Next]_(Promise!vars)
  BY <1>3, <1>4
<1> QED
  BY <1>1, <1>2, <1>5, PromiseIsKept, PTL DEF Spec
=============================================================================
