------------------------------- MODULE Retry -------------------------------
(***************************************************************************)
(* The two retry objects of the program, as operators on records:          *)
(*   - ParamSetter and CommandRequester (src/src/mav/param_setter.{h,cpp},  *)
(*     src/src/utils/command_requester.{h,cpp}): a command that is sent     *)
(*     again every repeatTimeout until confirmed or out of tries;           *)
(*   - TimeTrigger (src/src/utils/time_trigger.{h,cpp}): fires every period *)
(*     at most countLeft times.                                             *)
(* The code stamps a time and compares stamp + timeout with the clock.      *)
(* Here a stamp is an AGE, the ticks since the stamp, that stops growing at *)
(* the timeout: only "old enough" matters.  commandSendTime = 0, which      *)
(* setParam uses for "at once", is the age that is already old enough       *)
(* (exact from one repeatTimeout after the program's start on).             *)
(***************************************************************************)
EXTENDS Integers

\* Time passing for one stamp.
Aged(age, timeout) == IF age < timeout THEN age + 1 ELSE age

\* TimeUtils::isTimeout(curTime, stamp, timeout)
IsTimeout(age, timeout) == age >= timeout

\* Fault: the count goes on below zero, where nothing stops it.
StoredAlways(count, loaded) == loaded - 1
\* `if (n > 0) --n` of doNow and of TimeTrigger::isFired, whose load and store
\* are apart: the count after the store of a thread that loaded `loaded`.
Stored(count, loaded) == IF loaded > 0 THEN loaded - 1 ELSE count

\* ParamSetter::isFinished, CommandRequester::isFinished
IsFinished(s) == s.confirmed \/ s.left = 0

\* Fault: a finished setter keeps sending.
IsDueAnyway(s, timeout) == IsTimeout(s.age, timeout)
\* The guards of loop(): not finished, and the last try is old enough.
IsDue(s, timeout) == ~IsFinished(s) /\ IsTimeout(s.age, timeout)

\* Fault: any answer confirms.
AnswerAccepted(s, v) == IF IsFinished(s) THEN s ELSE [s EXCEPT !.confirmed = TRUE]
\* onMessageReceived: an answer confirms an unfinished command whose value it has.
Answered(s, v) ==
  IF ~IsFinished(s) /\ v = s.value THEN [s EXCEPT !.confirmed = TRUE] ELSE s

\* The part of TimeTrigger::isFired that decides.
IsFired(t, period) == t.left # 0 /\ IsTimeout(t.age, period)
=============================================================================
