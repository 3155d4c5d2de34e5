----------------------------- MODULE LossyFifo -----------------------------
(***************************************************************************)
(* What a link of the program promises to those who send over it: messages  *)
(* wait in the order they were given, each leaves once, and either arrives  *)
(* then or never does.                                                      *)
(***************************************************************************)
EXTENDS Naturals, Sequences

CONSTANT Message

VARIABLES
  waiting,  \* given and not yet left
  arrived   \* what has come in at the other end, in that order

vars == <<waiting, arrived>>

Init == waiting = <<>> /\ arrived = <<>>

Give(m) == waiting' = Append(waiting, m) /\ UNCHANGED arrived

Arrive ==
  /\ waiting # <<>>
  /\ arrived' = Append(arrived, Head(waiting))
  /\ waiting' = Tail(waiting)

Lose == waiting # <<>> /\ waiting' = Tail(waiting) /\ UNCHANGED arrived

Next == Arrive \/ Lose \/ \E m \in Message : Give(m)

Spec == Init /\ [][Next]_vars
=============================================================================
