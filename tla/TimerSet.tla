------------------------------ MODULE TimerSet ------------------------------
(***************************************************************************)
(* What timers.c promises: a set of one-shot timers, each with the time it *)
(* has left.  A check of the timers has a credit of elapsed time and runs  *)
(* the handlers that it covers, in the order of their deadlines.  Adding   *)
(* or removing a timer changes no other.                                   *)
(***************************************************************************)
EXTENDS Naturals

CONSTANTS
  Timer,
  Delay     \* the delays a timer is set with

VARIABLES
  left,     \* the time each timer that is set has left
  credit    \* the elapsed time not yet counted by the running check

vars == <<left, credit>>

Init == left = <<>> /\ credit = 0

Add(h) ==
  /\ h \notin DOMAIN left
  /\ \E d \in Delay :
       left' = [k \in DOMAIN left \cup {h} |-> IF k = h THEN d ELSE left[k]]
  /\ UNCHANGED credit

Cancel(h) ==
  /\ h \in DOMAIN left
  /\ left' = [k \in DOMAIN left \ {h} |-> left[k]]
  /\ UNCHANGED credit

\* A check begins, some time after the last one.
Begin ==
  /\ credit = 0
  /\ credit' \in Nat
  /\ UNCHANGED left

\* The first timer that is due runs, the others come closer.
Run(h) ==
  /\ h \in DOMAIN left
  /\ left[h] <= credit
  /\ \A k \in DOMAIN left : left[h] <= left[k]
  /\ credit' = credit - left[h]
  /\ left' = [k \in DOMAIN left \ {h} |-> left[k] - left[h]]

\* The check ends when no timer is due.
End ==
  /\ \A k \in DOMAIN left : left[k] > credit
  /\ credit' = 0
  /\ UNCHANGED left

Next ==
  \/ \E h \in Timer : Add(h) \/ Cancel(h) \/ Run(h)
  \/ Begin
  \/ End

Spec == Init /\ [][Next]_vars
=============================================================================
