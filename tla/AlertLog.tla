------------------------------ MODULE AlertLog ------------------------------
(***************************************************************************)
(* What the alert store of the server promises to GET_ALERTS and to the    *)
(* web page: the most recent Capacity alerts, newest first, none missing,  *)
(* none repeated, none out of order.  How they are kept (a ring, a head    *)
(* and a count) is the business of Server.                                 *)
(***************************************************************************)
EXTENDS Integers, Sequences

CONSTANTS
  Alerts,    \* every alert that can be raised
  Capacity   \* how many of them are remembered

VARIABLE log

\* The log after alert a: a in front, the oldest one forgotten when full.
Remember(a) ==
  [k \in 1 .. (IF Len(log) < Capacity THEN Len(log) + 1 ELSE Capacity) |->
     IF k = 1 THEN a ELSE log[k - 1]]

Init == log = <<>>

Raise(a) == log' = Remember(a)

Next == \E a \in Alerts : Raise(a)

Spec == Init /\ [][Next]_log
=============================================================================
