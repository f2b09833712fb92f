------------------------------ MODULE EventLog ------------------------------
(***************************************************************************)
(* What the control store promises its callers: one log per run that only  *)
(* grows, in which no event and no external source occurs twice, and a     *)
(* consumer cursor that only moves forward, and only over events that were *)
(* in the log before the step that moves it.                               *)
(***************************************************************************)
EXTENDS Integers, Sequences

CONSTANT None       \* the source of an event that was not imported

VARIABLES log, cursor

\* The store recognises an event by its id, and an imported one by its source as well.
Distinct(l) ==
    \A m, n \in 1 .. Len(l) :
        l[m].id = l[n].id \/ (l[m].src = l[n].src /\ l[m].src # None) => m = n

Grow ==
    /\ Len(log') >= Len(log)
    /\ \A n \in 1 .. Len(log) : log'[n] = log[n]
    /\ Distinct(log')

Advance == cursor' \in cursor .. Len(log)

Init == Distinct(log) /\ cursor = 0

Next == (UNCHANGED log \/ Grow) /\ Advance

Spec == Init /\ [][Next]_<<log, cursor>>
=============================================================================
