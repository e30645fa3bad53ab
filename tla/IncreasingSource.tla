-------------------------- MODULE IncreasingSource --------------------------
(***************************************************************************)
(* What a monotonic id source promises its caller: every id is strictly    *)
(* greater, as a number, than the one before it.  Nothing is said of how   *)
(* the ids are made; `last` is the id issued last, 0 before the first.     *)
(***************************************************************************)
EXTENDS Naturals

VARIABLE last

Init == last = 0

Issue == last' \in Nat /\ last' > last

Next == Issue

Spec == Init /\ [][Next]_last
=============================================================================
