---------------------------- MODULE LimitedTable ----------------------------
(* The seats of a limited event, in the order of the table (eventTypes.ts).  *)
EXTENDS Integers

CONSTANT Seats  \* 1..n

(* MIN_SEATS, MAX_SEATS *)
ASSUME SeatAssumption == \E n \in 2..8 : Seats = 1..n
=============================================================================
