--------------------------- MODULE MCLimitedEvent ---------------------------
(* A table of three: rounds with a bye, and one pairing to play in each.     *)
EXTENDS LimitedEvent

MCSeats == 1..3
=============================================================================
