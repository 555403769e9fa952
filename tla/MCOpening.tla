----------------------------- MODULE MCOpening -----------------------------
(* The instance of Opening for TLC: those of TurnPriority after an opening. *)
EXTENDS MCTurnPriority, Opening
=============================================================================
