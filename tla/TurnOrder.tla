------------------------------ MODULE TurnOrder ------------------------------
(***************************************************************************)
(* What the engine promises about the turn, whatever happens inside a step *)
(* (priority, the stack, suspended choices, standing passes): whose turn   *)
(* comes next and which step.  TurnPriority implements it.                 *)
(*                                                                         *)
(* Steps follow one another in a fixed order.  What effects grant is owed  *)
(* until its moment: an extra turn until a turn ends (the latest first), a *)
(* skip until its player would take a turn, an extra combat until a combat *)
(* of the same turn ends, another cleanup until the cleanup step ends.     *)
(***************************************************************************)
EXTENDS Naturals, Sequences

CONSTANTS Player, Steps  \* the two seats, the steps of a turn in order

VARIABLES active, step, extra, skips, combats, again

orderVars == << active, step, extra, skips, combats, again >>
owedVars == << extra, skips, combats, again >>

Rival(p) == CHOOSE q \in Player : q # p
StepAfter(s) == Steps[1 + (CHOOSE i \in DOMAIN Steps : Steps[i] = s)]

OrderInit ==
  /\ active \in Player /\ step = "UPKEEP" /\ extra = <<>>
  /\ skips = [p \in Player |-> 0] /\ combats = 0 /\ again = FALSE

(* An effect grants something to come later. *)
GrantTurn(p) ==
  extra' = Append(extra, p) /\ UNCHANGED << active, step, skips, combats, again >>
GrantSkip(p) ==
  skips' = [skips EXCEPT ![p] = @ + 1] /\ UNCHANGED << active, step, extra, combats, again >>
GrantCombat ==
  combats' = combats + 1 /\ UNCHANGED << active, step, extra, skips, again >>
GrantCleanup ==
  /\ step = "CLEANUP" /\ ~again /\ again' = TRUE
  /\ UNCHANGED << active, step, extra, skips, combats >>

(* A step ends: what is owed at its end comes first. *)
ExtraCombat ==
  /\ step = "END_OF_COMBAT" /\ combats > 0
  /\ step' = "BEGINNING_OF_COMBAT" /\ combats' = combats - 1
  /\ UNCHANGED << active, extra, skips, again >>
AnotherCleanup ==
  /\ step = "CLEANUP" /\ again /\ again' = FALSE
  /\ UNCHANGED << active, step, extra, skips, combats >>
NextStep ==
  /\ step # "CLEANUP" /\ ~(step = "END_OF_COMBAT" /\ combats > 0)
  /\ step' = StepAfter(step) /\ UNCHANGED << active, owedVars >>

(* A turn ends: the next one is the latest extra turn, else the rival's.   *)
(* Who is owed a skip loses that turn, and the one after it comes next.    *)
Comes(p) ==
  IF extra = <<>> THEN p = Rival(active) /\ UNCHANGED extra
  ELSE p = extra[Len(extra)] /\ extra' = SubSeq(extra, 1, Len(extra) - 1)
TurnEnds(p) == step = "CLEANUP" /\ ~again /\ Comes(p) /\ active' = p /\ UNCHANGED again
SkipTurn(p) ==
  /\ TurnEnds(p) /\ skips[p] > 0 /\ skips' = [skips EXCEPT ![p] = @ - 1]
  /\ UNCHANGED << step, combats >>
NextTurn(p) ==
  /\ TurnEnds(p) /\ skips[p] = 0 /\ step' = "UNTAP" /\ combats' = 0
  /\ UNCHANGED skips

OrderNext ==
  \/ ExtraCombat \/ AnotherCleanup \/ NextStep \/ GrantCombat \/ GrantCleanup
  \/ \E p \in Player : GrantTurn(p) \/ GrantSkip(p) \/ SkipTurn(p) \/ NextTurn(p)

OrderSpec == OrderInit /\ [][OrderNext]_orderVars
=============================================================================
