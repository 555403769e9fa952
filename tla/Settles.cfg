SPECIFICATION FairSpec
CONSTANTS
  Player = {p1, p2}
  MaxStack = 1
  Card = {c1}
  Sources = {}
  MaxOwed = 0
  Fires <- SettlesFires
  Asks = {}
  Effects = {"due", "lose", "removeAttackers"}
  Intents = {"end", "until", "concede"}
  AttackTaxes <- SettlesTaxes
  CanAttack = TRUE
  DelayedSteps = {"CLEANUP"}
  BeginSteps = {}
CHECK_DEADLOCK FALSE
PROPERTY EngineSettles
INVARIANT TaxClears
