SPECIFICATION Spec
CONSTANTS
  Player = {p1, p2}
  MaxStack = 2
  Card = {c1, c2}
  Sources = {}
  MaxOwed = 1
  Fires <- CombatFires
  Asks <- TurnAsks
  Effects = {"due", "removeAttackers", "skipDraw", "legend", "discard", "untap", "draw"}
  Intents = {"end"}
  AttackTaxes <- CombatTaxes
  CanAttack = TRUE
  DelayedSteps = {}
  BeginSteps = {}
SYMMETRY Symmetry
INVARIANTS
  TargetAlive
  AnnouncedFirst
  BlocksDeclared
  DamageAssigned
PROPERTY EndsOnEmptyStack
