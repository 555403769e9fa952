SPECIFICATION GameSpec
CONSTANTS
  Player = {p1, p2}
  HandSize = 3
  MaxStack = 1
  Card = {c1}
  Sources = {}
  MaxOwed = 2
  Fires <- TurnFires
  Asks = {}
  Effects = {"extraTurn", "skipTurn", "extraCombat", "discard", "untap", "draw", "due", "lose"}
  Intents = {"until", "concede"}
  AttackTaxes = {{}}
  CanAttack = FALSE
  DelayedSteps = {"CLEANUP"}
  BeginSteps = {}
SYMMETRY Symmetry
CHECK_DEADLOCK FALSE
INVARIANTS
  OpeningType
  TurnEndsQuiet
  RoundsInStep
  StopsOnAction
  UntapWithoutPriority
PROPERTIES
  TurnsInOrder
  HandsAsKept
