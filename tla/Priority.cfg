SPECIFICATION Spec
CONSTANTS
  Player = {p1, p2}
  MaxStack = 3
  Card = {c1, c2}
  Sources = {}
  MaxOwed = 1
  Fires <- PriorityFires
  Asks <- PriorityAsks
  Effects = {"due", "retarget", "cost", "targeted", "draw"}
  Intents = {"end", "cancel"}
  AttackTaxes = {{}}
  CanAttack = FALSE
  DelayedSteps = {}
  BeginSteps = {"UPKEEP"}
SYMMETRY Symmetry
INVARIANTS
  TypeOK
  TwoPasses
  AnswerRead
  TargetAlive
  AnnouncedFirst
  HeldIsAsked
PROPERTY BatchLands
