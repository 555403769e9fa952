SPECIFICATION Spec
CONSTANTS
  Player = {p1, p2}
  MaxStack = 1
  Card = {c1}
  Sources = {}
  MaxOwed = 0
  Fires <- DelayedFires
  Asks = {}
  Effects = {}
  Intents = {"end"}
  AttackTaxes = {{}}
  CanAttack = TRUE
  DelayedSteps = {"END_OF_COMBAT"}
  BeginSteps = {}
SYMMETRY Symmetry
PROPERTY EndsOnEmptyStack
