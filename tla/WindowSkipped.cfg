SPECIFICATION Spec
CONSTANTS
  Player = {p1, p2}
  MaxStack = 2
  Card = {c1}
  Sources = {}
  MaxOwed = 0
  Fires <- WindowFires
  Asks = {}
  Effects = {}
  Intents = {"end"}
  AttackTaxes = {{}}
  CanAttack = TRUE
  DelayedSteps = {}
  BeginSteps = {}
SYMMETRY Symmetry
INVARIANT TwoPasses
