SPECIFICATION Spec
CONSTANTS
  Player = {p1, p2}
  MaxStack = 4
  Card = {c1}
  Sources = {}
  MaxOwed = 0
  Fires <- BatchFires
  Asks = {}
  Effects = {"due"}
  Intents = {}
  AttackTaxes = {{}}
  CanAttack = FALSE
  DelayedSteps = {}
  BeginSteps = {}
SYMMETRY Symmetry
PROPERTY BatchLands
