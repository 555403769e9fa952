SPECIFICATION Spec
CONSTANTS
  Player = {p1, p2}
  MaxStack = 1
  Card = {c1}
  Sources = {}
  MaxOwed = 0
  Fires <- NoFires
  Asks = {}
  Effects = {}
  Intents = {"end"}
  AttackTaxes <- ManaTaxes
  CanAttack = TRUE
  DelayedSteps = {}
  BeginSteps = {}
SYMMETRY Symmetry
INVARIANT TaxClears
