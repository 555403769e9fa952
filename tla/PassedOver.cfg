SPECIFICATION Spec
CONSTANTS
  Player = {p1, p2}
  MaxStack = 2
  Card = {c1}
  Sources = {}
  MaxOwed = 0
  Fires <- UntilFires
  Asks = {}
  Effects = {"due"}
  Intents = {"until"}
  AttackTaxes = {{}}
  CanAttack = FALSE
  DelayedSteps = {}
  BeginSteps = {}
SYMMETRY Symmetry
INVARIANT StopsOnAction
