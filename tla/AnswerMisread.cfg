SPECIFICATION Spec
CONSTANTS
  Player = {p1, p2}
  MaxStack = 2
  Card = {c1}
  Sources = {c1}
  MaxOwed = 0
  Fires <- NoFires
  Asks <- TurnAsks
  Effects = {}
  Intents = {}
  AttackTaxes = {{}}
  CanAttack = FALSE
  DelayedSteps = {}
  BeginSteps = {}
SYMMETRY Symmetry
INVARIANT AnswerRead
