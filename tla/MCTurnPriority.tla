--------------------------- MODULE MCTurnPriority ---------------------------
(* Instances of TurnPriority for TLC. *)
EXTENDS TurnPriority, TLC

(* What may trigger: nothing, one trigger of either seat, with or without  *)
(* a target, two that their controller orders, or one of each seat.        *)
Fired(mine, theirs) ==
  [of |-> [s \in Side |-> IF s = "active" THEN mine ELSE theirs],
   ordered |-> { s \in Side : Len(IF s = "active" THEN mine ELSE theirs) > 1 },
   lead |-> "active"]
Mine == Fired(<<FALSE>>, <<>>)
Theirs == Fired(<<>>, <<FALSE>>)
Aimed == Fired(<<TRUE>>, <<>>)
TheirsAimed == Fired(<<>>, <<TRUE>>)
Each == Fired(<<TRUE>>, <<TRUE>>)
Pair == Fired(<<FALSE, FALSE>>, <<>>)

FiresOf(table) ==
  [s \in Source |-> {Nothing} \cup IF s \in DOMAIN table THEN table[s] ELSE {}]

(* The priority run: a stack, its triggers and its choices, no combat.     *)
PriorityFires == FiresOf([resolve |-> {TheirsAimed, Pair}, cast |-> {Theirs},
                          death |-> {Mine}, begin |-> {Aimed}])
PriorityAsks == { <<"active">>, <<"active", "other">> }

(* The combat run: attackers, taxes, blocks and damage.                    *)
CombatFires == FiresOf([attack |-> {Each}, block |-> {Theirs},
                        damage |-> {Mine}, death |-> {Pair}])
CombatTaxes == { {}, {"mana", "sacrifice"} }

(* The turn run: extra turns and combats, skips, cleanup, standing passes. *)
TurnFires == FiresOf([event |-> {Mine}, delayed |-> {Theirs}, untap |-> {Mine}])
TurnAsks == { <<"other">> }

(* The run that asks whether the engine stops.  No death triggers: a loop   *)
(* of deaths that trigger deaths is the cards', and cut off by the drain.  *)
SettlesFires == FiresOf([untap |-> {Mine}, attack |-> {Theirs}, delayed |-> {Theirs}])

(* The runs of the disagreements: the fewest triggers that show each.      *)
NoFires == FiresOf([resolve |-> {}])
BatchFires == FiresOf([resolve |-> {Pair}, death |-> {Pair}])
WindowFires == FiresOf([damage |-> {Mine}])
DelayedFires == FiresOf([delayed |-> {Mine}])
UntilFires == FiresOf([death |-> {Theirs}])

(* Further causes of the same disagreements, described in the README.      *)
ReuseFires == FiresOf([resolve |-> {Fired(<<>>, <<FALSE, FALSE>>)}])
UntapFires == FiresOf([untap |-> {Pair}])
DrawFires == FiresOf([event |-> {Pair}, begin |-> {Pair}])

(* The taxes of the runs that press a standing pass beside one.            *)
SettlesTaxes == { {}, {"sacrifice"} }
ManaTaxes == { {"mana"} }

Symmetry == Permutations(Player) \cup Permutations(Card)
=============================================================================
