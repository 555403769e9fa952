--------------------------- MODULE TurnCauseProofs ---------------------------
(***************************************************************************)
(* The properties of TurnPriority that the code breaks, and what it takes  *)
(* to break each: without those triggers, taxes, intents or steps the      *)
(* property holds, for every value of the other constants.                 *)
(***************************************************************************)
EXTENDS TurnInputProofs, FiniteSetTheorems

(***************************************************************************)
(* Passes.                                                                 *)
(***************************************************************************)

(* The triggers and effects under which passes are counted as they should  *)
(* be.  Triggers of attack, block and damage may be placed in the middle   *)
(* of a standing pass, which is counted after them (drainAutoPasses), and  *)
(* a legend choice hands priority back without a reset of the passes made  *)
(* before it (finalizeLegendKeep).                                         *)
Undisturbed ==
  /\ \A source \in {"attack", "block", "damage"} : Fires[source] = {Nothing}
  /\ "legend" \notin Effects

Leaving == {"resolve", "advance", "enter", "turn"}
Fits(r, q) == r.passes = 0 \/ (r.passes = 1 /\ Opponent(r.holder) \in q)

NoLegend ==
  board # "legend" /\ ctl.at # "legend" /\ "legend" \notin KindsOf(round.choices)

(* A second tax is parked on whatever passes were made before it; nothing  *)
(* but its payment is possible then, and that starts the round afresh.     *)
SacrificeParked == "sacrifice" \in combat.parked
Paying ==
  SacrificeParked =>
    /\ ctl.at = "rest" /\ ~OwesInput(round) /\ ~BlocksOwed
    /\ "mana" \notin combat.tax \cup combat.parked

(* A declaration that is still open was not passed over by anyone.         *)
Unpassed ==
  DeclarationOpen /\ ctl.at \notin {"advance", "enter", "turn"} =>
    /\ round.passes = 0 /\ ctl.at # "resolve"
    /\ "resolution" \notin KindsOf(round.choices)

(* passCount is the number of seats that passed in succession.             *)
Counted ==
  ctl.at \notin Leaving /\ ~OwesInput(round) /\ ~SacrificeParked => Fits(round, passed)
Ended == ctl.at \in Leaving /\ ctl.caller # "answer" => passed = Player

PassInv == NoLegend /\ Paying /\ Unpassed /\ Counted /\ Ended

-----------------------------------------------------------------------------
LEMMA BothSeats ==
  ASSUME NEW p \in Player
  PROVE  Opponent(Opponent(p)) = p /\ {Opponent(p), p} = Player
BY OpponentIsOther, PlayerAssumption

(* What a placement, and a check, do to the passes.                        *)
LEMMA PlaceMoves ==
  ASSUME TypeOK, NEW source \in Source, NEW r \in Round, NEW s \in Place(source, r)
  PROVE  /\ s \in Round /\ (s = r \/ s.passes = 0)
         /\ KindsOf(s.choices) \subseteq KindsOf(r.choices) \cup {"order"}
<1>1. active \in Player /\ s \in Placed(source, r, active, Spared)
  BY DEF TypeOK, Place
<1> QED
  BY <1>1, PlacedEffect, PlacedType

LEMMA BegunMoves ==
  ASSUME TypeOK, NEW r \in Round, NEW s \in Begun(r)
  PROVE  /\ s \in Round /\ (s = r \/ s.passes = 0)
         /\ KindsOf(s.choices) \subseteq KindsOf(r.choices) \cup {"order"}
BY PlaceMoves DEF Begun, Source

(* A source that fires nothing leaves the round alone.                     *)
LEMMA PlaceNothing ==
  ASSUME TypeOK, NEW source \in Source, Fires[source] = {Nothing}, NEW r \in Round,
         NEW s \in Place(source, r)
  PROVE  s = r
<1>1. PICK f \in Firing(source, r, active, Spared) :
        s = PlaceTriggersOnStack(r, BatchOf(f), f.ordered, active)
  BY DEF Place, Placed
<1>2. PICK ids : f = Built(Nothing, ids, active)
  BY <1>1 DEF Firing
<1>3. \A p \in Player : Slice(Nothing, ids, active, p) = <<>>
  BY DEF Slice, Nothing, Side
<1>4. \A p \in Player : BatchOf(f).of[p] = <<>>
  BY <1>2, <1>3 DEF Built, BatchOf
<1> QED
  BY <1>1, <1>4 DEF PlaceTriggersOnStack

Declared(c) == [confirmed |-> c.confirmed, blocked |-> c.blocked, open |-> c.open]
LEMMA SurvivorsMoves ==
  ASSUME NEW c \in Combat, NEW d \in Survivors(c)
  PROVE  d.parked = c.parked /\ Declared(d) = Declared(c)
BY DEF Survivors, Combat, Declared

LEMMA CheckMoves ==
  ASSUME TypeOK, NoLegend, NEW r \in Round, NEW s \in CheckStateBasedActions(r)
  PROVE  /\ s.round \in Round /\ (s.round = r \/ s.round.passes = 0)
         /\ KindsOf(s.round.choices) \subseteq KindsOf(r.choices) \cup {"order"}
         /\ s.board # "legend" /\ s.combat.parked = combat.parked
         /\ Declared(s.combat) = Declared(combat)
<1>0. combat \in Combat /\ board # "legend"
  BY DEF TypeOK, NoLegend
<1>1. CASE board = "clean"
  BY <1>1 DEF CheckStateBasedActions, Found
<1>2. CASE board # "clean"
  <2>1. \/ s \in { Found(x, Left, c) : x \in Place("death", r), c \in Survivors(combat) }
        \/ s \in { Lost(r) : e \in Effects \cap {"lose"} }
    BY <1>0, <1>2 DEF CheckStateBasedActions
  <2>2. CASE s \in { Found(x, Left, c) : x \in Place("death", r), c \in Survivors(combat) }
    <3>1. PICK x \in Place("death", r), c \in Survivors(combat) : s = Found(x, Left, c)
      BY <2>2
    <3>2. s.round = x /\ s.combat = c /\ s.board = "clean"
      BY <1>0, <3>1 DEF Found, Left
    <3>3. /\ x \in Round /\ (x = r \/ x.passes = 0)
          /\ KindsOf(x.choices) \subseteq KindsOf(r.choices) \cup {"order"}
      BY PlaceMoves DEF Source
    <3> QED
      BY <1>0, <3>2, <3>3, SurvivorsMoves
  <2>3. CASE s \in { Lost(r) : e \in Effects \cap {"lose"} }
    BY <2>3 DEF Lost
  <2> QED
    BY <2>1, <2>2, <2>3
<1> QED
  BY <1>1, <1>2

LEMMA SameDeclarations ==
  ASSUME phase' = phase, Declared(combat') = Declared(combat), DeclarationOpen'
  PROVE  DeclarationOpen
<1>1. /\ combat'.confirmed = combat.confirmed /\ combat'.blocked = combat.blocked
      /\ combat'.open = combat.open
  BY DEF Declared
<1> QED
  BY <1>1 DEF DeclarationOpen

LEMMA GotoCaller ==
  ASSUME TypeOK, NEW pc, Goto(pc)
  PROVE  ctl'.at = pc /\ ctl'.caller = ctl.caller
BY DEF TypeOK, Goto, Control

LEMMA BeginCaller ==
  ASSUME NEW pc, pc # "rest", NEW caller, NEW sweeps, Begin(pc, caller, sweeps)
  PROVE  ctl'.at = pc /\ ctl'.caller = caller
BY DEF Begin

(* Where the mutation goes on, where it resolves, where it leaves a step.  *)
LEMMA GoesOn ==
  ASSUME ctl'.at \notin Leaving \cup {"legend"},
         board' # "legend", "legend" \notin KindsOf(round'.choices),
         "sacrifice" \notin combat'.parked,
         OwesInput(round') \/ Fits(round', passed'),
         DeclarationOpen' => round'.passes = 0 /\ "resolution" \notin KindsOf(round'.choices)
  PROVE  PassInv'
BY DEF PassInv, NoLegend, Paying, SacrificeParked, Unpassed, Counted, Ended, Leaving

LEMMA LeavesAStep ==
  ASSUME ctl'.at \in {"advance", "enter", "turn"},
         board' # "legend", "legend" \notin KindsOf(round'.choices),
         "sacrifice" \notin combat'.parked,
         ctl'.caller # "answer" => passed' = Player
  PROVE  PassInv'
BY DEF PassInv, NoLegend, Paying, SacrificeParked, Unpassed, Counted, Ended, Leaving

LEMMA Resolves ==
  ASSUME ctl'.at = "resolve",
         board' # "legend", "legend" \notin KindsOf(round'.choices),
         "sacrifice" \notin combat'.parked, ~DeclarationOpen',
         ctl'.caller # "answer" => passed' = Player
  PROVE  PassInv'
BY DEF PassInv, NoLegend, Paying, SacrificeParked, Unpassed, Counted, Ended, Leaving

-----------------------------------------------------------------------------
(* The engine.                                                             *)
LEMMA Running ==
  ASSUME PassInv, ctl.at # "rest"
  PROVE  "sacrifice" \notin combat.parked
BY DEF PassInv, Paying, SacrificeParked

(* What a check leaves behind, where the mutation goes on.                 *)
LEMMA CheckedGoesOn ==
  ASSUME TypeOK, PassInv, ctl.at \notin Leaving \cup {"rest"},
         NEW s \in CheckStateBasedActions(round),
         round' = s.round \/ (round' = Grant(s.round, active)),
         board' = s.board, combat' = s.combat, phase' = phase,
         passed' = passed \/ s.round.stack # round.stack,
         ctl'.at \notin Leaving \cup {"legend"}
  PROVE  PassInv'
<1>1. round \in Round /\ NoLegend /\ "sacrifice" \notin combat.parked
  BY Running DEF TypeOK, PassInv
<1>2. /\ s.round \in Round /\ (s.round = round \/ s.round.passes = 0)
      /\ KindsOf(s.round.choices) \subseteq KindsOf(round.choices) \cup {"order"}
      /\ s.board # "legend" /\ s.combat.parked = combat.parked
      /\ Declared(s.combat) = Declared(combat)
  BY <1>1, CheckMoves
<1>3. /\ round'.choices = s.round.choices /\ round'.target = s.round.target
      /\ (round' = s.round \/ round'.passes = 0)
  BY <1>2 DEF Grant, Round
<1>4. "legend" \notin KindsOf(round'.choices)
  BY <1>1, <1>2, <1>3 DEF NoLegend
<1>5. OwesInput(round') \/ Fits(round', passed')
  <2>1. CASE round' = round /\ s.round = round
    <3>1. OwesInput(round) \/ Fits(round, passed)
      BY <1>1 DEF PassInv, Counted, SacrificeParked
    <3>2. passed' = passed
      BY <2>1
    <3> QED
      BY <2>1, <3>1, <3>2
  <2>2. CASE round'.passes = 0
    BY <2>2 DEF Fits
  <2> QED
    BY <1>2, <1>3, <2>1, <2>2
<1>6. ASSUME DeclarationOpen'
      PROVE  round'.passes = 0 /\ "resolution" \notin KindsOf(round'.choices)
  <2>1. DeclarationOpen
    BY <1>2, <1>6, SameDeclarations
  <2>2. round.passes = 0 /\ "resolution" \notin KindsOf(round.choices)
    BY <2>1 DEF PassInv, Unpassed, Leaving
  <2> QED
    BY <1>2, <1>3, <2>2
<1> QED
  BY <1>1, <1>2, <1>4, <1>5, <1>6, GoesOn

(* Where the round, its combat and its passes are left as they are.        *)
LEMMA UntouchedGoesOn ==
  ASSUME PassInv, ctl.at \notin Leaving, "sacrifice" \notin combat.parked,
         round' = round, board' = board, phase' = phase, passed' = passed,
         combat'.parked \subseteq combat.parked, Declared(combat') = Declared(combat),
         ctl'.at \notin Leaving \cup {"legend"}
  PROVE  PassInv'
<1>1. board' # "legend" /\ "legend" \notin KindsOf(round'.choices)
  BY DEF PassInv, NoLegend
<1>2. OwesInput(round') \/ Fits(round', passed')
  BY DEF PassInv, Counted, SacrificeParked
<1>3. DeclarationOpen' => round'.passes = 0 /\ "resolution" \notin KindsOf(round'.choices)
  BY SameDeclarations DEF PassInv, Unpassed, Leaving
<1> QED
  BY <1>1, <1>2, <1>3, GoesOn

LEMMA PassesCounted ==
  ASSUME TypeOK, PassInv, DrainAutoPasses \/ CheckBeforePass
  PROVE  PassInv'
<1>1. Halt \/ StartPass \/ Goto("take") \/ Goto("drain")
  BY DEF DrainAutoPasses, CheckBeforePass
<1>2. ctl'.at \in {"rest", "sweep", "check", "take", "drain"}
  BY <1>1, GotoAt, HaltAt DEF StartPass, TypeOK, Control
<1>3. phase' = phase /\ ctl.at \in {"drain", "check"}
  BY DEF DrainAutoPasses, CheckBeforePass
<1>4. CASE DrainAutoPasses
  <2>1. /\ round' = round /\ board' = board /\ passed' = passed /\ combat' = combat
        /\ "sacrifice" \notin combat.parked
    BY <1>3, <1>4, Running DEF DrainAutoPasses
  <2> QED
    BY <1>2, <1>3, <2>1, UntouchedGoesOn DEF Leaving
<1>5. CASE CheckBeforePass
  <2>1. PICK s \in CheckStateBasedActions(round) :
          /\ round' = s.round /\ board' = s.board /\ combat' = s.combat
          /\ passed' = IF s.round.stack = round.stack THEN passed ELSE {}
    BY <1>5 DEF CheckBeforePass, After
  <2> QED
    BY <1>2, <1>3, <2>1, CheckedGoesOn DEF Leaving
<1> QED
  BY <1>4, <1>5

(* The second pass in succession is that of the other seat.                *)
LEMMA CountPassCounted ==
  ASSUME TypeOK, PassInv, ctl.at = "take", ~OwesInput(round), CountPass(round),
         passed' = passed \cup {round.holder}, board' # "legend",
         combat'.parked = combat.parked, ~DeclarationOpen'
  PROVE  PassInv'
<1>1. /\ round \in Round /\ round.holder \in Player /\ round.passes \in Nat
      /\ Fits(round, passed) /\ "sacrifice" \notin combat'.parked /\ passed \subseteq Player
  BY Running DEF TypeOK, Round, PassInv, Counted, SacrificeParked, Leaving
<1>2. "legend" \notin KindsOf(round.choices)
  BY DEF PassInv, NoLegend
<1>3. CASE round.passes + 1 >= 2
  <2>1. round'.choices = round.choices /\ (Goto("resolve") \/ Goto("advance"))
    BY <1>1, <1>3 DEF CountPass, Round
  <2>2. ctl'.at \in {"resolve", "advance"}
    BY <2>1, GotoAt
  <2>3. Opponent(round.holder) \in passed
    BY <1>1, <1>3 DEF Fits
  <2>4. passed' = Player
    BY <1>1, <2>3, BothSeats
  <2> QED
    BY <1>1, <1>2, <2>1, <2>2, <2>4, LeavesAStep, Resolves
<1>4. CASE ~(round.passes + 1 >= 2)
  <2>1. /\ round' = [round EXCEPT !.passes = round.passes + 1, !.holder = Opponent(@)]
        /\ Goto("drain")
    BY <1>4 DEF CountPass
  <2>2. round.passes = 0
    BY <1>1, <1>4
  <2>3. /\ round'.choices = round.choices /\ round'.passes = 1
        /\ round'.holder = Opponent(round.holder)
    BY <1>1, <2>1, <2>2 DEF Round
  <2>4. Fits(round', passed')
    BY <1>1, <2>3, BothSeats DEF Fits
  <2>5. ctl'.at = "drain"
    BY <2>1, GotoAt
  <2> QED
    BY <1>1, <1>2, <2>3, <2>4, <2>5, GoesOn DEF Leaving
<1> QED
  BY <1>3, <1>4

LEMMA TakeCounted ==
  ASSUME Undisturbed, TypeOK, Sound, PassInv,
         TakeDeclaring \/ TakeHaltsForBlocks \/ TakeNoBlocks \/ TakeDamaging \/ TakePass
  PROVE  PassInv'
<1>1. ctl.at = "take" /\ round \in Round /\ combat \in Combat /\ phase' = phase
  BY DEF TakeDeclaring, TakeHaltsForBlocks, TakeNoBlocks, TakeDamaging, TakePass, TypeOK
<1>2. ~OwesInput(round) /\ board # "legend"
  BY <1>1 DEF Sound, DrainOwed, PassInv, NoLegend
<1>3. CASE TakeDeclaring
  <2>1. PICK r \in IF combat.attacking THEN Place("attack", round) ELSE {round} :
          CountPass(r) /\ passed' = PassedBy(round.holder, r)
    BY <1>3 DEF TakeDeclaring
  <2>2. r = round
    BY <1>1, <2>1, PlaceNothing DEF Undisturbed, Source
  <2>3. CountPass(round) /\ passed' = passed \cup {round.holder}
    BY <2>1, <2>2 DEF PassedBy
  <2>4. combat'.parked = combat.parked /\ ~DeclarationOpen' /\ board' = board
    BY <1>1, <1>3 DEF TakeDeclaring, DeclarationOpen, Combat, DamageSteps
  <2> QED
    BY <1>1, <1>2, <2>3, <2>4, CountPassCounted
<1>4. CASE TakeHaltsForBlocks
  <2>1. /\ round' = [round EXCEPT !.holder = Opponent(active)] /\ Halt
        /\ combat' = combat /\ board' = board /\ BlocksOwed
    BY <1>4 DEF TakeHaltsForBlocks
  <2>2. /\ round.passes = 0 /\ "resolution" \notin KindsOf(round.choices)
        /\ "legend" \notin KindsOf(round.choices)
    BY <1>1, <2>1 DEF PassInv, Unpassed, NoLegend, BlocksOwed, DeclarationOpen
  <2>3. round'.choices = round.choices /\ round'.passes = 0
    BY <1>1, <2>1, <2>2 DEF Round
  <2>4. ctl'.at \in {"rest", "sweep"} /\ "sacrifice" \notin combat'.parked
    BY <1>1, <2>1, HaltAt, Running
  <2> QED
    BY <1>2, <2>1, <2>2, <2>3, <2>4, GoesOn DEF Fits, Leaving
<1>5. CASE TakeNoBlocks
  <2>1. PICK r \in IF combat.attacking THEN Place("block", round) ELSE {round} :
          CountPass(r) /\ passed' = PassedBy(round.holder, r)
    BY <1>5 DEF TakeNoBlocks
  <2>2. r = round
    BY <1>1, <2>1, PlaceNothing DEF Undisturbed, Source
  <2>3. CountPass(round) /\ passed' = passed \cup {round.holder}
    BY <2>1, <2>2 DEF PassedBy
  <2>4. combat'.parked = combat.parked /\ ~DeclarationOpen' /\ board' = board
    BY <1>1, <1>5 DEF TakeNoBlocks, DeclarationOpen, Combat, DamageSteps
  <2> QED
    BY <1>1, <1>2, <2>3, <2>4, CountPassCounted
<1>6. CASE TakeDamaging
  <2>1. PICK r \in Place("damage", round) :
          CountPass(r) /\ passed' = PassedBy(round.holder, r)
    BY <1>6 DEF TakeDamaging
  <2>2. r = round
    BY <1>1, <2>1, PlaceNothing DEF Undisturbed, Source
  <2>3. CountPass(round) /\ passed' = passed \cup {round.holder}
    BY <2>1, <2>2 DEF PassedBy
  <2> DEFINE c == [combat EXCEPT !.open = FALSE, !.owing = {}]
  <2>4. c \in Combat /\ ~c.open /\ c.parked = combat.parked
    BY <1>1 DEF Combat
  <2>5. combat' \in Survivors(c) /\ board' = "due" /\ phase \in DamageSteps
    BY <1>6 DEF TakeDamaging
  <2> HIDE DEF c
  <2>6. combat'.parked = combat.parked /\ ~combat'.open
    BY <2>4, <2>5, SurvivorsMoves, SurvivorsDeclared
  <2>7. ~DeclarationOpen'
    BY <1>1, <2>5, <2>6 DEF DeclarationOpen, DamageSteps
  <2> QED
    BY <1>1, <1>2, <2>3, <2>5, <2>6, <2>7, CountPassCounted
<1>7. CASE TakePass
  <2>1. /\ CountPass(round) /\ passed' = passed \cup {round.holder} /\ board' = board
        /\ combat' = combat /\ ~DeclarationOpen
    BY <1>7 DEF TakePass
  <2>2. ~DeclarationOpen'
    BY <1>1, <2>1 DEF DeclarationOpen
  <2> QED
    BY <1>1, <1>2, <2>1, <2>2, CountPassCounted
<1> QED
  BY <1>3, <1>4, <1>5, <1>6, <1>7

(* A resolution hands priority on afresh, or an input is owed.             *)
LEMMA ThenHandOnCounted ==
  ASSUME TypeOK, PassInv, ctl.at = "resolve", NEW r \in Round, ThenHandOn(r),
         "legend" \notin KindsOf(r.choices), phase' = phase, board' # "legend",
         combat'.parked = combat.parked, Declared(combat') = Declared(combat)
  PROVE  PassInv'
<1>1. active \in Player /\ round' = HandPriorityOn(r, active)
  BY DEF TypeOK, ThenHandOn
<1>2. round'.choices = r.choices /\ round'.target = r.target
  BY <1>1, HandOnInputs
<1>3. OwesInput(round') \/ Fits(round', passed')
  BY <1>1, <1>2 DEF OwesInput, HandPriorityOn, Grant, Fits, Round
<1>4. ~DeclarationOpen'
  BY SameDeclarations DEF PassInv, Unpassed
<1>5. Goto("drain") \/ Halt \/ Goto("settle")
  BY DEF ThenHandOn
<1>6. ctl'.at \in {"drain", "rest", "sweep", "settle"}
  BY <1>5, GotoAt, HaltAt
<1>7. "sacrifice" \notin combat'.parked
  BY Running
<1> QED
  BY <1>2, <1>3, <1>4, <1>6, <1>7, GoesOn DEF Leaving

LEMMA ResolvedCounted ==
  ASSUME TypeOK, PassInv, ctl.at = "resolve", NEW r \in Round, r.choices = <<>>,
         NEW w, NEW c, NEW b, Resolved(r, w, c, b), b # "legend",
         c.parked = combat.parked, Declared(c) = Declared(combat)
  PROVE  PassInv'
<1>1. PICK s \in Place("resolve", r) : ThenHandOn(s)
  BY DEF Resolved
<1>2. s \in Round /\ KindsOf(s.choices) \subseteq {"order"}
  BY PlaceMoves, KindsOfEmpty DEF Source
<1>3. phase' = phase /\ board' = b /\ combat' = c
  BY DEF Resolved
<1> QED
  BY <1>1, <1>2, <1>3, ThenHandOnCounted

LEMMA ResolutionCounted ==
  ASSUME Undisturbed, TypeOK, Settled, PassInv,
         ResolutionSuspends \/ ResolveTopOfStack \/ ResolveWithRetarget
  PROVE  PassInv'
<1>1. Resolving /\ ctl.at = "resolve" /\ round \in Round /\ combat \in Combat
  BY DEF ResolutionSuspends, ResolveTopOfStack, ResolveWithRetarget, Resolving, TypeOK
<1>2. round.choices = <<>> /\ board # "legend"
  BY <1>1, OwedNothing DEF Settled, PassInv, NoLegend
<1>3. CASE ResolutionSuspends
  <2>1. PICK asked \in Asks :
          ThenHandOn([round EXCEPT !.told = 0, !.choices = [ k \in DOMAIN asked |->
            [kind |-> "resolution", by |-> Seat(active, asked[k]), id |-> Top(round).id] ]])
    BY <1>3 DEF ResolutionSuspends
  <2> DEFINE choices == [ k \in DOMAIN asked |->
               [kind |-> "resolution", by |-> Seat(active, asked[k]), id |-> Top(round).id] ]
             r == [round EXCEPT !.told = 0, !.choices = choices]
  <2>2. r \in Round
    BY <1>1, AskedType
  <2>3. r.choices = choices
    BY <1>1 DEF Round
  <2>4. KindsOf(choices) \subseteq {"resolution"}
    BY DEF KindsOf
  <2>5. ThenHandOn(r)
    BY <2>1
  <2> HIDE DEF r
  <2>6. "legend" \notin KindsOf(r.choices)
    BY <2>3, <2>4
  <2>7. phase' = phase /\ combat' = combat /\ board' \in {board, "due"}
    BY <1>3 DEF ResolutionSuspends
  <2> QED
    BY <1>1, <1>2, <2>2, <2>5, <2>6, <2>7, ThenHandOnCounted
<1>4. CASE ResolveTopOfStack
  <2> DEFINE r == Popped(round)
  <2>1. r \in Round /\ r.choices = <<>>
    BY <1>1, <1>2, PoppedType DEF Popped, Round
  <2>2. \/ \E w : Resolved(r, w, combat, board)
        \/ \E b \in Effects \cap {"due", "legend"} : Resolved(r, owed, combat, b)
        \/ \E c \in Survivors(combat) : Resolved(r, owed, c, board)
    BY <1>4 DEF ResolveTopOfStack
  <2> HIDE DEF r
  <2>3. CASE \E w : Resolved(r, w, combat, board)
    BY <1>1, <1>2, <2>1, <2>3, ResolvedCounted
  <2>4. CASE \E b \in Effects \cap {"due", "legend"} : Resolved(r, owed, combat, b)
    <3>1. PICK b \in Effects \cap {"due", "legend"} : Resolved(r, owed, combat, b)
      BY <2>4
    <3>2. b # "legend"
      BY DEF Undisturbed
    <3> QED
      BY <1>1, <2>1, <3>1, <3>2, ResolvedCounted
  <2>5. CASE \E c \in Survivors(combat) : Resolved(r, owed, c, board)
    <3>1. PICK c \in Survivors(combat) : Resolved(r, owed, c, board)
      BY <2>5
    <3>2. c.parked = combat.parked /\ Declared(c) = Declared(combat)
      BY <1>1, SurvivorsMoves
    <3> QED
      BY <1>1, <1>2, <2>1, <3>1, <3>2, ResolvedCounted
  <2> QED
    BY <2>2, <2>3, <2>4, <2>5
<1>5. CASE ResolveWithRetarget
  <2>1. PICK s \in FreshIds(Id \ (UsedIds(round) \cup Spared), 1) :
          Resolved([Popped(round) EXCEPT
                      !.stack = Append(@, [id |-> s[1], by |-> Top(round).by, needs |-> FALSE]),
                      !.target = { [kind |-> "retarget", by |-> Top(round).by, id |-> s[1]] }],
                   owed, combat, board)
    BY <1>5 DEF ResolveWithRetarget
  <2> DEFINE r == [Popped(round) EXCEPT
               !.stack = Append(@, [id |-> s[1], by |-> Top(round).by, needs |-> FALSE]),
               !.target = { [kind |-> "retarget", by |-> Top(round).by, id |-> s[1]] }]
  <2>2. r \in Round
    BY <1>1, OfferType
  <2>3. r.choices = <<>>
    BY <1>1, <1>2, PoppedType DEF Popped, Round
  <2>4. Resolved(r, owed, combat, board)
    BY <2>1
  <2> HIDE DEF r
  <2> QED
    BY <1>1, <1>2, <2>2, <2>3, <2>4, ResolvedCounted
<1> QED
  BY <1>3, <1>4, <1>5

LEMMA SettleCounted ==
  ASSUME TypeOK, PassInv, SettleResolution
  PROVE  PassInv'
<1>1. PICK s \in CheckStateBasedActions(round) :
        After(s) /\ IF s.over THEN Halt ELSE Goto("drain")
  BY DEF SettleResolution
<1>2. ctl'.at \in {"rest", "sweep", "drain"}
  BY <1>1, HaltAt, GotoAt
<1>3. /\ ctl.at = "settle" /\ phase' = phase /\ passed' = passed
      /\ round' = s.round /\ board' = s.board /\ combat' = s.combat
  BY <1>1 DEF SettleResolution, After
<1> QED
  BY <1>2, <1>3, CheckedGoesOn DEF Leaving

(* The passes that ended a step stand until the next one opens its round.  *)
LEMMA AdvancesCounted ==
  ASSUME TypeOK, PassInv, AdvancePhase \/ AdvanceTurn
  PROVE  PassInv'
<1>1. /\ ctl.at \in {"advance", "turn"} /\ round' = round /\ board' = board /\ passed' = passed
      /\ combat' \in {combat, NoCombat}
  BY DEF AdvancePhase, AdvanceTurn
<1>2. Goto("turn") \/ Goto("enter") \/ (ctl' = ctl /\ ctl.at = "turn")
  BY DEF AdvancePhase, AdvanceTurn
<1>3. ctl'.at \in {"turn", "enter"} /\ ctl'.caller = ctl.caller
  BY <1>2, GotoCaller
<1>4. ctl'.caller # "answer" => passed' = Player
  BY <1>1, <1>3 DEF PassInv, Ended, Leaving
<1>5. "sacrifice" \notin combat'.parked
  BY <1>1, Running DEF NoCombat
<1> QED
  BY <1>1, <1>3, <1>4, <1>5, LeavesAStep DEF PassInv, NoLegend

LEMMA FinishEntryCounted ==
  ASSUME TypeOK, PassInv, ctl.at = "enter", NEW r \in Round, NEW skipped,
         FinishEntry(r, skipped),
         KindsOf(r.choices) \subseteq {"order", "untap", "cleanup", "draw"},
         board' # "legend", combat'.parked \subseteq combat.parked,
         DeclarationOpen' /\ r.choices # <<>> => r.passes = 0
  PROVE  PassInv'
<1>1. "sacrifice" \notin combat'.parked /\ "legend" \notin KindsOf(r.choices)
      /\ "resolution" \notin KindsOf(r.choices)
  BY Running
<1>2. CASE r.choices # <<>>
  <2>1. (round' = r \/ round' = HeadChooser(r)) /\ (Halt \/ Goto("drain"))
    BY <1>2 DEF FinishEntry
  <2>2. round'.choices = r.choices /\ round'.passes = r.passes
    BY <2>1, HeadChooserEffect
  <2>3. ctl'.at \in {"rest", "sweep", "drain"}
    BY <2>1, HaltAt, GotoAt
  <2>4. OwesInput(round')
    BY <1>2, <2>2 DEF OwesInput
  <2> QED
    BY <1>1, <1>2, <2>2, <2>3, <2>4, GoesOn DEF Leaving
<1>3. CASE r.choices = <<>> /\ skipped
  <2>1. round' = r /\ Goto("advance") /\ passed' = passed
    BY <1>3 DEF FinishEntry
  <2>2. ctl'.at = "advance" /\ ctl'.caller = ctl.caller
    BY <2>1, GotoCaller
  <2>3. ctl'.caller # "answer" => passed' = Player
    BY <2>1, <2>2 DEF PassInv, Ended, Leaving
  <2> QED
    BY <1>1, <2>1, <2>2, <2>3, LeavesAStep
<1>4. CASE r.choices = <<>> /\ ~skipped
  <2>1. round' = Grant(r, active) /\ Goto("drain")
    BY <1>4 DEF FinishEntry
  <2>2. round'.choices = r.choices /\ round'.passes = 0
    BY <2>1 DEF Grant, Round
  <2>3. ctl'.at = "drain"
    BY <2>1, GotoAt
  <2> QED
    BY <1>1, <2>2, <2>3, GoesOn DEF Fits, Leaving
<1> QED
  BY <1>2, <1>3, <1>4

(* What an entry adds to a quiet round.                                    *)
Opened(r) ==
  /\ r \in Round /\ KindsOf(r.choices) \subseteq {"order"}
  /\ r.choices # <<>> => r.passes = 0

LEMMA EnteringOpened ==
  ASSUME TypeOK, Sound, ctl.at = "enter"
  PROVE  Opened(round)
BY Entering, KindsOfEmpty DEF Opened

LEMMA PlaceOpened ==
  ASSUME TypeOK, NEW source \in Source, NEW r, Opened(r), NEW s \in Place(source, r)
  PROVE  Opened(s)
<1>1. /\ s \in Round /\ (s = r \/ s.passes = 0)
      /\ KindsOf(s.choices) \subseteq KindsOf(r.choices) \cup {"order"}
  BY PlaceMoves DEF Opened
<1> QED
  BY <1>1 DEF Opened

(* The draw step may ask about the draw first, of what was a quiet round.  *)
LEMMA DrawnMoves ==
  ASSUME TypeOK, NEW r \in Round, r.choices = <<>>, NEW s \in Drawn(r)
  PROVE  s \in Round /\ KindsOf(s.choices) \subseteq {"order", "draw"}
<1>1. s \in Round
  BY DrawnType
<1>2. CASE s \in Place("event", r)
  BY <1>2, PlaceMoves, KindsOfEmpty DEF Source
<1>3. ASSUME NEW p \in Player, s = AskDraw(r, p)
      PROVE  KindsOf(s.choices) \subseteq {"order", "draw"}
  <2> DEFINE ask == [kind |-> "draw", by |-> p, id |-> 0]
  <2>1. ask \in Choice /\ Append(<<>>, ask) = << ask >> /\ ask.kind = "draw"
    BY DEF Choice, ChoiceKind
  <2> HIDE DEF ask
  <2>2. s.choices = << ask >>
    BY <1>3, <2>1 DEF AskDraw, Round, ask
  <2> QED
    BY <2>1, <2>2, OneKind
<1> QED
  BY <1>1, <1>2, <1>3 DEF Drawn

LEMMA BegunOpened ==
  ASSUME TypeOK, NEW r, Opened(r), NEW s \in Begun(r)
  PROVE  Opened(s)
BY PlaceOpened DEF Begun, Source

(* Outside combat no declaration is open.                                  *)
LEMMA Peaceful ==
  ASSUME phase \notin {"DECLARE_ATTACKERS", "DECLARE_BLOCKERS"} \cup DamageSteps, phase' = phase
  PROVE  ~DeclarationOpen'
BY DEF DeclarationOpen

LEMMA EnterUntapCounted ==
  ASSUME TypeOK, Sound, PassInv, EnterUntap
  PROVE  PassInv'
<1>1. /\ ctl.at = "enter" /\ phase = "UNTAP" /\ phase' = phase /\ board' = board
      /\ combat' = combat /\ board # "legend"
      /\ FinishEntry(AskUntap, TRUE) \/ \E r \in Place("untap", round) : FinishEntry(r, TRUE)
  BY DEF EnterUntap, PassInv, NoLegend
<1>2. ~DeclarationOpen' /\ Opened(round)
  BY <1>1, Peaceful, EnteringOpened DEF DamageSteps
<1>3. CASE FinishEntry(AskUntap, TRUE)
  <2> DEFINE ask == [kind |-> "untap", by |-> active, id |-> 0]
  <2>1. ask \in Choice /\ << ask >> \in Seq(Choice)
    BY DEF TypeOK, Choice, ChoiceKind
  <2>2. AskUntap \in Round /\ AskUntap.choices = << ask >>
    BY <2>1 DEF TypeOK, AskUntap, Round
  <2>3. KindsOf(AskUntap.choices) = {"untap"}
    BY <2>2, OneKind
  <2> QED
    BY <1>1, <1>2, <1>3, <2>2, <2>3, FinishEntryCounted
<1>4. CASE \E r \in Place("untap", round) : FinishEntry(r, TRUE)
  <2>1. PICK r \in Place("untap", round) : FinishEntry(r, TRUE)
    BY <1>4
  <2>2. Opened(r)
    BY <1>2, PlaceOpened DEF Source
  <2> QED
    BY <1>1, <1>2, <2>1, <2>2, FinishEntryCounted DEF Opened
<1> QED
  BY <1>1, <1>3, <1>4

LEMMA EnterStepCounted ==
  ASSUME TypeOK, Sound, PassInv,
         SkipDrawStep \/ EnterStep \/ EnterEndOfCombat \/ EnterDeclareAttackers
  PROVE  PassInv'
<1>1. /\ ctl.at = "enter" /\ phase' = phase /\ board' = board /\ board # "legend"
  BY DEF SkipDrawStep, EnterStep, EnterEndOfCombat, EnterDeclareAttackers, PassInv, NoLegend
<1>2. Opened(round) /\ round \in Round /\ round.choices = <<>>
  BY <1>1, EnteringOpened, Entering
<1>3. CASE SkipDrawStep
  <2>1. FinishEntry(round, TRUE) /\ combat' = combat /\ phase = "DRAW"
    BY <1>3 DEF SkipDrawStep
  <2>2. ~DeclarationOpen'
    BY <1>1, <2>1, Peaceful DEF DamageSteps
  <2> QED
    BY <1>1, <1>2, <2>1, <2>2, FinishEntryCounted DEF Opened
<1>4. CASE EnterStep
  <2>1. PICK r1 \in IF phase = "DRAW" THEN Drawn(round)
                    ELSE IF phase = "PRECOMBAT_MAIN" THEN Place("event", round) ELSE {round} :
          \E r2 \in Delayed(r1) : \E r3 \in Begun(r2) : FinishEntry(r3, FALSE)
    BY <1>4 DEF EnterStep
  <2>2. r1 \in Round /\ KindsOf(r1.choices) \subseteq {"order", "draw"}
    BY <1>2, <2>1, PlaceMoves, DrawnMoves, KindsOfEmpty DEF Source
  <2>3. PICK r2 \in Delayed(r1) : \E r3 \in Begun(r2) : FinishEntry(r3, FALSE)
    BY <2>1
  <2>4. r2 \in Round /\ KindsOf(r2.choices) \subseteq {"order", "draw"}
    BY <2>2, DelayedEffect
  <2>5. PICK r3 \in Begun(r2) : FinishEntry(r3, FALSE)
    BY <2>3
  <2>6. r3 \in Round /\ KindsOf(r3.choices) \subseteq {"order", "draw"}
    BY <2>4, BegunMoves
  <2>7. ~DeclarationOpen' /\ combat' = combat
    BY <1>1, <1>4, Peaceful DEF EnterStep, DamageSteps
  <2> QED
    BY <1>1, <2>5, <2>6, <2>7, FinishEntryCounted
<1>5. CASE EnterEndOfCombat
  <2>1. PICK r1 \in Delayed(round) : \E r2 \in Begun(r1) : FinishEntry(r2, ~combat.attacking)
    BY <1>5 DEF EnterEndOfCombat
  <2>2. r1 \in Round /\ KindsOf(r1.choices) \subseteq {"order"}
    BY <1>2, DelayedEffect DEF Opened
  <2>3. PICK r2 \in Begun(r1) : FinishEntry(r2, ~combat.attacking)
    BY <2>1
  <2>4. r2 \in Round /\ KindsOf(r2.choices) \subseteq {"order"}
    BY <2>2, BegunMoves
  <2>5. ~DeclarationOpen' /\ combat' = combat
    BY <1>1, <1>5, Peaceful DEF EnterEndOfCombat, DamageSteps
  <2> QED
    BY <1>1, <2>3, <2>4, <2>5, FinishEntryCounted
<1>6. CASE EnterDeclareAttackers
  <2>1. PICK r \in Begun(round) : FinishEntry(r, FALSE)
    BY <1>6 DEF EnterDeclareAttackers
  <2>2. Opened(r)
    BY <1>2, <2>1, BegunOpened
  <2>3. combat'.parked = {}
    BY <1>6 DEF EnterDeclareAttackers, NoCombat
  <2> QED
    BY <1>1, <2>1, <2>2, <2>3, FinishEntryCounted DEF Opened
<1> QED
  BY <1>3, <1>4, <1>5, <1>6

LEMMA EnterBlocksAndDamageCounted ==
  ASSUME TypeOK, Sound, PassInv, EnterDeclareBlockers \/ EnterDamage
  PROVE  PassInv'
<1>1. ctl.at = "enter" /\ board # "legend" /\ combat \in Combat
  BY DEF EnterDeclareBlockers, EnterDamage, PassInv, NoLegend, TypeOK
<1>2. Opened(round)
  BY <1>1, EnteringOpened
<1>3. CASE EnterDeclareBlockers
  <2>1. PICK noLegalBlock \in {FALSE, combat.attacking} :
          /\ combat' = [combat EXCEPT !.blocked = noLegalBlock]
          /\ \E r1 \in Begun(round) :
               \E r2 \in IF noLegalBlock THEN Place("block", r1) ELSE {r1} :
                 FinishEntry(r2, ~combat.attacking)
    BY <1>3 DEF EnterDeclareBlockers
  <2>2. PICK r1 \in Begun(round) :
          \E r2 \in IF noLegalBlock THEN Place("block", r1) ELSE {r1} :
            FinishEntry(r2, ~combat.attacking)
    BY <2>1
  <2>3. Opened(r1)
    BY <1>2, BegunOpened
  <2>4. PICK r2 \in IF noLegalBlock THEN Place("block", r1) ELSE {r1} :
          FinishEntry(r2, ~combat.attacking)
    BY <2>2
  <2>5. Opened(r2)
    BY <2>3, <2>4, PlaceOpened DEF Source
  <2>6. combat'.parked = combat.parked /\ board' = board
    BY <1>1, <1>3, <2>1 DEF EnterDeclareBlockers, Combat
  <2> QED
    BY <1>1, <2>4, <2>5, <2>6, FinishEntryCounted DEF Opened
<1>4. CASE EnterDamage
  <2>1. \/ \E r \in Begun(round) : FinishEntry(r, TRUE) \/ FinishEntry(r, FALSE)
        \/ \E r1 \in Place("damage", round) : \E r2 \in Begun(r1) : FinishEntry(r2, FALSE)
    BY <1>4 DEF EnterDamage
  <2>2. PICK r, skipped : Opened(r) /\ FinishEntry(r, skipped)
    <3>1. CASE \E r \in Begun(round) : FinishEntry(r, TRUE) \/ FinishEntry(r, FALSE)
      BY <1>2, <3>1, BegunOpened
    <3>2. CASE \E r1 \in Place("damage", round) : \E r2 \in Begun(r1) : FinishEntry(r2, FALSE)
      <4>1. PICK r1 \in Place("damage", round) : \E r2 \in Begun(r1) : FinishEntry(r2, FALSE)
        BY <3>2
      <4>2. Opened(r1)
        BY <1>2, PlaceOpened DEF Source
      <4> QED
        BY <4>1, <4>2, BegunOpened
    <3> QED
      BY <2>1, <3>1, <3>2
  <2>3. board' \in {board, "due"}
    BY <1>4 DEF EnterDamage
  <2> DEFINE c == [combat EXCEPT !.owing = {}]
  <2>4. c \in Combat /\ c.parked = combat.parked
    BY <1>1 DEF Combat
  <2>5. \/ combat' = combat
        \/ \E assigners : combat' = [combat EXCEPT !.open = TRUE, !.owing = assigners]
        \/ combat' \in Survivors(c)
    BY <1>4 DEF EnterDamage
  <2> HIDE DEF c
  <2>6. combat'.parked = combat.parked
    BY <1>1, <2>4, <2>5, SurvivorsMoves DEF Combat
  <2> QED
    BY <1>1, <2>2, <2>3, <2>6, FinishEntryCounted DEF Opened
<1> QED
  BY <1>3, <1>4

LEMMA EnterCleanupCounted ==
  ASSUME TypeOK, Sound, PassInv, EnterCleanup
  PROVE  PassInv'
<1> DEFINE ask == [kind |-> "cleanup", by |-> active, id |-> 0]
           asked == [round EXCEPT !.holder = active, !.choices = Append(@, ask)]
<1>1. /\ ctl.at = "enter" /\ phase = "CLEANUP" /\ phase' = phase /\ board' = board
      /\ combat' = combat /\ board # "legend"
  BY DEF EnterCleanup, PassInv, NoLegend
<1>2. ~DeclarationOpen' /\ round \in Round /\ round.choices = <<>>
  BY <1>1, Peaceful, Entering DEF DamageSteps
<1>3. CASE FinishEntry(asked, FALSE)
  <2>1. ask \in Choice /\ << ask >> \in Seq(Choice) /\ Append(<<>>, ask) = << ask >>
    BY DEF TypeOK, Choice, ChoiceKind
  <2>2. asked \in Round /\ asked.choices = << ask >>
    BY <1>2, <2>1 DEF TypeOK, Round
  <2> HIDE DEF asked
  <2>3. KindsOf(asked.choices) = {"cleanup"}
    BY <2>2, OneKind
  <2> QED
    BY <1>1, <1>2, <1>3, <2>2, <2>3, FinishEntryCounted
<1>4. CASE \E r \in Delayed(round), skipped \in BOOLEAN : FinishEntry(r, skipped)
  <2>1. PICK r \in Delayed(round), skipped \in BOOLEAN : FinishEntry(r, skipped)
    BY <1>4
  <2>2. r \in Round /\ KindsOf(r.choices) = {}
    BY <1>2, DelayedEffect, KindsOfEmpty
  <2> QED
    BY <1>1, <1>2, <2>1, <2>2, FinishEntryCounted
<1> QED
  BY <1>3, <1>4 DEF EnterCleanup

(* The checks at the end of a mutation.                                    *)
LEMMA ClosingCounted ==
  ASSUME TypeOK, PassInv, Sweep \/ Recheck \/ LegendSettled \/ DamageDealt
  PROVE  PassInv'
<1>1. ctl' = AtRest \/ Halt \/ Goto("drain")
  BY DEF Sweep, Recheck, LegendSettled, DamageDealt
<1>2. ctl'.at \in {"rest", "sweep", "drain"}
  BY <1>1, GotoAt, HaltAt DEF AtRest
<1>3. ~LegendSettled
  BY DEF LegendSettled, PassInv, NoLegend
<1>4. ctl.at \in {"sweep", "recheck", "dealt"} /\ phase' = phase /\ passed' = passed
  BY <1>3 DEF Sweep, Recheck, DamageDealt
<1>5. \/ round' = round /\ board' = board /\ combat' = combat
      \/ \E s \in CheckStateBasedActions(round) :
           /\ round' = s.round \/ round' = Grant(s.round, active)
           /\ board' = s.board /\ combat' = s.combat
  BY <1>3 DEF Sweep, Recheck, DamageDealt, After
<1>6. CASE round' = round /\ board' = board /\ combat' = combat
  BY <1>2, <1>4, <1>6, Running, UntouchedGoesOn DEF Leaving
<1>7. CASE \E s \in CheckStateBasedActions(round) :
             /\ round' = s.round \/ round' = Grant(s.round, active)
             /\ board' = s.board /\ combat' = s.combat
  BY <1>2, <1>4, <1>7, CheckedGoesOn DEF Leaving
<1> QED
  BY <1>5, <1>6, <1>7

LEMMA EngineCounted ==
  ASSUME Undisturbed, TypeOK, Sound, Settled, PassInv, EngineStep
  PROVE  PassInv'
BY PassesCounted, TakeCounted, ResolutionCounted, SettleCounted, AdvancesCounted,
   EnterUntapCounted, EnterStepCounted, EnterBlocksAndDamageCounted, EnterCleanupCounted,
   ClosingCounted
   DEF EngineStep

-----------------------------------------------------------------------------
(* The mutations.                                                          *)
LEMMA AwaitsPlainly ==
  ASSUME TypeOK, PassInv, NEW kind, kind \notin ChoiceKind, NEW p, Awaits(kind, p)
  PROVE  /\ round \in Round /\ round.choices = <<>> /\ KindsOf(round.choices) = {}
         /\ kind # "target" => round.target = {}
         /\ kind = "priority" => combat.parked = {} /\ p = round.holder
<1>1. round.choices = <<>> /\ (kind # "target" => round.target = {})
  BY AwaitsNoChoice
<1>2. combat.parked \subseteq Tax
  BY DEF TypeOK, Combat
<1>3. kind = "priority" => combat.parked = {} /\ p = round.holder
  BY <1>1, <1>2 DEF Awaits, Tax
<1> QED
  BY <1>1, <1>3, KindsOfEmpty DEF TypeOK

LEMMA PassPriorityCounted ==
  ASSUME TypeOK, PassInv, NEW p \in Player, PassPriority(p)
  PROVE  PassInv'
<1> DEFINE n == round.passes + 1
<1>0. Awaits("priority", p) /\ "priority" \notin ChoiceKind
  BY DEF PassPriority, ChoiceKind
<1>1. /\ round \in Round /\ round.choices = <<>> /\ round.target = {} /\ combat.parked = {}
      /\ p = round.holder /\ KindsOf(round.choices) = {}
  BY <1>0, AwaitsPlainly
<1>2. /\ phase' = phase /\ combat' = combat /\ board' = board /\ passed' = passed \cup {p}
      /\ ~DeclarationOpen /\ board # "legend"
  BY DEF PassPriority, PassInv, NoLegend
<1>3. ~DeclarationOpen' /\ "sacrifice" \notin combat'.parked /\ passed \subseteq Player
  BY <1>1, <1>2 DEF DeclarationOpen, TypeOK
<1>4. ctl.at = "rest" /\ Fits(round, passed) /\ round.passes \in Nat
  BY <1>1, BeginAt DEF PassPriority, PassInv, Counted, Leaving, OwesInput, SacrificeParked, Round
<1>5. CASE n >= 2
  <2>1. round' = [round EXCEPT !.passes = n]
        /\ (Begin("resolve", "pass", TRUE) \/ Begin("advance", "pass", TRUE))
    BY <1>5 DEF PassPriority
  <2>2. round'.choices = round.choices /\ ctl'.at \in {"resolve", "advance"}
    BY <1>1, <2>1, BeginAt DEF Round
  <2>3. passed' = Player
    BY <1>1, <1>2, <1>3, <1>4, <1>5, BothSeats DEF Fits
  <2> QED
    BY <1>1, <1>2, <1>3, <2>2, <2>3, LeavesAStep, Resolves
<1>6. CASE ~(n >= 2)
  <2>1. /\ round' = [round EXCEPT !.passes = n, !.holder = Opponent(p)]
        /\ Begin("drain", "drain", TRUE)
    BY <1>6 DEF PassPriority
  <2>2. round.passes = 0
    BY <1>4, <1>6
  <2>3. round'.choices = round.choices /\ round'.passes = 1 /\ round'.holder = Opponent(p)
    BY <1>1, <2>1, <2>2 DEF Round
  <2>5. Opponent(round'.holder) \in passed'
    BY <1>2, <2>3, BothSeats
  <2>4. Fits(round', passed') /\ ctl'.at = "drain"
    BY <2>1, <2>3, <2>5, BeginAt DEF Fits
  <2> QED
    BY <1>1, <1>2, <1>3, <2>3, <2>4, GoesOn DEF Leaving
<1> QED
  BY <1>5, <1>6

(* A press starts the drain at most, and not while a sacrifice is parked.  *)
LEMMA IntentsCounted ==
  ASSUME PassInv, NEW p \in Player,
         EndTurn(p) \/ PassUntilAction(p) \/ CancelAutoPass(p) \/ Concede(p)
  PROVE  PassInv'
<1>1. /\ round' = round /\ phase' = phase /\ combat' = combat /\ board' = board
      /\ passed' = passed
  BY DEF EndTurn, PassUntilAction, CancelAutoPass, Concede
<1>2. ctl.at = "rest" /\ (ctl' = ctl \/ (Begin("drain", "drain", TRUE) /\ ~SacrificeParked))
  BY BeginAt DEF EndTurn, PassUntilAction, CancelAutoPass, Concede, Queues, Presses,
                 SacrificeParked
<1>3. CASE ctl' = ctl
  BY <1>1, <1>3 DEF PassInv, NoLegend, Paying, SacrificeParked, Unpassed, Counted, Ended,
                    DeclarationOpen, BlocksOwed
<1>4. CASE Begin("drain", "drain", TRUE) /\ ~SacrificeParked
  <2>1. ctl'.at = "drain" /\ "sacrifice" \notin combat.parked
    BY <1>4, BeginAt DEF SacrificeParked
  <2> QED
    BY <1>1, <1>2, <2>1, UntouchedGoesOn DEF Leaving
<1> QED
  BY <1>2, <1>3, <1>4

(* A round started afresh, with no question but the order of triggers.     *)
LEMMA AfreshGoesOn ==
  ASSUME ctl'.at \notin Leaving \cup {"legend"}, board' # "legend",
         "sacrifice" \notin combat'.parked,
         round'.passes = 0, KindsOf(round'.choices) \subseteq {"order"}
  PROVE  PassInv'
BY GoesOn DEF Fits

LEMMA CastCounted ==
  ASSUME TypeOK, PassInv, NEW p \in Player, NEW keep \in BOOLEAN, Cast(p, keep)
  PROVE  PassInv'
<1>1. PICK c \in Card :
        round' \in Place("cast",
          [round EXCEPT !.stack = Append(@, [id |-> c, by |-> p, needs |-> FALSE]),
                        !.passes = 0, !.holder = Opponent(p)])
  BY DEF Cast
<1> DEFINE item == [id |-> c, by |-> p, needs |-> FALSE]
           cast == [round EXCEPT !.stack = Append(@, item),
                                 !.passes = 0, !.holder = Opponent(p)]
<1>2. item \in Item
  BY DEF Item
<1>3. round \in Round /\ round.stack \in Seq(Item) /\ Opponent(p) \in Player
  BY OpponentIsOther DEF TypeOK, Round
<1>4. round' \in Place("cast", cast)
  BY <1>1
<1> HIDE DEF item
<1>5. Append(round.stack, item) \in Seq(Item)
  BY <1>2, <1>3, AppendProperties
<1>6. cast \in Round /\ cast.choices = round.choices /\ cast.passes = 0
  BY <1>3, <1>5 DEF Round
<1>7. KindsOf(round.choices) = {} /\ combat.parked = {}
  BY AwaitsPlainly DEF Cast, ChoiceKind
<1> HIDE DEF cast
<1>8. round'.passes = 0 /\ KindsOf(round'.choices) \subseteq {"order"}
  BY <1>4, <1>6, <1>7, PlaceMoves DEF Source
<1>9. ctl'.at = "drain" /\ combat' = combat
  BY BeginAt DEF Cast
<1>10. board' # "legend"
  BY DEF Cast, PassInv, NoLegend
<1> QED
  BY <1>7, <1>8, <1>9, <1>10, AfreshGoesOn DEF Leaving

(* An answer to the head of the queue.                                     *)
LEMMA AnsweringKind ==
  ASSUME TypeOK, Sound, PassInv, NEW kind, NEW p, Answers(kind, p)
  PROVE  /\ round \in Round /\ round.choices # <<>> /\ kind \in KindsOf(round.choices)
         /\ KindsOf(Tail(round.choices)) \subseteq KindsOf(round.choices)
         /\ "sacrifice" \notin combat.parked /\ ctl.at = "rest"
<1>1. /\ round \in Round /\ round.choices \in Seq(Choice) /\ round.choices # <<>>
      /\ Head(round.choices).kind = kind
  BY Answering
<1>2. kind \in KindsOf(round.choices)
  BY <1>1, HeadKind
<1>3. KindsOf(Tail(round.choices)) \subseteq KindsOf(round.choices)
  BY <1>1, KindsOfTail
<1>4. "sacrifice" \notin combat.parked
  BY <1>1 DEF PassInv, Paying, SacrificeParked, OwesInput
<1> QED
  BY <1>1, <1>2, <1>3, <1>4 DEF Answers

LEMMA AnsweredRest ==
  ASSUME TypeOK, NEW p \in Player, AnswerResolution(p)
  PROVE  /\ round \in Round /\ round.choices # <<>>
         /\ round'.choices = Tail(round.choices)
<1> DEFINE place == Min(Places(round, Head(round.choices).id))
           r == [round EXCEPT !.told = place]
<1>1. round \in Round /\ round.choices # <<>>
  BY DEF TypeOK, AnswerResolution, Answers
<1>2. place \in Nat
  BY <1>1, LeastPlace DEF AnswerResolution
<1>3. round' = Dequeued(r)
  BY DEF AnswerResolution
<1> HIDE DEF place
<1>4. r \in Round /\ r.choices = round.choices
  BY <1>1, <1>2 DEF Round
<1> HIDE DEF r
<1> QED
  BY <1>1, <1>3, <1>4, DequeuedEffect

LEMMA AnswerResolutionCounted ==
  ASSUME TypeOK, Sound, PassInv, NEW p \in Player, AnswerResolution(p) \/ AnswerLegend(p)
  PROVE  PassInv'
<1>1. ~AnswerLegend(p)
  BY AnsweringKind DEF AnswerLegend, PassInv, NoLegend
<1>2. AnswerResolution(p)
  BY <1>1
<1>3. /\ round \in Round /\ round.choices # <<>> /\ "resolution" \in KindsOf(round.choices)
      /\ KindsOf(Tail(round.choices)) \subseteq KindsOf(round.choices)
      /\ "sacrifice" \notin combat.parked /\ ctl.at = "rest"
  BY <1>2, AnsweringKind DEF AnswerResolution
<1>4. /\ phase' = phase /\ combat' = combat /\ board' = board
      /\ Begin(IF Rest(round) # <<>> THEN "sweep" ELSE "resolve", "answer", TRUE)
  BY <1>2 DEF AnswerResolution
<1>5. round'.choices = Tail(round.choices)
  BY <1>2, AnsweredRest
<1>6. /\ "legend" \notin KindsOf(round'.choices) /\ board' # "legend"
      /\ "sacrifice" \notin combat'.parked
  BY <1>3, <1>4, <1>5 DEF PassInv, NoLegend
<1>7. ~DeclarationOpen'
  <2>1. ~DeclarationOpen
    BY <1>3 DEF PassInv, Unpassed
  <2> QED
    BY <1>4, <2>1 DEF DeclarationOpen
<1>8. CASE Rest(round) # <<>>
  <2>1. ctl'.at = "sweep"
    BY <1>4, <1>8, BeginAt
  <2>2. OwesInput(round')
    BY <1>5, <1>8 DEF Rest, OwesInput
  <2> QED
    BY <1>6, <1>7, <2>1, <2>2, GoesOn DEF Leaving
<1>9. CASE Rest(round) = <<>>
  <2>1. ctl'.at = "resolve" /\ ctl'.caller = "answer"
    BY <1>4, <1>9, BeginCaller
  <2> QED
    BY <1>6, <1>7, <2>1, Resolves
<1> QED
  BY <1>8, <1>9

LEMMA AnswerOrderCounted ==
  ASSUME TypeOK, Sound, PassInv, NEW p \in Player, AnswerOrder(p)
  PROVE  PassInv'
<1>1. /\ round \in Round /\ round.choices # <<>> /\ active \in Player
      /\ round.stack \in Seq(Item) /\ round.batch \in Batch
      /\ round.batch.of \in [Player -> Seq(Trigger)] /\ round.batch.lead \in Player
  BY DEF TypeOK, AnswerOrder, Answers, Round, Batch
<1>0. /\ KindsOf(Tail(round.choices)) \subseteq KindsOf(round.choices)
      /\ "sacrifice" \notin combat.parked /\ ctl.at = "rest"
  BY AnsweringKind DEF AnswerOrder
<1>2. PICK slice \in Orders(round.batch.of[p]) :
        LET b == [round.batch EXCEPT !.of[p] = slice]
            more == Rest(round) # <<>> /\ Head(Rest(round)).kind = "order"
        IN  IF more
            THEN /\ round' = Dequeued([round EXCEPT !.batch = b])
                 /\ Begin("sweep", "answer", TRUE)
            ELSE /\ round' = Land([round EXCEPT
                      !.choices = Tail(@), !.held = FALSE, !.batch = NoBatch(active),
                      !.stack = @ \o b.of[b.lead] \o b.of[Opponent(b.lead)]], active)
                 /\ Begin("recheck", "answer", TRUE)
  BY DEF AnswerOrder
<1> DEFINE b == [round.batch EXCEPT !.of[p] = slice]
           parked == [round EXCEPT !.batch = b]
           landed == [round EXCEPT
             !.choices = Tail(@), !.held = FALSE, !.batch = NoBatch(active),
             !.stack = @ \o b.of[b.lead] \o b.of[Opponent(b.lead)]]
<1>3. slice \in Seq(Trigger)
  BY <1>1, OrdersType
<1>4. b \in Batch /\ b.lead \in Player
  BY <1>1, <1>3 DEF Batch
<1>5. \/ round' = Dequeued(parked) /\ Begin("sweep", "answer", TRUE) /\ Tail(round.choices) # <<>>
      \/ round' = Land(landed, active) /\ Begin("recheck", "answer", TRUE)
  BY <1>2 DEF Rest
<1> HIDE DEF b
<1>6. round.stack \o b.of[b.lead] \o b.of[Opponent(b.lead)] \in Seq(Item)
  BY <1>1, <1>4, OpponentIsOther, StackedType
<1>7. Tail(round.choices) \in Seq(Choice) /\ NoBatch(active) \in Batch
  BY <1>1, HeadTailProperties, NoBatchType DEF Round
<1>8. parked \in Round /\ parked.choices = round.choices /\ parked.passes = round.passes
  BY <1>1, <1>4 DEF Round
<1>9. landed \in Round /\ landed.choices = Tail(round.choices)
  BY <1>1, <1>6, <1>7 DEF Round
<1> HIDE DEF parked, landed
<1>10. /\ phase' = phase /\ combat' = combat /\ board' = board /\ board' # "legend"
       /\ "sacrifice" \notin combat'.parked
  BY <1>0 DEF AnswerOrder, PassInv, NoLegend
<1>11. DeclarationOpen' => round.passes = 0 /\ "resolution" \notin KindsOf(round.choices)
  BY <1>0, <1>10, SameDeclarations DEF PassInv, Unpassed
<1>12. ctl'.at \in {"sweep", "recheck"}
  BY <1>5, BeginAt
<1>13. "legend" \notin KindsOf(Tail(round.choices))
  BY <1>0 DEF PassInv, NoLegend
<1>14. CASE round' = Dequeued(parked) /\ Tail(round.choices) # <<>>
  <2>1. parked.choices # <<>>
    BY <1>1, <1>8
  <2>2. round'.choices = Tail(round.choices)
    BY <1>8, <1>14, <2>1, DequeuedEffect
  <2>3. [parked EXCEPT !.choices = Tail(@)] \in Round
    BY <1>8, <2>1, TailType
  <2>4. [parked EXCEPT !.choices = Tail(@)].passes = parked.passes
    BY <1>8 DEF Round
  <2>5. round'.passes = round.passes
    BY <1>8, <1>14, <2>3, <2>4, HeadChooserEffect DEF Dequeued
  <2>6. OwesInput(round')
    BY <1>14, <2>2 DEF OwesInput
  <2> QED
    BY <1>0, <1>10, <1>11, <1>12, <1>13, <2>2, <2>5, <2>6, GoesOn DEF Leaving
<1>15. CASE round' = Land(landed, active)
  <2>1. round'.choices = Tail(round.choices) /\ round'.passes = 0
    BY <1>1, <1>9, <1>15, LandEffect
  <2> QED
    BY <1>0, <1>10, <1>11, <1>12, <1>13, <2>1, GoesOn DEF Fits, Leaving
<1> QED
  BY <1>5, <1>14, <1>15

LEMMA AnswerUntapCounted ==
  ASSUME TypeOK, Sound, PassInv, NEW p \in Player, AnswerUntap(p)
  PROVE  PassInv'
<1>1. /\ round \in Round /\ round.choices # <<>> /\ Tail(round.choices) = <<>>
      /\ phase = "UNTAP" /\ ctl.at = "rest" /\ "sacrifice" \notin combat.parked
  BY Resuming, AnsweringKind DEF AnswerUntap, SoloKinds
<1>2. /\ phase' = phase /\ combat' = combat /\ board' = board /\ board # "legend"
      /\ "legend" \notin KindsOf(round.choices)
  BY DEF AnswerUntap, PassInv, NoLegend
<1>3. ~DeclarationOpen'
  BY <1>1, <1>2, Peaceful DEF DamageSteps
<1> DEFINE rest == [round EXCEPT !.choices = Tail(@)]
<1>4. CASE round' = round /\ Begin("sweep", "answer", TRUE)
  <2>1. ctl'.at = "sweep" /\ OwesInput(round')
    BY <1>1, <1>4, BeginAt DEF OwesInput
  <2> QED
    BY <1>1, <1>2, <1>3, <1>4, <2>1, GoesOn DEF Leaving
<1>5. ASSUME NEW r \in Place("untap", rest), round' = r,
             Begin(IF r.choices # <<>> THEN "sweep" ELSE "advance", "answer", TRUE)
      PROVE  PassInv'
  <2>1. rest \in Round /\ KindsOf(rest.choices) = {}
    BY <1>1, DequeuedEffect, TailType, KindsOfEmpty
  <2>2. KindsOf(r.choices) \subseteq {"order"}
    BY <2>1, PlaceMoves DEF Source
  <2>3. CASE r.choices # <<>>
    <3>1. ctl'.at = "sweep" /\ OwesInput(round')
      BY <1>5, <2>3, BeginAt DEF OwesInput
    <3> QED
      BY <1>1, <1>2, <1>3, <1>5, <2>2, <3>1, GoesOn DEF Leaving
  <2>4. CASE r.choices = <<>>
    <3>1. ctl'.at = "advance" /\ ctl'.caller = "answer"
      BY <1>5, <2>4, BeginCaller
    <3> QED
      BY <1>1, <1>2, <1>5, <2>2, <3>1, LeavesAStep
  <2> QED
    BY <2>3, <2>4
<1> QED
  BY <1>4, <1>5 DEF AnswerUntap

(* A question about a draw may be answered ahead of the orders its step    *)
(* asks for; passes stood still while it waited.                           *)
LEMMA AnswerDrawCounted ==
  ASSUME TypeOK, Sound, PassInv, NEW p \in Player, AnswerDraw(p)
  PROVE  PassInv'
<1> DEFINE t == [round EXCEPT !.choices = Tail(@)]
<1>1. /\ round \in Round /\ round.choices # <<>>
      /\ KindsOf(Tail(round.choices)) \subseteq KindsOf(round.choices)
      /\ "sacrifice" \notin combat.parked /\ ctl.at = "rest"
  BY AnsweringKind DEF AnswerDraw
<1>2. PICK r \in Place("event", t) :
        /\ round' = IF r.choices # <<>> THEN HeadChooser(r) ELSE Grant(r, active)
        /\ Begin(IF r.choices # <<>> THEN "sweep" ELSE "drain", "answer", TRUE)
  BY DEF AnswerDraw
<1>3. /\ phase' = phase /\ combat' = combat /\ board' = board /\ board # "legend"
      /\ "legend" \notin KindsOf(round.choices)
  BY DEF AnswerDraw, PassInv, NoLegend
<1>4. t \in Round /\ t.choices = Tail(round.choices) /\ t.passes = round.passes
  <2>1. t.passes = round.passes
    BY <1>1 DEF Round
  <2> QED
    BY <1>1, <2>1, TailType, DequeuedEffect
<1> HIDE DEF t
<1>5. /\ r \in Round /\ (r.passes = round.passes \/ r.passes = 0)
      /\ KindsOf(r.choices) \subseteq KindsOf(round.choices) \cup {"order"}
  BY <1>1, <1>2, <1>4, PlaceMoves DEF Source
<1>6. DeclarationOpen' => round.passes = 0 /\ "resolution" \notin KindsOf(round.choices)
  BY <1>1, <1>3, SameDeclarations DEF PassInv, Unpassed
<1>7. CASE r.choices # <<>>
  <2>1. round' = HeadChooser(r) /\ Begin("sweep", "answer", TRUE)
    BY <1>2, <1>7
  <2>2. round'.choices = r.choices /\ round'.passes = r.passes /\ ctl'.at = "sweep"
    BY <1>5, <2>1, HeadChooserEffect, BeginAt
  <2>3. OwesInput(round')
    BY <1>7, <2>2 DEF OwesInput
  <2> QED
    BY <1>1, <1>3, <1>5, <1>6, <2>2, <2>3, GoesOn DEF Leaving
<1>8. CASE r.choices = <<>>
  <2>1. round' = Grant(r, active) /\ Begin("drain", "answer", TRUE)
    BY <1>2, <1>8
  <2>2. round'.choices = <<>> /\ round'.passes = 0 /\ ctl'.at = "drain"
    BY <1>5, <1>8, <2>1, BeginAt DEF Grant, Round
  <2> QED
    BY <1>1, <1>3, <2>2, KindsOfEmpty, AfreshGoesOn DEF Leaving
<1> QED
  BY <1>7, <1>8

(* What is held in a cleanup step is asked for, so the step is not left    *)
(* over it with passes to count.                                           *)
LEMMA AnswerCleanupCounted ==
  ASSUME TypeOK, Sound, PassInv, Asking', NEW p \in Player, AnswerCleanup(p)
  PROVE  PassInv'
<1> DEFINE r == [round EXCEPT !.choices = Tail(@)]
           parked(x) == x.held \/ x.target # {}
           window(x) == Len(x.stack) > Len(r.stack) \/ x.held
<1>1. PICK r1 \in Delayed(r) : \E r2 \in Place("event", r1) :
        /\ owed' = [Undelayed EXCEPT !.cleanup = @ \/ window(r2)]
        /\ round' = IF window(r2) /\ ~parked(r2) THEN Grant(r2, active) ELSE r2
        /\ Begin(IF ~window(r2) THEN "advance" ELSE IF parked(r2) THEN "sweep" ELSE "drain",
                 "answer", TRUE)
  BY DEF AnswerCleanup
<1>2. PICK r2 \in Place("event", r1) :
        /\ round' = IF window(r2) /\ ~parked(r2) THEN Grant(r2, active) ELSE r2
        /\ Begin(IF ~window(r2) THEN "advance" ELSE IF parked(r2) THEN "sweep" ELSE "drain",
                 "answer", TRUE)
  BY <1>1
<1>3. /\ round \in Round /\ round.choices # <<>> /\ Tail(round.choices) = <<>>
      /\ phase = "CLEANUP" /\ ctl.at = "rest" /\ "sacrifice" \notin combat.parked
  BY Resuming, AnsweringKind DEF AnswerCleanup, SoloKinds
<1>4. phase' = phase /\ combat' = combat /\ board' = board /\ board # "legend"
  BY DEF AnswerCleanup, PassInv, NoLegend
<1>5. ~DeclarationOpen'
  BY <1>3, <1>4, Peaceful DEF DamageSteps
<1>6. r \in Round /\ KindsOf(r.choices) = {}
  BY <1>3, DequeuedEffect, TailType, KindsOfEmpty
<1> HIDE DEF r
<1>7. r1 \in Round /\ KindsOf(r1.choices) = {}
  BY <1>6, DelayedEffect
<1>8. r2 \in Round /\ KindsOf(r2.choices) \subseteq {"order"}
  BY <1>7, PlaceMoves DEF Source
<1>9. CASE window(r2) /\ ~parked(r2)
  <2>1. round' = Grant(r2, active) /\ Begin("drain", "answer", TRUE)
    BY <1>2, <1>9
  <2>2. round'.choices = r2.choices /\ round'.passes = 0 /\ ctl'.at = "drain"
    BY <1>8, <2>1, BeginAt DEF Grant, Round
  <2> QED
    BY <1>3, <1>4, <1>8, <2>2, AfreshGoesOn DEF Leaving
<1>10. CASE window(r2) /\ parked(r2)
  <2>1. round' = r2 /\ Begin("sweep", "answer", TRUE)
    BY <1>2, <1>10
  <2>2. ctl'.at = "sweep"
    BY <2>1, BeginAt
  <2>3. OwesInput(round')
    <3>1. CASE r2.held
      <4>1. "order" \in KindsOf(round'.choices)
        BY <2>1, <3>1 DEF Asking, Orderly, Tidy, Held, Behind
      <4> QED
        BY <4>1, KindsOfEmpty DEF OwesInput
    <3> QED
      BY <1>10, <2>1, <3>1 DEF OwesInput
  <2> QED
    BY <1>3, <1>4, <1>5, <1>8, <2>1, <2>2, <2>3, GoesOn DEF Leaving
<1>11. CASE ~window(r2)
  <2>1. round' = r2 /\ Begin("advance", "answer", TRUE)
    BY <1>2, <1>11
  <2>2. ctl'.at = "advance" /\ ctl'.caller = "answer"
    BY <2>1, BeginCaller
  <2> QED
    BY <1>3, <1>4, <1>8, <2>1, <2>2, LeavesAStep
<1> QED
  BY <1>9, <1>10, <1>11

(* Targets: the answer starts the round afresh.                            *)
LEMMA LandTargetCounted ==
  ASSUME TypeOK, NEW r \in Round, r.choices = <<>>, LandTarget(r),
         "sacrifice" \notin combat'.parked, board' # "legend"
  PROVE  PassInv'
<1>1. round' = Land(r, active) /\ active \in Player
  BY DEF LandTarget, TypeOK
<1>2. round'.passes = 0 /\ KindsOf(round'.choices) = {}
  BY <1>1, LandEffect, KindsOfEmpty
<1>3. Begin("rest", "drain", FALSE) \/ Begin("drain", "drain", FALSE)
  BY DEF LandTarget
<1>4. ctl'.at \in {"rest", "drain"}
  BY <1>3, BeginAt
<1> QED
  BY <1>2, <1>4, AfreshGoesOn DEF Leaving

LEMMA TargetsCounted ==
  ASSUME TypeOK, PassInv, NEW p \in Player,
         ChooseTarget(p) \/ DeclineTarget(p) \/ Retarget(p)
  PROVE  PassInv'
<1>1. Awaits("target", p) /\ round.target # {} /\ "target" \notin ChoiceKind
  BY DEF ChooseTarget, DeclineTarget, Retarget, Chosen, ChoiceKind
<1>2. round \in Round /\ round.choices = <<>> /\ active \in Player
  BY <1>1, AwaitsPlainly DEF TypeOK
<1>3. "sacrifice" \notin combat.parked
  BY <1>1 DEF PassInv, Paying, SacrificeParked, OwesInput
<1>4. combat' = combat /\ board' # "legend"
  BY DEF ChooseTarget, DeclineTarget, Retarget, PassInv, NoLegend
<1>5. CASE ChooseTarget(p)
  <2>1. PICK t \in Chosen("trigger", p) : LandTarget(Announced(round, t.id))
    BY <1>5 DEF ChooseTarget
  <2>2. Announced(round, t.id) \in Round
    BY <1>2, AnnouncedType
  <2>3. Announced(round, t.id).choices = <<>>
    BY <1>2 DEF Announced, Round
  <2> QED
    BY <1>3, <1>4, <2>1, <2>2, <2>3, LandTargetCounted
<1>6. CASE DeclineTarget(p)
  <2>1. PICK t \in Chosen("trigger", p) :
          \E k \in Places(round, t.id) : LandTarget(Withdrawn(round, k))
    BY <1>6 DEF DeclineTarget
  <2>2. PICK k \in Places(round, t.id) : LandTarget(Withdrawn(round, k))
    BY <2>1
  <2>3. Withdrawn(round, k) \in Round
    BY <1>2, WithdrawnType
  <2>4. Withdrawn(round, k).choices = <<>>
    BY <1>2 DEF Withdrawn, Round
  <2> QED
    BY <1>3, <1>4, <2>2, <2>3, <2>4, LandTargetCounted
<1>7. CASE Retarget(p)
  <2> DEFINE r == Grant([round EXCEPT !.target = {}], active)
  <2>1. r \in Round /\ r.passes = 0 /\ r.choices = <<>>
    BY <1>2 DEF Grant, Round
  <2>2. round' \in Place("resolve", r) /\ ctl'.at = "drain"
    BY <1>7, BeginAt DEF Retarget
  <2> HIDE DEF r
  <2>3. round'.passes = 0 /\ KindsOf(round'.choices) \subseteq {"order"}
    BY <2>1, <2>2, PlaceMoves, KindsOfEmpty DEF Source
  <2> QED
    BY <1>3, <1>4, <2>2, <2>3, AfreshGoesOn DEF Leaving
<1> QED
  BY <1>5, <1>6, <1>7

(* The declaration of attackers.  The tax paid last is the sacrifice, and  *)
(* while it is parked its payment alone is waited for.                     *)
LEMMA FinalizeCounted ==
  ASSUME TypeOK, PassInv, NEW c \in Combat, round.choices = <<>>, board' = board,
         FinalizeConfirmAttackers(c)
  PROVE  PassInv'
<1>1. PICK r \in IF c.attacking THEN Place("attack", round) ELSE {round} :
        round' = Grant(r, active)
  BY DEF FinalizeConfirmAttackers
<1>2. round \in Round /\ KindsOf(round.choices) = {}
  BY KindsOfEmpty DEF TypeOK
<1>3. r \in Round /\ KindsOf(r.choices) \subseteq {"order"}
  BY <1>1, <1>2, PlaceMoves DEF Source
<1>4. round'.passes = 0 /\ round'.choices = r.choices
  BY <1>1, <1>3 DEF Grant, Round
<1>5. combat'.parked = {} /\ ctl'.at = "drain" /\ board' # "legend"
  BY BeginAt DEF FinalizeConfirmAttackers, Combat, PassInv, NoLegend
<1> QED
  BY <1>3, <1>4, <1>5, AfreshGoesOn DEF Leaving

LEMMA SacrificeCounted ==
  ASSUME TypeOK, PassInv, NEW c \in Combat, Declared(c) = Declared(combat),
         c.attacking = combat.attacking, "mana" \notin c.tax,
         ~OwesInput(round), ~BlocksOwed, phase' = phase, board' = board,
         Park(c, "sacrifice")
  PROVE  PassInv'
<1>1. /\ round' = round /\ combat' = [c EXCEPT !.parked = {"sacrifice"}]
      /\ ctl.at = "rest" /\ ctl'.at = "rest"
  BY BeginAt DEF Park
<1>2. /\ combat'.parked = {"sacrifice"} /\ combat'.tax = c.tax
      /\ combat'.attacking = combat.attacking /\ Declared(combat') = Declared(combat)
      /\ combat'.blocked = combat.blocked
  BY <1>1 DEF Combat, Declared
<1>3. NoLegend'
  BY <1>1 DEF PassInv, NoLegend
<1>4. Paying'
  BY <1>1, <1>2 DEF Paying, SacrificeParked, BlocksOwed
<1>5. Unpassed'
  BY <1>1, <1>2, SameDeclarations DEF PassInv, Unpassed
<1>6. Counted' /\ Ended'
  BY <1>1, <1>2 DEF Counted, SacrificeParked, Ended, Leaving
<1> QED
  BY <1>3, <1>4, <1>5, <1>6 DEF PassInv

LEMMA ConfirmAttackersCounted ==
  ASSUME TypeOK, PassInv, NEW p \in Player, ConfirmAttackers(p)
  PROVE  PassInv'
<1>1. /\ Awaits("priority", p) /\ "priority" \notin ChoiceKind
      /\ ChargeTaxes(combat) /\ phase' = phase /\ board' = board /\ DeclarationOpen
  BY DEF ConfirmAttackers, Declares, ChoiceKind, DeclarationOpen
<1>2. /\ round \in Round /\ round.choices = <<>> /\ round.target = {}
      /\ KindsOf(round.choices) = {} /\ combat.parked = {} /\ combat \in Combat
  BY <1>1, AwaitsPlainly DEF TypeOK
<1>3. CASE FinalizeConfirmAttackers(combat)
  BY <1>1, <1>2, <1>3, FinalizeCounted
<1>4. CASE Park(combat, "mana")
  <2>1. round' = round /\ ctl.at = "rest" /\ ctl'.at = "rest"
    BY <1>4, BeginAt DEF Park
  <2>2. "sacrifice" \notin combat'.parked
    BY <1>2, <1>4 DEF Park, Combat
  <2>3. round.passes = 0
    BY <1>1, <2>1 DEF PassInv, Unpassed
  <2>4. board' # "legend"
    BY <1>1 DEF PassInv, NoLegend
  <2> QED
    BY <1>2, <2>1, <2>2, <2>3, <2>4, AfreshGoesOn DEF Leaving
<1>5. CASE "mana" \notin combat.tax /\ Park(combat, "sacrifice")
  <2>1. ~OwesInput(round) /\ ~BlocksOwed
    BY <1>2 DEF OwesInput, BlocksOwed, ConfirmAttackers, Declares
  <2> QED
    BY <1>1, <1>2, <1>5, <2>1, SacrificeCounted
<1> QED
  BY <1>1, <1>3, <1>4, <1>5 DEF ChargeTaxes

LEMMA PayAttackTaxCounted ==
  ASSUME TypeOK, PassInv, NEW p \in Player, PayAttackTax(p)
  PROVE  PassInv'
<1>1. PICK tax \in combat.parked : Awaits(tax, p) /\ ChargeTaxes(Paid(tax))
  BY DEF PayAttackTax
<1>2. combat \in Combat /\ tax \in {"mana", "sacrifice"} /\ tax \notin ChoiceKind
  BY <1>1 DEF TypeOK, Combat, Tax, ChoiceKind
<1>3. round \in Round /\ round.choices = <<>> /\ round.target = {}
  BY <1>1, <1>2, AwaitsPlainly
<1>4. ~OwesInput(round) /\ ~BlocksOwed
  BY <1>1, <1>2, <1>3 DEF OwesInput, Awaits
<1> DEFINE c == Paid(tax)
<1>5. /\ c \in Combat /\ c.tax = combat.tax \ {tax} /\ Declared(c) = Declared(combat)
      /\ c.attacking = combat.attacking
  BY <1>2 DEF Paid, Combat, Declared
<1>6. ChargeTaxes(c) /\ phase' = phase /\ board' = board
  BY <1>1 DEF PayAttackTax
<1> HIDE DEF c
<1>7. CASE FinalizeConfirmAttackers(c)
  BY <1>3, <1>5, <1>6, <1>7, FinalizeCounted
<1>8. "mana" \notin c.tax
  BY <1>1, <1>2, <1>5 DEF PassInv, Paying, SacrificeParked
<1>9. CASE Park(c, "sacrifice")
  BY <1>4, <1>5, <1>6, <1>8, <1>9, SacrificeCounted
<1> QED
  BY <1>6, <1>7, <1>8, <1>9 DEF ChargeTaxes

LEMMA DeclarationsCounted ==
  ASSUME TypeOK, PassInv, NEW p \in Player,
         \/ ToggleAttacker(p) \/ ConfirmAttackers(p) \/ PayAttackTax(p)
         \/ CancelAttackTax(p) \/ ConfirmBlockers(p) \/ ConfirmDamage(p)
  PROVE  PassInv'
<1>1. combat \in Combat /\ board # "legend"
  BY DEF TypeOK, PassInv, NoLegend
<1>2. CASE ToggleAttacker(p)
  <2>1. Awaits("priority", p) /\ "priority" \notin ChoiceKind
    BY <1>2 DEF ToggleAttacker, Declares, ChoiceKind
  <2>2. combat.parked = {}
    BY <2>1, AwaitsPlainly
  <2>3. /\ combat' = [combat EXCEPT !.attacking = ~@] /\ round' = round /\ board' = board
        /\ phase' = phase /\ passed' = passed /\ ctl.at = "rest" /\ ctl'.at = "rest"
    BY <1>2 DEF ToggleAttacker
  <2>4. combat'.parked = combat.parked /\ Declared(combat') = Declared(combat)
    BY <1>1, <2>3 DEF Combat, Declared
  <2> QED
    BY <2>2, <2>3, <2>4, UntouchedGoesOn DEF Leaving
<1>3. CASE CancelAttackTax(p)
  <2>1. Awaits("mana", p) /\ "mana" \notin ChoiceKind
    BY <1>3 DEF CancelAttackTax, ChoiceKind
  <2>2. round.choices = <<>> /\ round.target = {}
    BY <2>1, AwaitsPlainly
  <2>3. "mana" \in combat.parked
    BY <2>1, <2>2 DEF Awaits
  <2>4. "sacrifice" \notin combat.parked
    BY <2>3 DEF PassInv, Paying, SacrificeParked
  <2>5. /\ combat' = [combat EXCEPT !.parked = {}, !.attacking = FALSE] /\ round' = round
        /\ board' = board /\ phase' = phase /\ passed' = passed
        /\ ctl.at = "rest" /\ ctl'.at = "rest"
    BY <1>3, BeginAt DEF CancelAttackTax
  <2>6. combat'.parked = {} /\ Declared(combat') = Declared(combat)
    BY <1>1, <2>5 DEF Combat, Declared
  <2> QED
    BY <2>4, <2>5, <2>6, UntouchedGoesOn DEF Leaving
<1>4. CASE ConfirmBlockers(p)
  <2>1. Awaits("blockers", p) /\ "blockers" \notin ChoiceKind
    BY <1>4 DEF ConfirmBlockers, ChoiceKind
  <2>2. round \in Round /\ round.choices = <<>> /\ round.target = {} /\ KindsOf(round.choices) = {}
    BY <2>1, AwaitsPlainly
  <2>3. BlocksOwed
    <3>1. combat.parked \subseteq Tax
      BY <1>1 DEF Combat
    <3> QED
      BY <2>1, <2>2, <3>1 DEF Awaits, Tax
  <2>4. "sacrifice" \notin combat.parked
    BY <2>3 DEF PassInv, Paying, SacrificeParked
  <2>5. PICK r \in Place("block", round) : round' = Grant(r, active)
    BY <1>4 DEF ConfirmBlockers
  <2>6. r \in Round /\ KindsOf(r.choices) \subseteq {"order"}
    BY <2>2, <2>5, PlaceMoves DEF Source
  <2>7. round'.passes = 0 /\ round'.choices = r.choices
    BY <2>5, <2>6 DEF Grant, Round
  <2>8. combat'.parked = combat.parked /\ board' = board /\ ctl'.at = "drain"
    BY <1>1, <1>4, BeginAt DEF ConfirmBlockers, Combat
  <2> QED
    BY <1>1, <2>4, <2>6, <2>7, <2>8, AfreshGoesOn DEF Leaving
<1>5. CASE ConfirmDamage(p)
  <2>1. /\ Awaits("priority", round.holder) /\ "priority" \notin ChoiceKind
        /\ DeclarationOpen
    BY <1>5 DEF ConfirmDamage, ChoiceKind, DeclarationOpen
  <2>2. round \in Round /\ KindsOf(round.choices) = {} /\ combat.parked = {}
    BY <2>1, AwaitsPlainly
  <2> DEFINE left == combat.owing \ {p}
             c == [combat EXCEPT !.owing = left, !.open = left # {}]
  <2>3. /\ combat' = c \/ combat' \in Survivors(c)
        /\ \/ Begin("rest", "drain", FALSE) /\ round' = round /\ board' = board
           \/ Begin("dealt", "drain", FALSE) /\ round' \in Place("damage", round) /\ board' = "due"
    BY <1>5 DEF ConfirmDamage
  <2>4. c \in Combat /\ c.parked = {}
    BY <1>1, <2>2 DEF Combat
  <2> HIDE DEF c
  <2>5. combat'.parked = {}
    BY <2>3, <2>4, SurvivorsMoves
  <2>6. ctl.at = "rest" /\ ctl'.at \in {"rest", "dealt"}
    BY <2>3, BeginAt
  <2>7. round.passes = 0
    BY <2>1, <2>6 DEF PassInv, Unpassed
  <2>8. round'.passes = 0 /\ KindsOf(round'.choices) \subseteq {"order"}
    <3>1. CASE round' = round
      BY <2>2, <2>7, <3>1
    <3>2. CASE round' \in Place("damage", round)
      BY <2>2, <2>7, <3>2, PlaceMoves DEF Source
    <3> QED
      BY <2>3, <3>1, <3>2
  <2> QED
    BY <1>1, <2>3, <2>5, <2>6, <2>8, AfreshGoesOn DEF Leaving
<1> QED
  BY <1>2, <1>3, <1>4, <1>5, ConfirmAttackersCounted, PayAttackTaxCounted

LEMMA MutationCounted ==
  ASSUME TypeOK, Sound, PassInv, Asking', NEW p \in Player, Mutation(p)
  PROVE  PassInv'
BY PassPriorityCounted, IntentsCounted, CastCounted, AnswerResolutionCounted,
   AnswerOrderCounted, AnswerUntapCounted, AnswerDrawCounted, AnswerCleanupCounted,
   TargetsCounted, DeclarationsCounted
   DEF Mutation

LEMMA InitCounted == Init => PassInv
<1> SUFFICES ASSUME Init
             PROVE  PassInv
  OBVIOUS
<1>1. /\ round.choices = <<>> /\ round.passes = 0 /\ phase = "UPKEEP" /\ board = "clean"
      /\ ctl.at = "rest" /\ combat.parked = {}
  BY DEF Init, AtRest, NoCombat
<1>2. KindsOf(round.choices) = {}
  BY <1>1, KindsOfEmpty
<1> QED
  BY <1>1, <1>2 DEF PassInv, NoLegend, Paying, SacrificeParked, Unpassed, DeclarationOpen,
                    DamageSteps, Counted, Fits, Ended, Leaving

(* Where declarations and damage trigger nothing and no legend is          *)
(* duplicated, a resolution or the end of a step takes a pass of each seat *)
(* in succession, whatever is cast, triggered, answered or declared        *)
(* between (passCount in passPriority and drainAutoPasses).  The legends,  *)
(* attack and damage are exceptions of the code: with any one of the three *)
(* a pass is missing.  Blocks are one of the model, in which a block may   *)
(* turn illegal while the defender is waited for.                          *)
THEOREM TwoPassesElsewhere == Undisturbed => (Spec => []TwoPasses)
<1> SUFFICES ASSUME Undisturbed
             PROVE  Spec => []TwoPasses
  OBVIOUS
<1>1. OrderInv /\ InputInv /\ InputInv' /\ PassInv /\ [Next]_vars => PassInv'
  <2> SUFFICES ASSUME OrderInv, InputInv, InputInv', PassInv, [Next]_vars
               PROVE  PassInv'
    OBVIOUS
  <2>1. TypeOK /\ Sound /\ Settled /\ Asking'
    BY DEF OrderInv, InputInv
  <2>2. CASE EngineStep
    BY <2>1, <2>2, EngineCounted
  <2>3. CASE \E p \in Player : Mutation(p)
    BY <2>1, <2>3, MutationCounted
  <2>4. CASE UNCHANGED vars
    BY <2>4 DEF vars, PassInv, NoLegend, Paying, SacrificeParked, Unpassed, Counted, Ended,
                DeclarationOpen, BlocksOwed
  <2> QED
    BY <2>2, <2>3, <2>4 DEF Next
<1>2. PassInv => TwoPasses
  BY DEF PassInv, Ended, Leaving, TwoPasses
<1> QED
  BY <1>1, <1>2, InitCounted, InputInvariant, PTL DEF Spec

(***************************************************************************)
(* The tax on a declaration of attackers.                                  *)
(***************************************************************************)

(* What a parked tax is dodged by (endTurn): a press of a standing pass,   *)
(* whose guard looks for a sacrifice only, while mana is owed.             *)
NoManaOwed == \A tax \in AttackTaxes : "mana" \notin tax
PressesBarred == NoManaOwed \/ Intents \cap {"end", "until"} = {}

(* A parked tax is all the game waits for, at rest, with the declaration   *)
(* it was charged for still open.                                          *)
ParkedAtRest ==
  combat.parked # {} =>
    /\ ctl.at = "rest" /\ ~OwesInput(round)
    /\ phase = "DECLARE_ATTACKERS" /\ ~combat.confirmed
TaxInv == ParkedAtRest /\ (NoManaOwed => "mana" \notin combat.tax \cup combat.parked)

Taxed(c) == [tax |-> c.tax, parked |-> c.parked]
LEMMA SurvivorsTaxed ==
  ASSUME NEW c \in Combat, NEW d \in Survivors(c)
  PROVE  Taxed(d) = Taxed(c)
BY DEF Survivors, Combat, Taxed

LEMMA SameTaxes ==
  ASSUME NEW c, NEW d, Taxed(d) = Taxed(c)
  PROVE  d.tax = c.tax /\ d.parked = c.parked
BY DEF Taxed

LEMMA CheckTaxed ==
  ASSUME TypeOK, NEW r, NEW s \in CheckStateBasedActions(r)
  PROVE  Taxed(s.combat) = Taxed(combat)
<1>1. s.combat = combat \/ s.combat \in Survivors(combat)
  BY DEF CheckStateBasedActions, Found, Lost
<1> QED
  BY <1>1, SurvivorsTaxed DEF TypeOK

(* The engine parks no tax; it charges one when attackers are declared.    *)
LEMMA EngineTaxes ==
  ASSUME TypeOK, EngineStep
  PROVE  /\ combat'.parked \subseteq combat.parked
         /\ combat'.tax = combat.tax \/ combat'.tax \in AttackTaxes \cup {{}}
<1>1. combat \in Combat
  BY DEF TypeOK
<1>2. CASE combat' = combat
  BY <1>2
<1>3. CASE \E s \in CheckStateBasedActions(round) : combat' = s.combat
  BY <1>3, CheckTaxed, SameTaxes
<1>4. CASE TakeDeclaring \/ TakeNoBlocks \/ EnterDeclareBlockers
  BY <1>1, <1>4 DEF TakeDeclaring, TakeNoBlocks, EnterDeclareBlockers, Combat
<1>5. CASE TakeDamaging
  <2> DEFINE c == [combat EXCEPT !.open = FALSE, !.owing = {}]
  <2>1. c \in Combat /\ c.tax = combat.tax /\ c.parked = combat.parked
    BY <1>1 DEF Combat
  <2>2. combat' \in Survivors(c)
    BY <1>5 DEF TakeDamaging
  <2> HIDE DEF c
  <2> QED
    BY <2>1, <2>2, SurvivorsTaxed, SameTaxes
<1>6. CASE ResolveTopOfStack
  <2>1. combat' = combat \/ combat' \in Survivors(combat)
    BY <1>6 DEF ResolveTopOfStack, Resolved
  <2> QED
    BY <1>1, <2>1, SurvivorsTaxed, SameTaxes
<1>7. CASE AdvancePhase \/ EnterDeclareAttackers
  <2>1. \/ combat' \in {combat, NoCombat}
        \/ \E tax \in AttackTaxes : combat' = [NoCombat EXCEPT !.tax = tax]
    BY <1>7 DEF AdvancePhase, EnterDeclareAttackers
  <2>2. NoCombat.tax = {} /\ NoCombat.parked = {}
    BY DEF NoCombat
  <2>3. ASSUME NEW tax \in AttackTaxes
        PROVE  [NoCombat EXCEPT !.tax = tax].tax = tax /\ [NoCombat EXCEPT !.tax = tax].parked = {}
    BY DEF NoCombat
  <2> QED
    BY <2>1, <2>2, <2>3
<1>8. CASE EnterDamage
  <2> DEFINE c == [combat EXCEPT !.owing = {}]
  <2>1. c \in Combat /\ c.tax = combat.tax /\ c.parked = combat.parked
    BY <1>1 DEF Combat
  <2>2. \/ combat' = combat \/ combat' \in Survivors(c)
        \/ \E assigners : combat' = [combat EXCEPT !.open = TRUE, !.owing = assigners]
    BY <1>8 DEF EnterDamage
  <2>3. CASE combat' \in Survivors(c)
    <3> HIDE DEF c
    <3> QED
      BY <2>1, <2>3, SurvivorsTaxed, SameTaxes
  <2> QED
    BY <1>1, <2>2, <2>3 DEF Combat
<1>9. CASE \/ CheckBeforePass \/ SettleResolution \/ Sweep \/ Recheck
           \/ LegendSettled \/ DamageDealt
  BY <1>2, <1>3, <1>9
     DEF CheckBeforePass, SettleResolution, Sweep, Recheck, LegendSettled, DamageDealt, After
<1>10. CASE \/ DrainAutoPasses \/ TakeHaltsForBlocks \/ TakePass \/ ResolutionSuspends
            \/ ResolveWithRetarget \/ AdvanceTurn \/ EnterUntap \/ SkipDrawStep \/ EnterStep
            \/ EnterEndOfCombat \/ EnterCleanup
  BY <1>2, <1>10
     DEF DrainAutoPasses, TakeHaltsForBlocks, TakePass, ResolutionSuspends, ResolveWithRetarget,
         Resolved, AdvanceTurn, EnterUntap, SkipDrawStep, EnterStep, EnterEndOfCombat, EnterCleanup
<1> QED
  BY <1>4, <1>5, <1>6, <1>7, <1>8, <1>9, <1>10 DEF EngineStep

LEMMA EngineWorks ==
  ASSUME EngineStep
  PROVE  ctl.at # "rest"
BY DEF EngineStep, DrainAutoPasses, CheckBeforePass, TakeDeclaring, TakeHaltsForBlocks,
       TakeNoBlocks, TakeDamaging, TakePass, ResolutionSuspends, ResolveTopOfStack, Resolving,
       ResolveWithRetarget, SettleResolution, AdvancePhase, AdvanceTurn, EnterUntap,
       SkipDrawStep, EnterStep, EnterDeclareAttackers, EnterDeclareBlockers, EnterDamage,
       EnterEndOfCombat, EnterCleanup, Sweep, Recheck, LegendSettled, DamageDealt

LEMMA EngineTaxed ==
  ASSUME TypeOK, TaxInv, EngineStep
  PROVE  TaxInv'
<1>1. combat.parked = {}
  BY EngineWorks DEF TaxInv, ParkedAtRest
<1>2. combat'.parked = {}
  BY <1>1, EngineTaxes
<1>3. NoManaOwed => "mana" \notin combat'.tax
  BY EngineTaxes DEF TaxInv, NoManaOwed
<1> QED
  BY <1>2, <1>3 DEF TaxInv, ParkedAtRest, NoManaOwed

(* A mutation that leaves the combat alone, with no tax parked.            *)
LEMMA Untaxed ==
  ASSUME TaxInv, combat.parked = {}, combat'.parked = {}, combat'.tax = combat.tax
  PROVE  TaxInv'
BY DEF TaxInv, ParkedAtRest, NoManaOwed

(* While a tax is parked, nothing else is waited for.                      *)
LEMMA NoneParked ==
  ASSUME TypeOK, TaxInv, NEW kind, kind \notin Tax, NEW p, Awaits(kind, p)
  PROVE  combat.parked = {}
<1>1. combat.parked \subseteq Tax
  BY DEF TypeOK, Combat
<1>2. combat.parked # {} => round.choices = <<>> /\ round.target = {} /\ ~BlocksOwed
  BY DEF TaxInv, ParkedAtRest, OwesInput, BlocksOwed
<1> QED
  BY <1>1, <1>2 DEF Awaits

LEMMA IntentsTaxed ==
  ASSUME PressesBarred, TypeOK, TaxInv, NEW p \in Player,
         EndTurn(p) \/ PassUntilAction(p) \/ CancelAutoPass(p) \/ Concede(p)
  PROVE  TaxInv'
<1>1. combat' = combat /\ round' = round /\ phase' = phase
  BY DEF EndTurn, PassUntilAction, CancelAutoPass, Concede
<1>2. CASE ctl' = ctl
  BY <1>1, <1>2 DEF TaxInv, ParkedAtRest, NoManaOwed
<1>3. CASE (EndTurn(p) \/ PassUntilAction(p)) /\ Presses(p)
  <2>1. NoManaOwed /\ "sacrifice" \notin combat.parked
    BY <1>3 DEF PressesBarred, EndTurn, PassUntilAction, Presses
  <2>2. combat.parked \subseteq {"mana", "sacrifice"}
    BY DEF TypeOK, Combat, Tax
  <2>3. combat.parked = {}
    BY <2>1, <2>2 DEF TaxInv
  <2> QED
    BY <1>1, <2>3, Untaxed
<1> QED
  BY <1>2, <1>3 DEF EndTurn, PassUntilAction, CancelAutoPass, Concede, Queues

LEMMA AwaitedTaxed ==
  ASSUME TypeOK, TaxInv, NEW p \in Player,
         \/ PassPriority(p) \/ \E keep \in BOOLEAN : Cast(p, keep)
         \/ AnswerResolution(p) \/ AnswerOrder(p) \/ AnswerLegend(p)
         \/ AnswerUntap(p) \/ AnswerDraw(p) \/ AnswerCleanup(p)
         \/ ChooseTarget(p) \/ DeclineTarget(p) \/ Retarget(p)
         \/ ToggleAttacker(p) \/ ConfirmBlockers(p) \/ ConfirmDamage(p)
  PROVE  TaxInv'
<1>1. combat \in Combat
  BY DEF TypeOK
<1>2. \E kind \in {"priority", "target", "blockers"} \cup ChoiceKind : \E q : Awaits(kind, q)
  BY DEF PassPriority, Cast, AnswerResolution, AnswerOrder, AnswerLegend, AnswerUntap,
         AnswerDraw, AnswerCleanup, Answers, ChooseTarget, DeclineTarget, Retarget, Chosen, ToggleAttacker,
         Declares, ConfirmBlockers, ConfirmDamage, ChoiceKind
<1>3. combat.parked = {}
  BY <1>2, NoneParked DEF ChoiceKind, Tax
<1>4. CASE combat' = combat
  BY <1>3, <1>4, Untaxed
<1>5. CASE ToggleAttacker(p) \/ ConfirmBlockers(p)
  <2>1. combat'.parked = combat.parked /\ combat'.tax = combat.tax
    BY <1>1, <1>5 DEF ToggleAttacker, ConfirmBlockers, Combat
  <2> QED
    BY <1>3, <2>1, Untaxed
<1>6. CASE ConfirmDamage(p)
  <2> DEFINE left == combat.owing \ {p}
             c == [combat EXCEPT !.owing = left, !.open = left # {}]
  <2>1. combat' = c \/ combat' \in Survivors(c)
    BY <1>6 DEF ConfirmDamage
  <2>2. c \in Combat /\ c.parked = combat.parked /\ c.tax = combat.tax
    BY <1>1 DEF Combat
  <2> HIDE DEF c
  <2>3. combat'.parked = combat.parked /\ combat'.tax = combat.tax
    BY <2>1, <2>2, SurvivorsTaxed, SameTaxes
  <2> QED
    BY <1>3, <2>3, Untaxed
<1> QED
  BY <1>4, <1>5, <1>6
     DEF PassPriority, Cast, AnswerResolution, AnswerOrder, AnswerLegend, AnswerUntap,
         AnswerDraw, AnswerCleanup, ChooseTarget, DeclineTarget, Retarget

(* A declaration that owes a tax waits for it; one that is paid owes less. *)
LEMMA ChargeTaxed ==
  ASSUME TypeOK, TaxInv, NEW c \in Combat, c.tax \subseteq combat.tax, c.confirmed = FALSE,
         phase = "DECLARE_ATTACKERS", phase' = phase, ~OwesInput(round), ChargeTaxes(c)
  PROVE  TaxInv'
<1>1. NoManaOwed => "mana" \notin c.tax
  BY DEF TaxInv
<1>2. CASE FinalizeConfirmAttackers(c)
  <2>1. combat'.parked = {} /\ combat'.tax = c.tax
    BY <1>2 DEF FinalizeConfirmAttackers, Combat
  <2> QED
    BY <1>1, <2>1 DEF TaxInv, ParkedAtRest, NoManaOwed
<1>3. CASE c.tax # {} /\ Park(c, IF "mana" \in c.tax THEN "mana" ELSE "sacrifice")
  <2>1. PICK tax : Park(c, tax) /\ (tax = "mana" => "mana" \in c.tax)
    BY <1>3
  <2>2. combat'.parked = {tax} /\ combat'.tax = c.tax /\ ~combat'.confirmed
    BY <2>1 DEF Park, Combat
  <2>3. round' = round /\ ctl'.at = "rest"
    BY <2>1, BeginAt DEF Park
  <2>4. NoManaOwed => "mana" \notin combat'.tax \cup combat'.parked
    BY <1>1, <2>1, <2>2
  <2> QED
    BY <2>2, <2>3, <2>4 DEF TaxInv, ParkedAtRest, NoManaOwed
<1> QED
  BY <1>2, <1>3 DEF ChargeTaxes

LEMMA ChargesTaxed ==
  ASSUME TypeOK, TaxInv, NEW p \in Player,
         ConfirmAttackers(p) \/ PayAttackTax(p) \/ CancelAttackTax(p)
  PROVE  TaxInv'
<1>1. combat \in Combat
  BY DEF TypeOK
<1>2. CASE ConfirmAttackers(p)
  <2>1. /\ Awaits("priority", p) /\ ChargeTaxes(combat) /\ phase' = phase
        /\ phase = "DECLARE_ATTACKERS" /\ ~combat.confirmed /\ "priority" \notin ChoiceKind
    BY <1>2 DEF ConfirmAttackers, Declares, ChoiceKind
  <2>2. ~OwesInput(round)
    BY <2>1, AwaitsNoChoice DEF OwesInput
  <2>3. combat.confirmed = FALSE
    BY <1>1, <2>1 DEF Combat
  <2> QED
    BY <1>1, <2>1, <2>2, <2>3, ChargeTaxed
<1>3. CASE PayAttackTax(p)
  <2>1. PICK tax \in combat.parked : ChargeTaxes(Paid(tax))
    BY <1>3 DEF PayAttackTax
  <2>2. phase = "DECLARE_ATTACKERS" /\ ~combat.confirmed /\ ~OwesInput(round)
    BY <2>1 DEF TaxInv, ParkedAtRest
  <2>3. /\ Paid(tax) \in Combat /\ Paid(tax).tax \subseteq combat.tax
        /\ Paid(tax).confirmed = FALSE
    BY <1>1, <2>2 DEF Paid, Combat
  <2>4. phase' = phase
    BY <1>3 DEF PayAttackTax
  <2> QED
    BY <2>1, <2>2, <2>3, <2>4, ChargeTaxed
<1>4. CASE CancelAttackTax(p)
  <2>1. combat'.parked = {} /\ combat'.tax = combat.tax
    BY <1>1, <1>4 DEF CancelAttackTax, Combat
  <2> QED
    BY <2>1 DEF TaxInv, ParkedAtRest, NoManaOwed
<1> QED
  BY <1>2, <1>3, <1>4

(* Where attacks owe no mana, or nobody presses a standing pass, a tax     *)
(* parked on a declaration of attackers is paid or cancelled before the    *)
(* declaration is confirmed and its step left (prepareStandingPass).       *)
THEOREM TaxClearsElsewhere == PressesBarred => (Spec => []TaxClears)
<1> SUFFICES ASSUME PressesBarred
             PROVE  Spec => []TaxClears
  OBVIOUS
<1>1. OrderInv /\ TaxInv /\ [Next]_vars => TaxInv'
  <2> SUFFICES ASSUME OrderInv, TaxInv, [Next]_vars
               PROVE  TaxInv'
    OBVIOUS
  <2>1. TypeOK
    BY DEF OrderInv
  <2>2. CASE EngineStep
    BY <2>1, <2>2, EngineTaxed
  <2>3. CASE \E p \in Player : Mutation(p)
    BY <2>1, <2>3, IntentsTaxed, AwaitedTaxed, ChargesTaxed DEF Mutation
  <2>4. CASE UNCHANGED vars
    BY <2>4 DEF vars, TaxInv, ParkedAtRest, NoManaOwed
  <2> QED
    BY <2>2, <2>3, <2>4 DEF Next
<1>2. Init => TaxInv
  BY DEF Init, NoCombat, TaxInv, ParkedAtRest
<1>3. TaxInv => TaxClears
  BY DEF TaxInv, ParkedAtRest, TaxClears
<1> QED
  BY <1>1, <1>2, <1>3, OrderInvariant, PTL DEF Spec

(***************************************************************************)
(* What a placement of triggers may come to.                               *)
(***************************************************************************)
Stacked(r, b) == [r EXCEPT !.stack = @ \o b.of[active] \o b.of[Opponent(active)]]
Parked(r, b, s) ==
  /\ ~(s.choices = <<>>) /\ s.held /\ s.batch = b
  /\ s.stack = r.stack /\ s.target = r.target
OfTheirOwn(b) == \A p \in Player : \A k \in DOMAIN b.of[p] : b.of[p][k].by = p
PlacedAs(shape, b, r, s) ==
  /\ OfTheirOwn(b) /\ BatchIds(b) \cap (UsedIds(r) \cup Spared) = {}
  /\ shape.of["other"] = <<>> => b.of[Opponent(active)] = <<>>
  /\ \/ s = r
     \/ shape.ordered = {} /\ s = Land(Stacked(r, b), active)
     \/ shape.ordered # {} /\ Parked(r, b, s)

LEMMA StackedRound ==
  ASSUME TypeOK, NEW r \in Round, NEW b \in Batch
  PROVE  /\ Stacked(r, b) \in Round
         /\ Stacked(r, b).stack = r.stack \o b.of[active] \o b.of[Opponent(active)]
         /\ Stacked(r, b).choices = r.choices /\ Stacked(r, b).held = r.held
         /\ Stacked(r, b).batch = r.batch
<1>1. r.stack \in Seq(Item) /\ active \in Player
  BY DEF Round, TypeOK
<1>2. r.stack \o b.of[active] \o b.of[Opponent(active)] \in Seq(Item)
  BY <1>1, OpponentIsOther, StackedType
<1> QED
  BY <1>2 DEF Stacked, Round

LEMMA LandKeeps ==
  ASSUME NEW r \in Round, NEW ap
  PROVE  /\ Land(r, ap).stack = r.stack /\ Land(r, ap).choices = r.choices
         /\ Land(r, ap).held = r.held /\ Land(r, ap).batch = r.batch
BY DEF Land, RaiseTarget, Grant, Round

(* Somebody is asked for an order that is owed.                            *)
LEMMA OrdersAsked ==
  ASSUME NEW ordered \in SUBSET Player, ordered # {}, NEW ap \in Player,
         NEW choices \in Seq(Choice)
  PROVE  choices \o OrderChoices(ordered, ap) # <<>>
<1>1. ap \in ordered \/ Opponent(ap) \in ordered
  BY BothSeats
<1>2. OrderChoices(ordered, ap) \in Seq(Choice)
  BY OrderChoicesType
<1>3. Len(OrderChoices(ordered, ap)) > 0
  BY <1>1 DEF OrderChoices
<1>4. Len(choices \o OrderChoices(ordered, ap)) = Len(choices) + Len(OrderChoices(ordered, ap))
  BY <1>2, ConcatProperties
<1>5. Len(choices) \in Nat /\ Len(OrderChoices(ordered, ap)) \in Nat
  BY <1>2, LenProperties
<1>6. Len(choices \o OrderChoices(ordered, ap)) # 0
  BY <1>3, <1>4, <1>5
<1> QED
  BY <1>6

(* The triggers of a batch have ids of the game, and those of a batch that *)
(* is fired have ids that are free.                                        *)
LEMMA BatchIdsType ==
  ASSUME NEW b \in Batch
  PROVE  BatchIds(b) \subseteq Id
<1> SUFFICES ASSUME NEW p \in Player, NEW k \in DOMAIN b.of[p]
             PROVE  b.of[p][k].id \in Id
  BY DEF BatchIds
<1>1. b.of[p] \in Seq(Trigger)
  BY DEF Batch
<1>2. b.of[p][k] \in Trigger
  BY <1>1, ElementOfSeq, LenProperties
<1> QED
  BY <1>2 DEF Trigger

LEMMA SliceFresh ==
  ASSUME NEW shape \in Shape, NEW free, NEW ids \in [1..Size(shape) -> free],
         NEW ap, NEW p, NEW k \in DOMAIN Slice(shape, ids, ap, p)
  PROVE  Slice(shape, ids, ap, p)[k].id \in free
<1> DEFINE m == Len(shape.of["active"])
           n == Len(shape.of["other"])
<1>1. m \in Nat /\ n \in Nat
  BY LenProperties DEF Shape, Side
<1>2. ids \in [1..(m + n) -> free]
  BY DEF Size
<1>3. CASE p = ap
  <2>1. k \in 1..m /\ Slice(shape, ids, ap, p)[k].id = ids[0 + k]
    BY <1>3 DEF Slice
  <2> HIDE DEF m, n
  <2> QED
    BY <1>1, <1>2, <2>1, Offsets
<1>4. CASE p # ap
  <2>1. k \in 1..n /\ Slice(shape, ids, ap, p)[k].id = ids[m + k]
    BY <1>4 DEF Slice
  <2> HIDE DEF m, n
  <2> QED
    BY <1>1, <1>2, <2>1, Offsets
<1> QED
  BY <1>3, <1>4

LEMMA FiringFresh ==
  ASSUME NEW source \in Source, NEW r \in Round, NEW ap \in Player, NEW spared,
         NEW f \in Firing(source, r, ap, spared)
  PROVE  BatchIds(BatchOf(f)) \cap (UsedIds(r) \cup spared) = {}
<1> DEFINE free == Id \ (UsedIds(r) \cup spared)
<1>1. PICK shape \in Fires[source] : \E ids \in FreshIds(free, Size(shape)) : f = Built(shape, ids, ap)
  BY DEF Firing
<1>2. PICK ids \in FreshIds(free, Size(shape)) : f = Built(shape, ids, ap)
  BY <1>1
<1>3. shape \in Shape
  BY FiresAssumption
<1>4. ids \in [1..Size(shape) -> free]
  BY DEF FreshIds
<1>5. BatchOf(f).of = [p \in Player |-> Slice(shape, ids, ap, p)]
  BY <1>2 DEF Built, BatchOf
<1> HIDE DEF free
<1>6. ASSUME NEW p \in Player, NEW k \in DOMAIN BatchOf(f).of[p]
      PROVE  BatchOf(f).of[p][k].id \in free
  <2>1. BatchOf(f).of[p] = Slice(shape, ids, ap, p)
    BY <1>5
  <2> QED
    BY <1>3, <1>4, <2>1, SliceFresh
<1>7. BatchIds(BatchOf(f)) \subseteq free
  BY <1>6 DEF BatchIds
<1> QED
  BY <1>7 DEF free

LEMMA PlaceCases ==
  ASSUME TypeOK, NEW source \in Source, NEW r \in Round, NEW s \in Place(source, r)
  PROVE  \E shape \in Fires[source], b \in Batch : PlacedAs(shape, b, r, s)
<1>1. active \in Player /\ s \in Placed(source, r, active, Spared)
  BY DEF TypeOK, Place
<1>2. PICK f \in Firing(source, r, active, Spared) :
        s = PlaceTriggersOnStack(r, BatchOf(f), f.ordered, active)
  BY <1>1 DEF Placed
<1>3. PICK shape \in { sh \in Fires[source] : HasRoom(r, Size(sh)) } :
        \E ids \in FreshIds(Id \ (UsedIds(r) \cup Spared), Size(shape)) :
          f = Built(shape, ids, active)
  BY <1>2 DEF Firing
<1>4. PICK ids \in FreshIds(Id \ (UsedIds(r) \cup Spared), Size(shape)) :
        f = Built(shape, ids, active)
  BY <1>3
<1> DEFINE b == BatchOf(f)
<1>5. b \in Batch /\ shape \in Shape
  BY <1>1, <1>2, FiringType, FiresAssumption
<1>6. /\ f.ordered = { Seat(active, x) : x \in shape.ordered }
      /\ b.of = [p \in Player |-> Slice(shape, ids, active, p)]
  BY <1>4 DEF Built, BatchOf
<1>7. f.ordered \in SUBSET Player /\ (f.ordered = {} <=> shape.ordered = {})
  BY <1>1, <1>5, <1>6, SeatIsPlayer
<1>8. Opponent(active) \in Player /\ Opponent(active) # active
  BY <1>1, OpponentIsOther
<1>9. shape.of["other"] = <<>> => b.of[Opponent(active)] = <<>>
  <2> SUFFICES ASSUME shape.of["other"] = <<>>
               PROVE  b.of[Opponent(active)] = <<>>
    OBVIOUS
  <2>1. b.of[Opponent(active)] = Slice(shape, ids, active, Opponent(active))
    BY <1>6, <1>8
  <2> QED
    BY <1>8, <2>1 DEF Slice
<1>14. OfTheirOwn(b)
  <2> SUFFICES ASSUME NEW p \in Player, NEW k \in DOMAIN b.of[p]
               PROVE  b.of[p][k].by = p
    BY DEF OfTheirOwn
  <2>1. b.of[p] = Slice(shape, ids, active, p)
    BY <1>6
  <2> QED
    BY <2>1 DEF Slice
<1>15. BatchIds(b) \cap (UsedIds(r) \cup Spared) = {}
  BY <1>1, <1>2, FiringFresh
<1>10. s = PlaceTriggersOnStack(r, b, f.ordered, active)
  BY <1>2
<1> HIDE DEF b
<1>11. CASE \A p \in Player : b.of[p] = <<>>
  <2>1. s = r
    BY <1>10, <1>11 DEF PlaceTriggersOnStack
  <2> QED
    BY <1>5, <1>9, <1>14, <1>15, <2>1 DEF PlacedAs
<1>12. CASE ~(\A p \in Player : b.of[p] = <<>>) /\ f.ordered = {}
  <2>1. s = Land(Stacked(r, b), active)
    BY <1>10, <1>12 DEF PlaceTriggersOnStack, Stacked
  <2> QED
    BY <1>5, <1>7, <1>9, <1>14, <1>15, <1>12, <2>1 DEF PlacedAs
<1>13. CASE ~(\A p \in Player : b.of[p] = <<>>) /\ f.ordered # {}
  <2> DEFINE asked == r.choices \o OrderChoices(f.ordered, active)
             parked == [r EXCEPT !.batch = b, !.held = TRUE, !.passes = 0, !.choices = asked]
  <2>1. s = HeadChooser(parked)
    BY <1>10, <1>13 DEF PlaceTriggersOnStack
  <2>2. r.choices \in Seq(Choice)
    BY DEF Round
  <2>3. asked \in Seq(Choice) /\ asked # <<>>
    BY <1>1, <1>7, <1>13, <2>2, OrderChoicesType, OrdersAsked, ConcatProperties
  <2> HIDE DEF asked
  <2>4. /\ parked \in Round /\ parked.choices = asked /\ parked.held /\ parked.batch = b
        /\ parked.stack = r.stack /\ parked.target = r.target
    BY <1>5, <2>3 DEF Round
  <2> HIDE DEF parked
  <2>5. /\ s.choices = asked /\ s.held /\ s.batch = b
        /\ s.stack = r.stack /\ s.target = r.target
    BY <2>1, <2>4 DEF HeadChooser, Round
  <2> QED
    BY <1>5, <1>7, <1>9, <1>14, <1>15, <1>13, <2>3, <2>5 DEF PlacedAs, Parked
<1> QED
  BY <1>11, <1>12, <1>13

(* Nobody is asked to order triggers that come in no order.                *)
Unordered(source) == \A shape \in Fires[source] : shape.ordered = {}
LEMMA UnorderedPlaced ==
  ASSUME TypeOK, NEW source \in Source, Unordered(source), NEW r \in Round,
         NEW s \in Place(source, r)
  PROVE  s.choices = r.choices /\ s.held = r.held /\ s.batch = r.batch
<1>1. PICK shape \in Fires[source], b \in Batch : PlacedAs(shape, b, r, s)
  BY PlaceCases
<1>2. s = r \/ s = Land(Stacked(r, b), active)
  BY <1>1 DEF PlacedAs, Unordered
<1>3. Stacked(r, b) \in Round /\ Stacked(r, b).choices = r.choices
      /\ Stacked(r, b).held = r.held /\ Stacked(r, b).batch = r.batch
  BY StackedRound
<1> QED
  BY <1>2, <1>3, LandKeeps

(***************************************************************************)
(* The untap step.                                                         *)
(***************************************************************************)

(* The step waits for its own question, or nobody has a say in it.         *)
UntapInv ==
  phase = "UNTAP" => ctl.at \in {"enter", "advance"} \/ "untap" \in KindsOf(round.choices)

LEMMA UntapEntered ==
  ASSUME TypeOK, EngineStep, phase # "UNTAP", phase' = "UNTAP"
  PROVE  ctl'.at = "enter"
<1>1. AdvancePhase \/ AdvanceTurn
  BY DEF EngineStep, DrainAutoPasses, CheckBeforePass, TakeDeclaring, TakeHaltsForBlocks,
         TakeNoBlocks, TakeDamaging, TakePass, ResolutionSuspends, ResolveTopOfStack, Resolved,
         ResolveWithRetarget, SettleResolution, EnterUntap, SkipDrawStep, EnterStep,
         EnterDeclareAttackers, EnterDeclareBlockers, EnterDamage, EnterEndOfCombat,
         EnterCleanup, Sweep, Recheck, LegendSettled, DamageDealt
<1>2. ~Follows(phase, "UNTAP")
  BY DEF Follows, PHASE_ORDER
<1>3. ~AdvancePhase
  BY <1>2 DEF AdvancePhase
<1>4. Goto("enter")
  BY <1>1, <1>3 DEF AdvanceTurn
<1> QED
  BY <1>4, GotoAt

(* A round with the question of the untap step has no other.               *)
LEMMA UntapAsked ==
  ASSUME TypeOK, Sound, "untap" \in KindsOf(round.choices)
  PROVE  /\ round.choices # <<>> /\ Head(round.choices).kind = "untap" /\ Suspended(round)
         /\ ctl.at \in {"rest", "drain", "sweep"}
<1>1. ~NoSolo(round.choices)
  BY DEF NoSolo, SoloKinds
<1>2. Len(round.choices) = 1 /\ ctl.at \in {"rest", "drain", "sweep"}
  BY <1>1 DEF Sound, SoloOwed
<1>3. round.choices \in Seq(Choice)
  BY DEF TypeOK, Round
<1>4. PICK k \in DOMAIN round.choices : round.choices[k].kind = "untap"
  BY DEF KindsOf
<1>5. k = 1 /\ round.choices # <<>> /\ Head(round.choices) = round.choices[1]
  BY <1>2, <1>3, <1>4, LenProperties, EmptySeq
<1> QED
  BY <1>2, <1>4, <1>5 DEF Suspended

LEMMA UntapStays ==
  ASSUME Unordered("untap"), TypeOK, Sound, UntapInv, EngineStep, phase = "UNTAP", phase' = "UNTAP"
  PROVE  UntapInv'
<1>1. CASE "untap" \in KindsOf(round.choices)
  <2>1. ctl.at \in {"rest", "drain", "sweep"} /\ Suspended(round)
    BY <1>1, UntapAsked
  <2>2. DrainAutoPasses \/ Sweep
    BY <2>1 DEF EngineStep, CheckBeforePass, TakeDeclaring, TakeHaltsForBlocks,
         TakeNoBlocks, TakeDamaging, TakePass, ResolutionSuspends, ResolveTopOfStack, Resolving,
         ResolveWithRetarget, SettleResolution, AdvancePhase, AdvanceTurn, EnterUntap,
         SkipDrawStep, EnterStep, EnterDeclareAttackers, EnterDeclareBlockers, EnterDamage,
         EnterEndOfCombat, EnterCleanup, Recheck, LegendSettled, DamageDealt
  <2>3. round' = round
    BY <2>1, <2>2 DEF DrainAutoPasses, Sweep
  <2> QED
    BY <1>1, <2>3 DEF UntapInv
<1>2. CASE ctl.at \in {"enter", "advance"}
  <2>1. ~Follows("UNTAP", "UNTAP")
    BY DEF Follows, PHASE_ORDER
  <2>2. ~AdvancePhase
    BY <2>1 DEF AdvancePhase
  <2>3. EnterUntap
    BY <1>2, <2>2 DEF EngineStep, DrainAutoPasses, CheckBeforePass, TakeDeclaring,
         TakeHaltsForBlocks, TakeNoBlocks, TakeDamaging, TakePass, ResolutionSuspends,
         ResolveTopOfStack, Resolving, ResolveWithRetarget, SettleResolution, AdvanceTurn,
         SkipDrawStep, EnterStep, EnterDeclareAttackers, EnterDeclareBlockers, EnterDamage,
         EnterEndOfCombat, EnterCleanup, Sweep, Recheck, LegendSettled, DamageDealt, DamageSteps
  <2>4. round \in Round /\ round.choices = <<>> /\ ctl.at = "enter"
    BY <2>3, Entering DEF EnterUntap
  <2>5. CASE FinishEntry(AskUntap, TRUE)
    <3>1. AskUntap.choices = << [kind |-> "untap", by |-> active, id |-> 0] >>
      BY <2>4 DEF AskUntap, Round
    <3>2. "untap" \in KindsOf(AskUntap.choices)
      BY <3>1, OneKind
    <3>3. round' = HeadChooser(AskUntap) \/ round' = AskUntap
      BY <2>5, <3>1 DEF FinishEntry
    <3>4. round'.choices = AskUntap.choices
      BY <2>4, <3>3 DEF HeadChooser, AskUntap, Round
    <3> QED
      BY <3>2, <3>4 DEF UntapInv
  <2>6. CASE \E r \in Place("untap", round) : FinishEntry(r, TRUE)
    <3>1. PICK r \in Place("untap", round) : FinishEntry(r, TRUE)
      BY <2>6
    <3>2. r.choices = <<>>
      BY <2>4, UnorderedPlaced DEF Source
    <3>3. Goto("advance")
      BY <3>1, <3>2 DEF FinishEntry
    <3> QED
      BY <3>3, GotoAt DEF UntapInv
  <2> QED
    BY <2>3, <2>5, <2>6 DEF EnterUntap
<1> QED
  BY <1>1, <1>2 DEF UntapInv

LEMMA MutationInPhase ==
  ASSUME NEW p \in Player, Mutation(p)
  PROVE  phase' = phase /\ ctl.at = "rest"
<1>1. phase' = phase
  BY DEF Mutation, PassPriority, EndTurn, PassUntilAction, CancelAutoPass, Concede, Cast,
         AnswerResolution, AnswerOrder, AnswerLegend, AnswerUntap, AnswerDraw, AnswerCleanup,
         ChooseTarget, DeclineTarget, Retarget, ToggleAttacker, ConfirmAttackers,
         PayAttackTax, CancelAttackTax, ConfirmBlockers, ConfirmDamage
<1>2. ctl.at = "rest"
  BY DEF Mutation, PassPriority, EndTurn, PassUntilAction, CancelAutoPass, Concede, Cast,
         AnswerResolution, AnswerOrder, AnswerLegend, AnswerUntap, AnswerDraw, AnswerCleanup, Answers,
         ChooseTarget, DeclineTarget, Retarget, LandTarget, ToggleAttacker, ConfirmAttackers,
         PayAttackTax, CancelAttackTax, ConfirmBlockers, ConfirmDamage, ChargeTaxes,
         FinalizeConfirmAttackers, Park, Begin, Queues, Presses
<1> QED
  BY <1>1, <1>2

LEMMA UntapAnswered ==
  ASSUME Unordered("untap"), TypeOK, Sound, UntapInv, NEW p \in Player, Mutation(p)
  PROVE  UntapInv'
<1> SUFFICES ASSUME phase = "UNTAP"
             PROVE  UntapInv'
  BY MutationInPhase DEF UntapInv
<1>1. "untap" \in KindsOf(round.choices)
  BY MutationInPhase DEF UntapInv
<1>2. round.choices # <<>> /\ Head(round.choices).kind = "untap"
  BY <1>1, UntapAsked
<1>3. \A kind, q : Awaits(kind, q) => kind = "untap"
  BY <1>2 DEF Awaits
<1>4. combat.parked \subseteq Tax
  BY DEF TypeOK, Combat
<1>5. EndTurn(p) \/ PassUntilAction(p) \/ CancelAutoPass(p) \/ Concede(p) \/ AnswerUntap(p)
  BY <1>3, <1>4
     DEF Mutation, PassPriority, Cast, AnswerResolution, AnswerOrder, AnswerLegend, AnswerDraw,
         AnswerCleanup, Answers, ChooseTarget, DeclineTarget, Retarget, Chosen, ToggleAttacker, ConfirmAttackers,
         PayAttackTax, CancelAttackTax, ConfirmBlockers, ConfirmDamage, Declares, Tax
<1>6. CASE round' = round
  BY <1>1, <1>6 DEF UntapInv
<1>7. CASE AnswerUntap(p)
  <2> DEFINE t == [round EXCEPT !.choices = Tail(@)]
  <2>1. t \in Round /\ t.choices = <<>>
    <3>1. Answers("untap", p) /\ "untap" \in SoloKinds
      BY <1>7 DEF AnswerUntap, SoloKinds
    <3>2. round \in Round /\ round.choices # <<>> /\ Tail(round.choices) = <<>>
      BY <3>1, Resuming
    <3> QED
      BY <3>2, DequeuedEffect, TailType
  <2> HIDE DEF t
  <2>2. CASE \E r \in Place("untap", t) :
               round' = r /\ Begin(IF r.choices # <<>> THEN "sweep" ELSE "advance", "answer", TRUE)
    <3>1. PICK r \in Place("untap", t) :
               round' = r /\ Begin(IF r.choices # <<>> THEN "sweep" ELSE "advance", "answer", TRUE)
      BY <2>2
    <3>2. r.choices = <<>>
      BY <2>1, <3>1, UnorderedPlaced DEF Source
    <3>3. Begin("advance", "answer", TRUE)
      BY <3>1, <3>2
    <3> QED
      BY <3>3, BeginAt DEF UntapInv
  <2> QED
    BY <1>6, <1>7, <2>2 DEF AnswerUntap, t
<1> QED
  BY <1>5, <1>6, <1>7 DEF EndTurn, PassUntilAction, CancelAutoPass, Concede

(* Where no triggers of the untap step need to be put in order, the game   *)
(* rests in that step only for its own question, so nobody is given        *)
(* priority in it (untapStep and submitTriggerOrder).                      *)
THEOREM UntapKeepsPriority == Unordered("untap") => (Spec => []UntapWithoutPriority)
<1> SUFFICES ASSUME Unordered("untap")
             PROVE  Spec => []UntapWithoutPriority
  OBVIOUS
<1>1. OrderInv /\ UntapInv /\ [Next]_vars => UntapInv'
  <2> SUFFICES ASSUME OrderInv, UntapInv, [Next]_vars
               PROVE  UntapInv'
    OBVIOUS
  <2>1. TypeOK /\ Sound
    BY DEF OrderInv
  <2>2. CASE EngineStep
    <3>1. CASE phase' # "UNTAP"
      BY <3>1 DEF UntapInv
    <3>2. CASE phase # "UNTAP" /\ phase' = "UNTAP"
      BY <2>1, <2>2, <3>2, UntapEntered DEF UntapInv
    <3>3. CASE phase = "UNTAP" /\ phase' = "UNTAP"
      BY <2>1, <2>2, <3>3, UntapStays
    <3> QED
      BY <3>1, <3>2, <3>3
  <2>3. CASE \E p \in Player : Mutation(p)
    BY <2>1, <2>3, UntapAnswered
  <2>4. CASE UNCHANGED vars
    BY <2>4 DEF vars, UntapInv
  <2> QED
    BY <2>2, <2>3, <2>4 DEF Next
<1>2. Init => UntapInv
  BY DEF Init, UntapInv
<1>3. UntapInv => UntapWithoutPriority
  BY KindsOfEmpty DEF UntapInv, UntapWithoutPriority, OwesInput
<1> QED
  BY <1>1, <1>2, <1>3, OrderInvariant, PTL DEF Spec

(***************************************************************************)
(* The end of a step.                                                      *)
(***************************************************************************)

(* What piles up in a step nobody gets priority in: the triggers of the    *)
(* untap step, and those of the entry of a combat step without attackers.  *)
NothingPiles ==
  /\ Fires["untap"] = {Nothing} /\ "END_OF_COMBAT" \notin DelayedSteps
  /\ BeginSteps \cap CombatSteps = {}

EmptyHere == ctl.at \in {"advance", "enter", "turn"} => round.stack = <<>>
Scheduled == owed.delayed \subseteq DelayedSteps
EmptyInv == EmptyHere /\ Scheduled

LEMMA StaysScheduled ==
  ASSUME TypeOK, Scheduled, Next
  PROVE  Scheduled'
<1>1. owed \in Owed
  BY DEF TypeOK
<1>2. CASE owed'.delayed \subseteq owed.delayed
  BY <1>2 DEF Scheduled
<1>3. CASE ResolveTopOfStack
  <2>1. \/ owed' = owed \/ \E s \in DelayedSteps : owed' = [owed EXCEPT !.delayed = @ \cup {s}]
        \/ \E p : owed' = [owed EXCEPT !.turns = Append(@, p)]
        \/ \E p : owed' = [owed EXCEPT !.skips[p] = @ + 1]
        \/ \E p : owed' = [owed EXCEPT !.draws = @ \cup {p}]
        \/ owed' = [owed EXCEPT !.combats = @ + 1]
    BY <1>3 DEF ResolveTopOfStack, Resolved
  <2> QED
    BY <1>1, <2>1 DEF Owed, Scheduled
<1>4. CASE AdvancePhase \/ AdvanceTurn
  <2>1. owed'.delayed = owed.delayed
    BY <1>1, <1>4 DEF AdvancePhase, AdvanceTurn, Owed
  <2> QED
    BY <1>2, <2>1
<1>5. CASE SkipDrawStep \/ EnterStep \/ EnterEndOfCombat
  <2>1. owed' = [owed EXCEPT !.draws = @ \ {active}] \/ owed' = Undelayed
    BY <1>5 DEF SkipDrawStep, EnterStep, EnterEndOfCombat
  <2>2. owed'.delayed \subseteq owed.delayed
    BY <1>1, <2>1 DEF Undelayed, Owed
  <2> QED
    BY <1>2, <2>2
<1>6. CASE EnterCleanup \/ \E p \in Player : AnswerCleanup(p)
  <2>1. owed' = owed \/ \E window : owed' = [Undelayed EXCEPT !.cleanup = @ \/ window]
    BY <1>6 DEF EnterCleanup, AnswerCleanup
  <2>2. Undelayed \in Owed /\ Undelayed.delayed \subseteq owed.delayed
    BY <1>1, UndelayedType DEF Undelayed, Owed
  <2>3. owed'.delayed \subseteq owed.delayed
    BY <2>1, <2>2 DEF Owed
  <2> QED
    BY <1>2, <2>3
<1>7. CASE EngineStep
  BY <1>2, <1>3, <1>4, <1>5, <1>6, <1>7
     DEF EngineStep, DrainAutoPasses, CheckBeforePass, TakeDeclaring, TakeHaltsForBlocks,
         TakeNoBlocks, TakeDamaging, TakePass, ResolutionSuspends, ResolveWithRetarget, Resolved,
         SettleResolution, EnterUntap, EnterDeclareAttackers, EnterDeclareBlockers, EnterDamage,
         Sweep, Recheck, LegendSettled, DamageDealt
<1>8. CASE \E p \in Player : Mutation(p)
  BY <1>2, <1>6, <1>8
     DEF Mutation, PassPriority, EndTurn, PassUntilAction, CancelAutoPass, Concede, Cast,
         AnswerResolution, AnswerOrder, AnswerLegend, AnswerUntap, AnswerDraw,
         ChooseTarget, DeclineTarget, Retarget, ToggleAttacker, ConfirmAttackers,
         PayAttackTax, CancelAttackTax, ConfirmBlockers, ConfirmDamage
<1> QED
  BY <1>7, <1>8 DEF Next

LEMMA CountPassEmpty ==
  ASSUME TypeOK, NEW r \in Round, CountPass(r)
  PROVE  EmptyHere'
<1>1. round'.stack = r.stack
  BY DEF CountPass, Round
<1>2. CASE r.stack = <<>>
  BY <1>1, <1>2 DEF EmptyHere
<1>3. CASE r.stack # <<>>
  <2>1. Goto("resolve") \/ Goto("drain")
    BY <1>3 DEF CountPass
  <2> QED
    BY <2>1, GotoAt DEF EmptyHere
<1> QED
  BY <1>2, <1>3

LEMMA FinishEntryEmpty ==
  ASSUME TypeOK, NEW r \in Round, NEW skipped, FinishEntry(r, skipped),
         skipped => r.stack = <<>>
  PROVE  EmptyHere'
<1>1. CASE skipped /\ round' = r
  BY <1>1 DEF EmptyHere
<1>2. CASE Halt \/ Goto("drain")
  BY <1>2, GotoAt, HaltAt DEF EmptyHere
<1> QED
  BY <1>1, <1>2 DEF FinishEntry

(* Outside combat the stack is empty when a step ends in any case.         *)
LEMMA EmptyOutside ==
  ASSUME Sound', phase' \notin CombatSteps \cup {"UNTAP"}, ctl'.at = "advance"
  PROVE  EmptyHere'
BY DEF Sound, LeavesQuiet, Quiet, EmptyHere

LEMMA EngineEmpty ==
  ASSUME NothingPiles, TypeOK, Sound, Sound', EmptyInv, EngineStep
  PROVE  EmptyHere'
<1>1. round \in Round
  BY DEF TypeOK
<1>2. CASE TakeDeclaring \/ TakeNoBlocks \/ TakeDamaging \/ TakePass
  <2> DEFINE placed == UNION { Place(source, round) : source \in {"attack", "block", "damage"} }
  <2>1. \E r \in placed \cup {round} : CountPass(r)
    BY <1>2 DEF TakeDeclaring, TakeNoBlocks, TakeDamaging, TakePass
  <2>2. placed \cup {round} \subseteq Round
    BY <1>1, PlaceType DEF Source
  <2> QED
    BY <2>1, <2>2, CountPassEmpty
<1>3. CASE AdvancePhase \/ AdvanceTurn
  BY <1>3 DEF AdvancePhase, AdvanceTurn, EmptyInv, EmptyHere
<1>4. CASE EnterUntap
  <2>1. round.stack = <<>> /\ AskUntap \in Round /\ AskUntap.choices # <<>>
    <3>1. round.stack = <<>> /\ active \in Player
      BY <1>4 DEF EnterUntap, EmptyInv, EmptyHere, TypeOK
    <3>2. << [kind |-> "untap", by |-> active, id |-> 0] >> \in Seq(Choice)
      BY <3>1 DEF Choice, ChoiceKind
    <3> QED
      BY <1>1, <3>1, <3>2 DEF AskUntap, Round
  <2>2. CASE FinishEntry(AskUntap, TRUE)
    <3>1. AskUntap.stack = round.stack
      BY <1>1 DEF AskUntap, Round
    <3> QED
      BY <2>1, <2>2, <3>1, FinishEntryEmpty
  <2>3. CASE \E r \in Place("untap", round) : FinishEntry(r, TRUE)
    <3>1. \A r \in Place("untap", round) : r = round
      BY <1>1, PlaceNothing DEF NothingPiles, Source
    <3> QED
      BY <1>1, <2>1, <2>3, <3>1, FinishEntryEmpty
  <2> QED
    BY <1>4, <2>2, <2>3 DEF EnterUntap
<1>5. CASE EnterDeclareBlockers \/ EnterDamage \/ EnterEndOfCombat
  <2>1. round.stack = <<>> /\ phase \in CombatSteps
    BY <1>5 DEF EnterDeclareBlockers, EnterDamage, EnterEndOfCombat, EmptyInv, EmptyHere, CombatSteps
  <2>2. \A r : Begun(r) = {r}
    BY <2>1 DEF Begun, NothingPiles
  <2>3. CASE EnterDeclareBlockers
    <3>1. PICK noLegalBlock \in {FALSE, combat.attacking} :
            \E r2 \in IF noLegalBlock THEN Place("block", round) ELSE {round} :
              FinishEntry(r2, ~combat.attacking)
      BY <2>2, <2>3 DEF EnterDeclareBlockers
    <3>2. PICK r2 \in IF noLegalBlock THEN Place("block", round) ELSE {round} :
            FinishEntry(r2, ~combat.attacking)
      BY <3>1
    <3>3. r2 \in Round
      BY <1>1, <3>2, PlaceType DEF Source
    <3>4. ~combat.attacking => r2.stack = <<>>
      BY <2>1, <3>1, <3>2
    <3> QED
      BY <3>2, <3>3, <3>4, FinishEntryEmpty
  <2>4. CASE EnterDamage
    <3>1. \/ FinishEntry(round, TRUE) \/ FinishEntry(round, FALSE)
          \/ \E r \in Place("damage", round) : FinishEntry(r, FALSE)
      BY <2>2, <2>4 DEF EnterDamage
    <3>2. Place("damage", round) \subseteq Round
      BY <1>1, PlaceType DEF Source
    <3> QED
      BY <1>1, <2>1, <3>1, <3>2, FinishEntryEmpty
  <2>5. CASE EnterEndOfCombat
    <3>1. "END_OF_COMBAT" \notin owed.delayed /\ phase = "END_OF_COMBAT"
      BY <2>5 DEF NothingPiles, EmptyInv, Scheduled, EnterEndOfCombat
    <3>2. Delayed(round) = {round}
      BY <3>1 DEF Delayed
    <3>3. FinishEntry(round, ~combat.attacking)
      BY <2>2, <2>5, <3>2 DEF EnterEndOfCombat
    <3> QED
      BY <1>1, <2>1, <3>3, FinishEntryEmpty
  <2> QED
    BY <1>5, <2>3, <2>4, <2>5
<1>6. CASE SkipDrawStep \/ EnterStep \/ EnterDeclareAttackers \/ EnterCleanup
  <2>1. phase' = phase /\ phase \notin CombatSteps \cup {"UNTAP"}
    BY <1>6 DEF SkipDrawStep, EnterStep, EnterDeclareAttackers, EnterCleanup, CombatSteps, DamageSteps
  <2>2. \E r, skipped : FinishEntry(r, skipped)
    BY <1>6 DEF SkipDrawStep, EnterStep, EnterDeclareAttackers, EnterCleanup
  <2>3. Halt \/ Goto("drain") \/ Goto("advance")
    BY <2>2 DEF FinishEntry
  <2>4. ctl'.at \in {"rest", "sweep", "drain", "advance"}
    BY <2>3, GotoAt, HaltAt
  <2> QED
    BY <2>1, <2>4, EmptyOutside DEF EmptyHere
<1>7. CASE ResolutionSuspends \/ ResolveTopOfStack \/ ResolveWithRetarget
  <2>1. \E r : ThenHandOn(r)
    BY <1>7 DEF ResolutionSuspends, ResolveTopOfStack, ResolveWithRetarget, Resolved
  <2>2. Goto("drain") \/ Halt \/ Goto("settle")
    BY <2>1 DEF ThenHandOn
  <2> QED
    BY <2>2, GotoAt, HaltAt DEF EmptyHere
<1>8. CASE \/ DrainAutoPasses \/ CheckBeforePass \/ TakeHaltsForBlocks \/ SettleResolution
           \/ Sweep \/ Recheck \/ LegendSettled \/ DamageDealt
  <2>1. Halt \/ StartPass \/ Goto("take") \/ Goto("drain") \/ ctl' = AtRest
    BY <1>8 DEF DrainAutoPasses, CheckBeforePass, TakeHaltsForBlocks, SettleResolution,
       Sweep, Recheck, LegendSettled, DamageDealt
  <2>2. AtRest.at = "rest"
    BY DEF AtRest
  <2>3. StartPass => ctl'.at = "check"
    BY DEF StartPass, TypeOK, Control
  <2>4. ctl'.at \in {"rest", "sweep", "check", "take", "drain"}
    BY <2>1, <2>2, <2>3, GotoAt, HaltAt
  <2> QED
    BY <2>4 DEF EmptyHere
<1> QED
  BY <1>2, <1>3, <1>4, <1>5, <1>6, <1>7, <1>8 DEF EngineStep

LEMMA MutationEmpty ==
  ASSUME NothingPiles, TypeOK, Sound, Sound', NEW p \in Player, Mutation(p)
  PROVE  EmptyHere'
<1>1. round \in Round
  BY DEF TypeOK
<1>2. CASE PassPriority(p)
  <2>1. round'.stack = round.stack
    BY <1>1, <1>2 DEF PassPriority, Round
  <2>2. CASE round.stack # <<>>
    <3>1. Begin("resolve", "pass", TRUE) \/ Begin("drain", "drain", TRUE)
      BY <1>2, <2>2 DEF PassPriority
    <3>2. ctl'.at \in {"resolve", "drain"}
      BY <3>1, BeginAt
    <3> QED
      BY <3>2 DEF EmptyHere
  <2> QED
    BY <2>1, <2>2 DEF EmptyHere
<1>3. CASE AnswerUntap(p)
  <2> DEFINE t == [round EXCEPT !.choices = Tail(@)]
  <2>1. t \in Round /\ t.stack = <<>>
    <3>1. Answers("untap", p) /\ "untap" \in SoloKinds
      BY <1>3 DEF AnswerUntap, SoloKinds
    <3>2. round \in Round /\ round.choices # <<>> /\ round.stack = <<>>
      BY <3>1, Resuming
    <3> QED
      BY <3>2, DequeuedEffect, TailType
  <2> HIDE DEF t
  <2>2. CASE \E r \in Place("untap", t) : round' = r
    <3>1. \A r \in Place("untap", t) : r = t
      BY <2>1, PlaceNothing DEF NothingPiles, Source
    <3> QED
      BY <2>1, <2>2, <3>1 DEF EmptyHere
  <2>3. CASE Begin("sweep", "answer", TRUE)
    <3>1. ctl'.at = "sweep"
      BY <2>3, BeginAt
    <3> QED
      BY <3>1 DEF EmptyHere
  <2> QED
    BY <1>3, <2>2, <2>3 DEF AnswerUntap, t
<1>4. CASE AnswerCleanup(p)
  <2>1. Answers("cleanup", p) /\ "cleanup" \in SoloKinds /\ phase' = phase
    BY <1>4 DEF AnswerCleanup, SoloKinds
  <2>2. phase' \notin CombatSteps \cup {"UNTAP"}
    BY <2>1, Resuming DEF CombatSteps, DamageSteps
  <2>3. \E pc \in {"advance", "sweep", "drain"} : Begin(pc, "answer", TRUE)
    BY <1>4 DEF AnswerCleanup
  <2>4. ctl'.at \in {"advance", "sweep", "drain"}
    BY <2>3, BeginAt
  <2> QED
    BY <2>2, <2>4, EmptyOutside DEF EmptyHere
<1>5. CASE \/ ConfirmAttackers(p) \/ PayAttackTax(p)
  <2>1. \E c : ChargeTaxes(c)
    BY <1>5 DEF ConfirmAttackers, PayAttackTax
  <2>2. Begin("drain", "drain", FALSE) \/ Begin("rest", "drain", FALSE)
    BY <2>1 DEF ChargeTaxes, FinalizeConfirmAttackers, Park
  <2>3. ctl'.at \in {"drain", "rest"}
    BY <2>2, BeginAt
  <2> QED
    BY <2>3 DEF EmptyHere
<1>6. CASE \/ EndTurn(p) \/ PassUntilAction(p) \/ CancelAutoPass(p) \/ Concede(p)
           \/ \E keep \in BOOLEAN : Cast(p, keep)
           \/ AnswerResolution(p) \/ AnswerOrder(p) \/ AnswerLegend(p) \/ AnswerDraw(p)
           \/ ChooseTarget(p) \/ DeclineTarget(p) \/ Retarget(p)
           \/ ToggleAttacker(p) \/ CancelAttackTax(p) \/ ConfirmBlockers(p) \/ ConfirmDamage(p)
  <2>1. \/ ctl' = ctl /\ ctl.at = "rest"
        \/ \E pc \in {"drain", "sweep", "resolve", "recheck", "legend", "rest", "dealt"} :
             \E caller, sweeps : Begin(pc, caller, sweeps)
    BY <1>6 DEF EndTurn, PassUntilAction, CancelAutoPass, Concede, Cast, AnswerResolution,
         AnswerOrder, AnswerLegend, AnswerDraw, ChooseTarget, DeclineTarget, Retarget, LandTarget,
         Queues, Presses, ToggleAttacker, CancelAttackTax, ConfirmBlockers, ConfirmDamage
  <2>2. ctl'.at \in {"drain", "sweep", "resolve", "recheck", "legend", "rest", "dealt"}
    BY <2>1, BeginAt
  <2> QED
    BY <2>2 DEF EmptyHere
<1> QED
  BY <1>2, <1>3, <1>4, <1>5, <1>6 DEF Mutation

(* The step is left where the engine stands at its end.                    *)
LEMMA LeftAtItsEnd ==
  ASSUME TypeOK, Next, phase' # phase
  PROVE  ctl.at \in {"advance", "turn"}
<1>1. AdvancePhase \/ AdvanceTurn
  BY MutationInPhase
     DEF Next, EngineStep, DrainAutoPasses, CheckBeforePass, TakeDeclaring, TakeHaltsForBlocks,
         TakeNoBlocks, TakeDamaging, TakePass, ResolutionSuspends, ResolveTopOfStack, Resolved,
         ResolveWithRetarget, SettleResolution, EnterUntap, SkipDrawStep, EnterStep,
         EnterDeclareAttackers, EnterDeclareBlockers, EnterDamage, EnterEndOfCombat,
         EnterCleanup, Sweep, Recheck, LegendSettled, DamageDealt
<1> QED
  BY <1>1 DEF AdvancePhase, AdvanceTurn

(* Where nothing triggers in a step that is left without a round of        *)
(* priority, no step ends over an object on the stack (advancePhase).      *)
THEOREM StepsEndEmpty == NothingPiles => (Spec => EndsOnEmptyStack)
<1> SUFFICES ASSUME NothingPiles
             PROVE  Spec => EndsOnEmptyStack
  OBVIOUS
<1>1. OrderInv /\ OrderInv' /\ EmptyInv /\ [Next]_vars => EmptyInv'
  <2> SUFFICES ASSUME OrderInv, OrderInv', EmptyInv, [Next]_vars
               PROVE  EmptyInv'
    OBVIOUS
  <2>1. TypeOK /\ Sound /\ Sound'
    BY DEF OrderInv
  <2>2. CASE Next
    <3>1. EmptyHere'
      BY <2>1, <2>2, EngineEmpty, MutationEmpty DEF Next
    <3>2. Scheduled'
      BY <2>1, <2>2, StaysScheduled DEF EmptyInv
    <3> QED
      BY <3>1, <3>2 DEF EmptyInv
  <2>3. CASE UNCHANGED vars
    BY <2>3 DEF vars, EmptyInv, EmptyHere, Scheduled
  <2> QED
    BY <2>2, <2>3
<1>2. Init => EmptyInv
  BY DEF Init, EmptyInv, EmptyHere, Scheduled
<1>3. OrderInv /\ EmptyInv /\ [Next]_vars => [phase' # phase => round.stack = <<>>]_vars
  <2>1. OrderInv /\ Next /\ phase' # phase => ctl.at \in {"advance", "turn"}
    BY LeftAtItsEnd DEF OrderInv
  <2> QED
    BY <2>1 DEF EmptyInv, EmptyHere
<1> QED
  BY <1>1, <1>2, <1>3, OrderInvariant, PTL DEF Spec, EndsOnEmptyStack

(***************************************************************************)
(* The batch held for its order.                                           *)
(***************************************************************************)

(* What may be placed while a batch is held: what deaths trigger, and what *)
(* a draw does whose question was asked ahead of the orders.               *)
NoneOverHeld == Unordered("death") /\ Unordered("event")

(* What is not held is on the stack.                                       *)
BatchInv == ~round.held => BatchIds(round.batch) = {}

(* From r to s the held batch is kept, or one is held where none was.      *)
Carries(r, s) ==
  \/ s.held = r.held /\ s.batch = r.batch
  \/ ~r.held /\ s.held

LEMMA CarriesOn ==
  ASSUME NEW r, NEW s, NEW t, Carries(r, s), Carries(s, t)
  PROVE  Carries(r, t)
BY DEF Carries

LEMMA CarriesSame ==
  ASSUME NEW r, NEW s, Carries(r, s), NEW t, t.held = s.held, t.batch = s.batch
  PROVE  Carries(r, t)
BY DEF Carries

LEMMA RoundKeeps ==
  ASSUME NEW r \in Round, NEW p
  PROVE  /\ Grant(r, p).held = r.held /\ Grant(r, p).batch = r.batch
         /\ HeadChooser(r).held = r.held /\ HeadChooser(r).batch = r.batch
         /\ HandPriorityOn(r, p).held = r.held /\ HandPriorityOn(r, p).batch = r.batch
<1>1. Grant(r, p).held = r.held /\ Grant(r, p).batch = r.batch
  BY DEF Grant, Round
<1>2. HeadChooser(r).held = r.held /\ HeadChooser(r).batch = r.batch
  BY DEF HeadChooser, Round
<1>3. HandPriorityOn(r, p).held = r.held /\ HandPriorityOn(r, p).batch = r.batch
  BY <1>1, <1>2 DEF HandPriorityOn, Round
<1> QED
  BY <1>1, <1>2, <1>3

LEMMA PlaceCarries ==
  ASSUME TypeOK, NEW source \in Source, NEW r \in Round, ~r.held \/ Unordered(source),
         NEW s \in Place(source, r)
  PROVE  Carries(r, s) /\ s \in Round
<1>1. PICK shape \in Fires[source], b \in Batch : PlacedAs(shape, b, r, s)
  BY PlaceCases
<1>5. s \in Round
  BY PlaceType
<1>2. CASE s = Land(Stacked(r, b), active)
  <2>1. /\ Stacked(r, b) \in Round
        /\ Stacked(r, b).held = r.held /\ Stacked(r, b).batch = r.batch
    BY StackedRound
  <2>2. s.held = r.held /\ s.batch = r.batch
    BY <1>2, <2>1, LandKeeps
  <2> QED
    BY <1>5, <2>2 DEF Carries
<1>3. CASE s = r
  BY <1>3 DEF Carries
<1>4. CASE shape.ordered # {} /\ Parked(r, b, s)
  <2>1. ~Unordered(source)
    BY <1>4 DEF Unordered
  <2>2. s.held
    BY <1>4 DEF Parked
  <2> QED
    BY <1>5, <2>1, <2>2 DEF Carries
<1> QED
  BY <1>1, <1>2, <1>3, <1>4, <1>5 DEF PlacedAs

LEMMA PlaceAdds ==
  ASSUME TypeOK, NEW source \in Source, NEW q, ~q.held, NEW r \in Round, Carries(q, r),
         NEW s \in Place(source, r)
  PROVE  Carries(q, s) /\ s \in Round
<1>1. CASE r.held
  <2>1. s.held \/ s.held = r.held
    <3>1. PICK shape \in Fires[source], b \in Batch : PlacedAs(shape, b, r, s)
      BY PlaceCases
    <3>2. Stacked(r, b) \in Round /\ Stacked(r, b).held = r.held
      BY StackedRound
    <3> QED
      BY <3>1, <3>2, LandKeeps DEF PlacedAs, Parked
  <2> QED
    BY <1>1, <2>1, PlaceType DEF Carries
<1>2. CASE ~r.held
  BY <1>2, PlaceCarries, CarriesOn
<1> QED
  BY <1>1, <1>2

LEMMA DelayedCarries ==
  ASSUME TypeOK, NEW r \in Round, NEW s \in Delayed(r)
  PROVE  Carries(r, s) /\ s \in Round
<1>1. s = r \/ \E b, p : s = FireDelayed(r, b, p)
  BY DEF Delayed
<1>2. ASSUME NEW b, NEW p PROVE FireDelayed(r, b, p).held = r.held /\ FireDelayed(r, b, p).batch = r.batch
  BY DEF FireDelayed, Grant, Round
<1> QED
  BY <1>1, <1>2, DelayedType DEF Carries

LEMMA BegunCarries ==
  ASSUME TypeOK, NEW q, ~q.held, NEW r \in Round, Carries(q, r), NEW s \in Begun(r)
  PROVE  Carries(q, s) /\ s \in Round
<1>1. s = r \/ s \in Place("begin", r)
  BY DEF Begun
<1> QED
  BY <1>1, PlaceAdds DEF Source

LEMMA CheckCarries ==
  ASSUME Unordered("death"), TypeOK, NEW s \in CheckStateBasedActions(round)
  PROVE  Carries(round, s.round) /\ s.round \in Round
<1>1. round \in Round
  BY DEF TypeOK
<1>2. CASE s.round \in Place("death", round)
  BY <1>1, <1>2, PlaceCarries DEF Source
<1>3. CASE s.round = round
  BY <1>1, <1>3 DEF Carries
<1>4. ASSUME NEW p \in Player, s.round = AskLegend(round, p)
      PROVE  Carries(round, s.round)
  <2>1. AskLegend(round, p).held = round.held /\ AskLegend(round, p).batch = round.batch
    BY <1>1 DEF AskLegend, Round
  <2> QED
    BY <1>4, <2>1 DEF Carries
<1>5. s.round \in Round
  BY <1>1, CheckType DEF Outcome
<1> QED
  BY <1>2, <1>3, <1>4, <1>5 DEF CheckStateBasedActions, Found, Lost

LEMMA FinishCarries ==
  ASSUME NEW r \in Round, Carries(round, r), NEW skipped, FinishEntry(r, skipped)
  PROVE  Carries(round, round')
<1>1. round' \in {r, HeadChooser(r), Grant(r, active)}
  BY DEF FinishEntry
<1> QED
  BY <1>1, RoundKeeps, CarriesSame

LEMMA CountCarries ==
  ASSUME NEW r \in Round, Carries(round, r), CountPass(r)
  PROVE  Carries(round, round')
<1>1. round'.held = r.held /\ round'.batch = r.batch
  BY DEF CountPass, Round
<1> QED
  BY <1>1, CarriesSame

(* With no choice queued no batch is held.                                 *)
LEMMA NoneHeld ==
  ASSUME NEW r, Orderly(r), r.choices = <<>>
  PROVE  ~r.held
BY KindsOfEmpty DEF Orderly, Tidy, Held

LEMMA TakeCarries ==
  ASSUME TypeOK, Sound, Asking,
         TakeDeclaring \/ TakeHaltsForBlocks \/ TakeNoBlocks \/ TakeDamaging \/ TakePass
  PROVE  Carries(round, round')
<1>1. ctl.at = "take" /\ round \in Round
  BY DEF TakeDeclaring, TakeHaltsForBlocks, TakeNoBlocks, TakeDamaging, TakePass, TypeOK
<1>2. ~round.held
  <2>1. Orderly(round) /\ round.choices = <<>>
    BY <1>1, Elsewhere DEF Sound, DrainOwed, OwesInput
  <2> QED
    BY <2>1, NoneHeld
<1>3. CASE TakeHaltsForBlocks
  <2>1. round'.held = round.held /\ round'.batch = round.batch
    BY <1>1, <1>3 DEF TakeHaltsForBlocks, Round
  <2> QED
    BY <2>1 DEF Carries
<1>4. CASE TakeDeclaring \/ TakeNoBlocks \/ TakeDamaging \/ TakePass
  <2> DEFINE placed == UNION { Place(source, round) : source \in {"attack", "block", "damage"} }
  <2>1. PICK r \in placed \cup {round} : CountPass(r)
    BY <1>4 DEF TakeDeclaring, TakeNoBlocks, TakeDamaging, TakePass
  <2>2. CASE r = round
    BY <1>1, <2>1, <2>2, CountCarries DEF Carries
  <2>3. CASE r \in placed
    BY <1>1, <1>2, <2>1, <2>3, PlaceCarries, CountCarries DEF Source
  <2> QED
    BY <2>1, <2>2, <2>3
<1> QED
  BY <1>3, <1>4

LEMMA ThenHandOnCarries ==
  ASSUME NEW r \in Round, Carries(round, r), ThenHandOn(r)
  PROVE  Carries(round, round')
<1>1. round' = HandPriorityOn(r, active)
  BY DEF ThenHandOn
<1> QED
  BY <1>1, RoundKeeps, CarriesSame

LEMMA ResolutionCarries ==
  ASSUME TypeOK, Asking, Settled, ResolutionSuspends \/ ResolveTopOfStack \/ ResolveWithRetarget
  PROVE  Carries(round, round')
<1>1. ctl.at = "resolve" /\ round.stack # <<>> /\ round \in Round /\ ~round.held
  <2>1. ctl.at = "resolve" /\ round.stack # <<>>
    BY DEF ResolutionSuspends, ResolveTopOfStack, ResolveWithRetarget, Resolving
  <2>2. Orderly(round) /\ round.choices = <<>>
    BY <2>1, Elsewhere DEF Settled, OwesInput
  <2> QED
    BY <2>1, <2>2, NoneHeld DEF TypeOK
<1>2. Popped(round).held = round.held /\ Popped(round).batch = round.batch /\ Popped(round) \in Round
  BY <1>1, PoppedType DEF Popped, Round
<1>3. ASSUME NEW r \in Round, r.held = round.held, r.batch = round.batch,
             NEW s \in Place("resolve", r), ThenHandOn(s)
      PROVE  Carries(round, round')
  <2>1. Carries(r, s) /\ s \in Round /\ Carries(round, r)
    BY <1>1, <1>3, PlaceCarries DEF Source, Carries
  <2>2. Carries(round, s)
    BY <2>1, CarriesOn
  <2> QED
    BY <1>3, <2>1, <2>2, ThenHandOnCarries
<1>4. CASE ResolutionSuspends
  <2>1. PICK asked \in Asks :
          ThenHandOn([round EXCEPT !.told = 0, !.choices = [ k \in DOMAIN asked |->
            [kind |-> "resolution", by |-> Seat(active, asked[k]), id |-> Top(round).id] ]])
    BY <1>4 DEF ResolutionSuspends
  <2> DEFINE r == [round EXCEPT !.told = 0, !.choices = [ k \in DOMAIN asked |->
            [kind |-> "resolution", by |-> Seat(active, asked[k]), id |-> Top(round).id] ]]
  <2>2. r \in Round
    BY <1>4, AskedType DEF ResolutionSuspends
  <2>3. r.held = round.held /\ r.batch = round.batch
    BY <1>1 DEF Round
  <2>4. ThenHandOn(r)
    BY <2>1
  <2> HIDE DEF r
  <2> QED
    BY <2>2, <2>3, <2>4, ThenHandOnCarries DEF Carries
<1>5. CASE ResolveTopOfStack
  <2>1. \E s \in Place("resolve", Popped(round)) : ThenHandOn(s)
    BY <1>5 DEF ResolveTopOfStack, Resolved
  <2> QED
    BY <1>2, <1>3, <2>1
<1>6. CASE ResolveWithRetarget
  <2>1. PICK s \in FreshIds(Id \ (UsedIds(round) \cup Spared), 1) :
          Resolved([Popped(round) EXCEPT
              !.stack = Append(@, [id |-> s[1], by |-> Top(round).by, needs |-> FALSE]),
              !.target = { [kind |-> "retarget", by |-> Top(round).by, id |-> s[1]] }],
            owed, combat, board)
    BY <1>6 DEF ResolveWithRetarget
  <2> DEFINE r == [Popped(round) EXCEPT
              !.stack = Append(@, [id |-> s[1], by |-> Top(round).by, needs |-> FALSE]),
              !.target = { [kind |-> "retarget", by |-> Top(round).by, id |-> s[1]] }]
  <2>2. r \in Round
    BY <1>6, OfferType DEF ResolveWithRetarget
  <2>3. r.held = round.held /\ r.batch = round.batch
    BY <1>2 DEF Round
  <2>4. Resolved(r, owed, combat, board)
    BY <2>1
  <2> HIDE DEF r
  <2>5. \E t \in Place("resolve", r) : ThenHandOn(t)
    BY <2>4 DEF Resolved
  <2> QED
    BY <1>3, <2>2, <2>3, <2>5
<1> QED
  BY <1>4, <1>5, <1>6

LEMMA EnterCarries ==
  ASSUME TypeOK, Sound, Asking,
         \/ EnterUntap \/ SkipDrawStep \/ EnterStep \/ EnterDeclareAttackers
         \/ EnterDeclareBlockers \/ EnterDamage \/ EnterEndOfCombat \/ EnterCleanup
  PROVE  Carries(round, round')
<1>1. round \in Round /\ active \in Player /\ ~round.held /\ round.choices = <<>>
  <2>1. ctl.at = "enter"
    BY DEF EnterUntap, SkipDrawStep, EnterStep, EnterDeclareAttackers, EnterDeclareBlockers,
           EnterDamage, EnterEndOfCombat, EnterCleanup
  <2> QED
    BY <2>1, EnteringOrderly, NoneHeld
<1>2. Carries(round, round)
  BY DEF Carries
<1>3. ASSUME NEW source \in Source, NEW r \in {round} \cup Place(source, round)
      PROVE  Carries(round, r) /\ r \in Round
  BY <1>1, <1>2, PlaceCarries
<1>4. ASSUME NEW r \in Round, Carries(round, r), NEW s \in Begun(r) \cup Delayed(r)
      PROVE  Carries(round, s) /\ s \in Round
  BY <1>1, <1>4, BegunCarries, DelayedCarries, CarriesOn
<1>5. CASE EnterUntap
  <2>1. CASE FinishEntry(AskUntap, TRUE)
    <3>1. << [kind |-> "untap", by |-> active, id |-> 0] >> \in Seq(Choice)
      BY <1>1 DEF Choice, ChoiceKind
    <3>2. AskUntap \in Round /\ AskUntap.held = round.held /\ AskUntap.batch = round.batch
      BY <1>1, <3>1 DEF AskUntap, Round
    <3> QED
      BY <2>1, <3>2, FinishCarries DEF Carries
  <2>2. CASE \E r \in Place("untap", round) : FinishEntry(r, TRUE)
    BY <1>3, <2>2, FinishCarries DEF Source
  <2> QED
    BY <1>5, <2>1, <2>2 DEF EnterUntap
<1>6. CASE SkipDrawStep
  BY <1>1, <1>2, <1>6, FinishCarries DEF SkipDrawStep
<1>7. CASE EnterStep
  <2>1. PICK r1 \in {round} \cup Place("event", round) \cup Drawn(round) :
          \E r2 \in Delayed(r1) : \E r3 \in Begun(r2) : FinishEntry(r3, FALSE)
    BY <1>7 DEF EnterStep
  <2>2. Carries(round, r1) /\ r1 \in Round
    <3>1. CASE r1 \in {round} \cup Place("event", round)
      BY <1>3, <3>1 DEF Source
    <3>2. ASSUME NEW p \in Player, r1 = AskDraw(round, p)
          PROVE  Carries(round, r1) /\ r1 \in Round
      <4>1. AskDraw(round, p).held = round.held /\ AskDraw(round, p).batch = round.batch
        BY <1>1 DEF AskDraw, Round
      <4> QED
        BY <1>1, <3>2, <4>1, AskDrawType DEF Carries
    <3> QED
      BY <2>1, <3>1, <3>2 DEF Drawn
  <2>3. PICK r2 \in Delayed(r1) : \E r3 \in Begun(r2) : FinishEntry(r3, FALSE)
    BY <2>1
  <2>4. Carries(round, r2) /\ r2 \in Round
    BY <1>4, <2>2, <2>3
  <2>5. PICK r3 \in Begun(r2) : FinishEntry(r3, FALSE)
    BY <2>3
  <2>6. Carries(round, r3) /\ r3 \in Round
    BY <1>4, <2>4, <2>5
  <2> QED
    BY <2>5, <2>6, FinishCarries
<1>8. CASE EnterDeclareAttackers
  <2>1. PICK r \in Begun(round) : FinishEntry(r, FALSE)
    BY <1>8 DEF EnterDeclareAttackers
  <2>2. Carries(round, r) /\ r \in Round
    BY <1>1, <1>2, <1>4, <2>1
  <2> QED
    BY <2>1, <2>2, FinishCarries
<1>9. CASE EnterDeclareBlockers
  <2>1. PICK r1 \in Begun(round) :
          \E r2 \in {r1} \cup Place("block", r1) : FinishEntry(r2, ~combat.attacking)
    BY <1>9 DEF EnterDeclareBlockers
  <2>2. PICK r2 \in {r1} \cup Place("block", r1) : FinishEntry(r2, ~combat.attacking)
    BY <2>1
  <2>3. Carries(round, r1) /\ r1 \in Round
    BY <1>1, <1>2, <1>4, <2>1
  <2>4. Carries(round, r2) /\ r2 \in Round
    BY <1>1, <2>2, <2>3, PlaceAdds DEF Source
  <2> QED
    BY <2>2, <2>4, FinishCarries
<1>10. CASE EnterDamage
  <2>1. PICK r1 \in {round} \cup Place("damage", round) :
          \E r2 \in Begun(r1) : FinishEntry(r2, TRUE) \/ FinishEntry(r2, FALSE)
    BY <1>10 DEF EnterDamage
  <2>2. PICK r2 \in Begun(r1) : FinishEntry(r2, TRUE) \/ FinishEntry(r2, FALSE)
    BY <2>1
  <2>3. Carries(round, r1) /\ r1 \in Round
    BY <1>3, <2>1 DEF Source
  <2>4. Carries(round, r2) /\ r2 \in Round
    BY <1>4, <2>2, <2>3
  <2> QED
    BY <2>2, <2>4, FinishCarries
<1>11. CASE EnterEndOfCombat
  <2>1. PICK r1 \in Delayed(round) : \E r2 \in Begun(r1) : FinishEntry(r2, ~combat.attacking)
    BY <1>11 DEF EnterEndOfCombat
  <2>2. PICK r2 \in Begun(r1) : FinishEntry(r2, ~combat.attacking)
    BY <2>1
  <2>3. Carries(round, r1) /\ r1 \in Round
    BY <1>1, <1>2, <1>4, <2>1
  <2>4. Carries(round, r2) /\ r2 \in Round
    BY <1>4, <2>2, <2>3
  <2> QED
    BY <2>2, <2>4, FinishCarries
<1>12. CASE EnterCleanup
  <2> DEFINE asked == [round EXCEPT !.holder = active,
               !.choices = Append(@, [kind |-> "cleanup", by |-> active, id |-> 0])]
  <2>1. CASE FinishEntry(asked, FALSE)
    <3>1. Append(round.choices, [kind |-> "cleanup", by |-> active, id |-> 0]) \in Seq(Choice)
      BY <1>1, AppendProperties DEF Choice, ChoiceKind, Round
    <3>2. asked \in Round /\ asked.held = round.held /\ asked.batch = round.batch
      BY <1>1, <3>1 DEF Round
    <3> HIDE DEF asked
    <3> QED
      BY <2>1, <3>2, FinishCarries DEF Carries
  <2> HIDE DEF asked
  <2>2. CASE \E r \in Delayed(round) : \E skipped : FinishEntry(r, skipped)
    BY <1>1, <1>2, <1>4, <2>2, FinishCarries
  <2> QED
    BY <1>12, <2>1, <2>2 DEF EnterCleanup, asked
<1> QED
  BY <1>5, <1>6, <1>7, <1>8, <1>9, <1>10, <1>11, <1>12

LEMMA EngineCarries ==
  ASSUME Unordered("death"), TypeOK, Sound, Asking, Settled, EngineStep
  PROVE  Carries(round, round')
<1>1. round \in Round
  BY DEF TypeOK
<1>2. CASE DrainAutoPasses \/ AdvancePhase \/ AdvanceTurn
  BY <1>2 DEF DrainAutoPasses, AdvancePhase, AdvanceTurn, Carries
<1>3. CASE CheckBeforePass \/ SettleResolution \/ Sweep \/ Recheck \/ LegendSettled \/ DamageDealt
  <2>1. \/ round' = round
        \/ \E s \in CheckStateBasedActions(round) :
             round' \in {s.round, Grant(s.round, active), [s.round EXCEPT !.holder = active]}
    BY <1>3 DEF CheckBeforePass, SettleResolution, Sweep, Recheck, LegendSettled, DamageDealt, After
  <2>2. CASE round' = round
    BY <2>2 DEF Carries
  <2>3. ASSUME NEW s \in CheckStateBasedActions(round),
               round' \in {s.round, Grant(s.round, active), [s.round EXCEPT !.holder = active]}
        PROVE  Carries(round, round')
    <3>1. Carries(round, s.round) /\ s.round \in Round
      BY CheckCarries
    <3>2. round'.held = s.round.held /\ round'.batch = s.round.batch
      BY <2>3, <3>1 DEF Grant, Round
    <3> QED
      BY <3>1, <3>2, CarriesSame
  <2> QED
    BY <2>1, <2>2, <2>3
<1> QED
  BY <1>2, <1>3, TakeCarries, ResolutionCarries, EnterCarries DEF EngineStep

LEMMA ConcatReaches ==
  ASSUME NEW s \in Seq(Item), NEW t \in Seq(Item), NEW k \in DOMAIN t
  PROVE  Len(s) + k \in DOMAIN (s \o t) /\ (s \o t)[Len(s) + k] = t[k]
<1>1. /\ s \o t \in Seq(Item) /\ Len(s \o t) = Len(s) + Len(t)
      /\ \A i \in 1..(Len(s) + Len(t)) :
           (s \o t)[i] = IF i <= Len(s) THEN s[i] ELSE t[i - Len(s)]
  BY ConcatProperties
<1>2. /\ Len(s) \in Nat /\ DOMAIN s = 1..Len(s) /\ Len(t) \in Nat /\ DOMAIN t = 1..Len(t)
      /\ DOMAIN (s \o t) = 1..(Len(s) + Len(t))
  BY <1>1, LenProperties
<1>3. k \in 1..Len(t) /\ Len(s) + k \in 1..(Len(s) + Len(t)) /\ ~(Len(s) + k <= Len(s))
      /\ (Len(s) + k) - Len(s) = k
  BY <1>2
<1>4. (s \o t)[Len(s) + k] = t[(Len(s) + k) - Len(s)]
  BY <1>1, <1>3
<1> QED
  BY <1>2, <1>3, <1>4

(* An order submitted is an order of the same triggers.                    *)
LEMMA OrderedSame ==
  ASSUME NEW s \in Seq(Trigger), NEW t \in Orders(s)
  PROVE  { t[k].id : k \in DOMAIN t } = { s[k].id : k \in DOMAIN s }
<1> DEFINE D == DOMAIN s
<1>1. PICK f \in [D -> D] : t = [k \in D |-> s[f[k]]] /\ \A i, j \in D : f[i] = f[j] => i = j
  BY DEF Orders
<1>2. IsFiniteSet(D)
  BY LenProperties, FS_Interval
<1>3. f \in Injection(D, D)
  BY <1>1 DEF Injection, IsInjective
<1>4. f \in Surjection(D, D)
  BY <1>2, <1>3, FS_Injection
<1>5. \A j \in D : \E k \in D : f[k] = j
  BY <1>4 DEF Surjection
<1> HIDE DEF D
<1>6. DOMAIN t = D /\ \A k \in D : t[k] = s[f[k]] /\ f[k] \in D
  BY <1>1
<1>7. { t[k].id : k \in D } = { s[k].id : k \in D }
  BY <1>5, <1>6
<1> QED
  BY <1>6, <1>7 DEF D

SliceIds(b, p) == { b.of[p][k].id : k \in DOMAIN b.of[p] }
LEMMA Reordered ==
  ASSUME NEW b \in Batch, NEW p \in Player, NEW slice \in Orders(b.of[p])
  PROVE  BatchIds([b EXCEPT !.of[p] = slice]) = BatchIds(b)
<1> DEFINE c == [b EXCEPT !.of[p] = slice]
<1>1. b.of \in [Player -> Seq(Trigger)]
  BY DEF Batch
<1>2. c.of = [b.of EXCEPT ![p] = slice]
  BY DEF Batch
<1> HIDE DEF c
<1>3. ASSUME NEW q \in Player
      PROVE  SliceIds(c, q) = SliceIds(b, q)
  <2>1. CASE q = p
    <3>1. c.of[q] = slice /\ b.of[q] = b.of[p] /\ b.of[p] \in Seq(Trigger)
      BY <1>1, <1>2, <2>1
    <3>2. { slice[k].id : k \in DOMAIN slice } = { b.of[p][k].id : k \in DOMAIN b.of[p] }
      BY <3>1, OrderedSame
    <3>3. SliceIds(c, q) = { slice[k].id : k \in DOMAIN slice }
      BY <3>1 DEF SliceIds
    <3>4. SliceIds(b, q) = { b.of[p][k].id : k \in DOMAIN b.of[p] }
      BY <3>1 DEF SliceIds
    <3> QED
      BY <3>2, <3>3, <3>4
  <2>2. CASE q # p
    <3>1. c.of[q] = b.of[q]
      BY <1>1, <1>2, <2>2
    <3> QED
      BY <3>1 DEF SliceIds
  <2> QED
    BY <2>1, <2>2
<1>4. BatchIds(c) = UNION { SliceIds(c, q) : q \in Player }
      /\ BatchIds(b) = UNION { SliceIds(b, q) : q \in Player }
  BY DEF BatchIds, SliceIds
<1>5. { SliceIds(c, q) : q \in Player } = { SliceIds(b, q) : q \in Player }
  BY <1>3
<1> QED
  BY <1>4, <1>5 DEF c

LEMMA NothingHeld ==
  ASSUME NEW p
  PROVE  BatchIds(NoBatch(p)) = {}
BY DEF BatchIds, NoBatch

(* The batch stacked is the batch held.                                    *)
LEMMA StackedIds ==
  ASSUME NEW s \in Seq(Item), NEW b \in Batch, NEW r,
         r.stack = s \o b.of[b.lead] \o b.of[Opponent(b.lead)]
  PROVE  BatchIds(b) \subseteq StackIds(r)
<1>1. /\ b.lead \in Player /\ Opponent(b.lead) \in Player
      /\ b.of[b.lead] \in Seq(Item) /\ b.of[Opponent(b.lead)] \in Seq(Item)
      /\ s \o b.of[b.lead] \in Seq(Item)
  BY OpponentIsOther, TriggersAreItems, ConcatProperties DEF Batch
<1> DEFINE first == b.of[b.lead]
           last == b.of[Opponent(b.lead)]
<1>2. \A k \in DOMAIN first : \E j \in DOMAIN r.stack : r.stack[j] = first[k]
  <2> SUFFICES ASSUME NEW k \in DOMAIN first
               PROVE  \E j \in DOMAIN r.stack : r.stack[j] = first[k]
    OBVIOUS
  <2>1. Len(s) + k \in DOMAIN (s \o first) /\ (s \o first)[Len(s) + k] = first[k]
    BY <1>1, ConcatReaches
  <2>2. Len(s) + k \in DOMAIN (s \o first \o last)
        /\ (s \o first \o last)[Len(s) + k] = (s \o first)[Len(s) + k]
    BY <1>1, <2>1, ConcatKeeps
  <2> QED
    BY <2>1, <2>2
<1>3. \A k \in DOMAIN last : \E j \in DOMAIN r.stack : r.stack[j] = last[k]
  <2> SUFFICES ASSUME NEW k \in DOMAIN last
               PROVE  \E j \in DOMAIN r.stack : r.stack[j] = last[k]
    OBVIOUS
  <2>1. Len(s \o first) + k \in DOMAIN (s \o first \o last)
        /\ (s \o first \o last)[Len(s \o first) + k] = last[k]
    BY <1>1, ConcatReaches
  <2> QED
    BY <2>1
<1>4. \A q \in Player : q = b.lead \/ q = Opponent(b.lead)
  BY <1>1, BothSeats
<1> HIDE DEF first, last
<1>5. ASSUME NEW q \in Player, NEW k \in DOMAIN b.of[q]
      PROVE  b.of[q][k].id \in StackIds(r)
  <2>1. PICK j \in DOMAIN r.stack : r.stack[j] = b.of[q][k]
    BY <1>2, <1>3, <1>4 DEF first, last
  <2> QED
    BY <2>1 DEF StackIds
<1> QED
  BY <1>5 DEF BatchIds

LEMMA AnswerOrderLands ==
  ASSUME TypeOK, BatchInv, NEW p \in Player, AnswerOrder(p)
  PROVE  BatchInv' /\ BatchIds(round.batch) \subseteq BatchIds(round'.batch) \cup StackIds(round')
<1>1. /\ round \in Round /\ round.choices # <<>> /\ active \in Player
      /\ round.stack \in Seq(Item) /\ round.batch \in Batch /\ round.choices \in Seq(Choice)
  BY DEF TypeOK, AnswerOrder, Answers, Round, Batch
<1>2. PICK slice \in Orders(round.batch.of[p]) :
        LET b == [round.batch EXCEPT !.of[p] = slice]
            more == Rest(round) # <<>> /\ Head(Rest(round)).kind = "order"
        IN  IF more
            THEN /\ round' = Dequeued([round EXCEPT !.batch = b])
                 /\ Begin("sweep", "answer", TRUE)
            ELSE /\ round' = Land([round EXCEPT
                      !.choices = Tail(@), !.held = FALSE, !.batch = NoBatch(active),
                      !.stack = @ \o b.of[b.lead] \o b.of[Opponent(b.lead)]], active)
                 /\ Begin("recheck", "answer", TRUE)
  BY DEF AnswerOrder
<1> DEFINE b == [round.batch EXCEPT !.of[p] = slice]
           parked == [round EXCEPT !.batch = b]
           landed == [round EXCEPT
             !.choices = Tail(@), !.held = FALSE, !.batch = NoBatch(active),
             !.stack = @ \o b.of[b.lead] \o b.of[Opponent(b.lead)]]
<1>3. slice \in Seq(Trigger)
  BY <1>1, OrdersType DEF Batch
<1>4. b \in Batch /\ b.lead \in Player /\ BatchIds(b) = BatchIds(round.batch)
  <2>1. b \in Batch /\ b.lead \in Player
    BY <1>1, <1>3 DEF Batch
  <2>2. BatchIds(b) = BatchIds(round.batch)
    BY <1>1, Reordered
  <2> QED
    BY <2>1, <2>2
<1>5. round' = Dequeued(parked) \/ round' = Land(landed, active)
  BY <1>2
<1> HIDE DEF b
<1>6. CASE round' = Dequeued(parked)
  <2>1. parked \in Round /\ parked.batch = b /\ parked.held = round.held /\ parked.choices # <<>>
    BY <1>1, <1>4 DEF Round
  <2> HIDE DEF parked
  <2> DEFINE t == [parked EXCEPT !.choices = Tail(@)]
  <2>2. t \in Round /\ t.batch = b /\ t.held = round.held
    BY <2>1, TailType DEF Round
  <2>3. round' = HeadChooser(t)
    BY <1>6 DEF Dequeued
  <2> HIDE DEF t
  <2>4. round'.batch = b /\ round'.held = round.held
    BY <2>2, <2>3, RoundKeeps
  <2> QED
    BY <1>4, <2>4 DEF BatchInv
<1>7. CASE round' = Land(landed, active)
  <2>1. round.stack \o b.of[b.lead] \o b.of[Opponent(b.lead)] \in Seq(Item)
    BY <1>1, <1>4, OpponentIsOther, StackedType
  <2>2. Tail(round.choices) \in Seq(Choice) /\ NoBatch(active) \in Batch
    BY <1>1, HeadTailProperties, NoBatchType
  <2>3. /\ landed \in Round /\ landed.batch = NoBatch(active)
        /\ landed.stack = round.stack \o b.of[b.lead] \o b.of[Opponent(b.lead)]
    BY <1>1, <2>1, <2>2 DEF Round
  <2> HIDE DEF landed
  <2>4. /\ round'.batch = NoBatch(active)
        /\ round'.stack = round.stack \o b.of[b.lead] \o b.of[Opponent(b.lead)]
    BY <1>7, <2>3, LandKeeps
  <2>5. BatchIds(b) \subseteq StackIds(round')
    BY <1>1, <1>4, <2>4, StackedIds
  <2> QED
    BY <1>4, <2>4, <2>5, NothingHeld DEF BatchInv
<1> QED
  BY <1>5, <1>6, <1>7

-----------------------------------------------------------------------------
(* The mutations.                                                          *)

(* Nothing is held by what follows the last choice of a queue.             *)
LEMMA ChoiceTaken ==
  ASSUME TypeOK, Sound, Asking, NEW p \in Player, AnswerUntap(p) \/ AnswerCleanup(p)
  PROVE  LET t == [round EXCEPT !.choices = Tail(@)]
         IN  t \in Round /\ ~t.held /\ Carries(round, t)
<1> DEFINE t == [round EXCEPT !.choices = Tail(@)]
<1>1. round \in Round /\ round.choices # <<>> /\ Tail(round.choices) = <<>>
  BY Resuming DEF AnswerUntap, AnswerCleanup, SoloKinds
<1>2. t \in Round /\ Orderly(t)
  BY AnsweredOrderly DEF AnswerUntap, AnswerCleanup
<1>3. t.choices = <<>> /\ t.held = round.held /\ t.batch = round.batch
  BY <1>1 DEF Round
<1> HIDE DEF t
<1>4. ~t.held /\ Carries(round, t)
  BY <1>2, <1>3, NoneHeld DEF Carries
<1> QED
  BY <1>2, <1>4 DEF t

LEMMA AwaitsUnheld ==
  ASSUME TypeOK, Asking, NEW kind, kind \notin ChoiceKind, NEW p, Awaits(kind, p)
  PROVE  round \in Round /\ ~round.held
<1>1. round.choices = <<>> /\ kind # "resolution"
  BY AwaitsNoChoice DEF ChoiceKind
<1>2. Orderly(round)
  BY <1>1, AwaitsOther
<1> QED
  BY <1>1, <1>2, NoneHeld DEF TypeOK

LEMMA RoundGoesOn ==
  ASSUME TypeOK, NEW p \in Player,
         \/ PassPriority(p) \/ EndTurn(p) \/ PassUntilAction(p) \/ CancelAutoPass(p)
         \/ Concede(p) \/ AnswerLegend(p) \/ AnswerResolution(p) \/ ToggleAttacker(p)
         \/ CancelAttackTax(p)
  PROVE  Carries(round, round')
<1>1. round \in Round
  BY DEF TypeOK
<1>2. CASE EndTurn(p) \/ PassUntilAction(p) \/ CancelAutoPass(p) \/ Concede(p)
           \/ ToggleAttacker(p) \/ CancelAttackTax(p)
  BY <1>2 DEF EndTurn, PassUntilAction, CancelAutoPass, Concede, ToggleAttacker,
              CancelAttackTax, Carries
<1>3. CASE PassPriority(p)
  <2> DEFINE n == round.passes + 1
  <2>1. \/ round' = [round EXCEPT !.passes = n]
        \/ round' = [round EXCEPT !.passes = n, !.holder = Opponent(p)]
    BY <1>3 DEF PassPriority
  <2> HIDE DEF n
  <2> QED
    BY <1>1, <2>1 DEF Round, Carries
<1>4. CASE AnswerLegend(p)
  <2>1. round' = [round EXCEPT !.choices = Tail(@)]
    BY <1>4 DEF AnswerLegend
  <2> QED
    BY <1>1, <2>1 DEF Round, Carries
<1>5. CASE AnswerResolution(p)
  <2> DEFINE place == Min(Places(round, Head(round.choices).id))
             r == [round EXCEPT !.told = place]
             t == [r EXCEPT !.choices = Tail(@)]
  <2>1. round.choices # <<>> /\ place \in Nat
    BY <1>1, <1>5, LeastPlace DEF AnswerResolution, Answers
  <2>2. round' = HeadChooser(t)
    BY <1>5 DEF AnswerResolution, Dequeued
  <2> HIDE DEF place
  <2>3. /\ r \in Round /\ r.choices = round.choices
        /\ r.held = round.held /\ r.batch = round.batch
    BY <1>1, <2>1 DEF Round
  <2> HIDE DEF r
  <2>4. t \in Round /\ t.held = r.held /\ t.batch = r.batch
    BY <2>1, <2>3, TailType DEF Round
  <2> HIDE DEF t
  <2> QED
    BY <2>2, <2>3, <2>4, RoundKeeps DEF Carries
<1> QED
  BY <1>2, <1>3, <1>4, <1>5

LEMMA CastCarries ==
  ASSUME TypeOK, Asking, NEW p \in Player, NEW keep \in BOOLEAN, Cast(p, keep)
  PROVE  Carries(round, round')
<1>1. PICK c \in Card :
        round' \in Place("cast",
          [round EXCEPT !.stack = Append(@, [id |-> c, by |-> p, needs |-> FALSE]),
                        !.passes = 0, !.holder = Opponent(p)])
  BY DEF Cast
<1> DEFINE item == [id |-> c, by |-> p, needs |-> FALSE]
           cast == [round EXCEPT !.stack = Append(@, item),
                                 !.passes = 0, !.holder = Opponent(p)]
<1>2. item \in Item
  BY DEF Item
<1>3. round \in Round /\ round.stack \in Seq(Item) /\ Opponent(p) \in Player
  BY OpponentIsOther DEF TypeOK, Round
<1>4. round' \in Place("cast", cast)
  BY <1>1
<1>5. ~round.held
  BY AwaitsUnheld DEF Cast, ChoiceKind
<1> HIDE DEF item
<1>6. Append(round.stack, item) \in Seq(Item)
  BY <1>2, <1>3, AppendProperties
<1>7. cast \in Round /\ cast.held = round.held /\ cast.batch = round.batch
  BY <1>3, <1>6 DEF Round
<1> HIDE DEF cast
<1>8. Carries(cast, round')
  BY <1>4, <1>5, <1>7, PlaceCarries DEF Source
<1> QED
  BY <1>7, <1>8, CarriesOn DEF Carries

LEMMA AnswersCarry ==
  ASSUME TypeOK, Sound, Asking, NEW p \in Player, AnswerUntap(p) \/ AnswerCleanup(p)
  PROVE  Carries(round, round')
<1> DEFINE t == [round EXCEPT !.choices = Tail(@)]
<1>1. t \in Round /\ ~t.held /\ Carries(round, t)
  BY ChoiceTaken
<1>2. CASE AnswerUntap(p)
  <2>1. round' = round \/ round' \in Place("untap", t)
    BY <1>2 DEF AnswerUntap
  <2> HIDE DEF t
  <2>2. CASE round' = round
    BY <2>2 DEF Carries
  <2>3. CASE round' \in Place("untap", t)
    <3>1. Carries(t, round')
      BY <1>1, <2>3, PlaceCarries DEF Source
    <3> QED
      BY <1>1, <3>1, CarriesOn
  <2> QED
    BY <2>1, <2>2, <2>3
<1>3. CASE AnswerCleanup(p)
  <2>1. PICK r1 \in Delayed(t) :
          \E r2 \in Place("event", r1) : round' \in {Grant(r2, active), r2}
    BY <1>3 DEF AnswerCleanup
  <2> HIDE DEF t
  <2>2. PICK r2 \in Place("event", r1) : round' \in {Grant(r2, active), r2}
    BY <2>1
  <2>3. r1 \in Round /\ Carries(t, r1) /\ ~r1.held
    <3>1. \/ r1 = t
          \/ \E b, q : r1 = FireDelayed(t, b, q)
      BY <2>1 DEF Delayed
    <3>2. ASSUME NEW b, NEW q PROVE FireDelayed(t, b, q).held = t.held
      BY <1>1 DEF FireDelayed, Grant, Round
    <3> QED
      BY <1>1, <2>1, <3>1, <3>2, DelayedCarries
  <2>4. Carries(r1, r2) /\ r2 \in Round
    BY <2>2, <2>3, PlaceCarries DEF Source
  <2>5. Carries(round, r2)
    BY <1>1, <2>3, <2>4, CarriesOn
  <2>6. round'.held = r2.held /\ round'.batch = r2.batch
    BY <2>2, <2>4, RoundKeeps
  <2> QED
    BY <2>5, <2>6, CarriesSame
<1> QED
  BY <1>2, <1>3

LEMMA DrawCarries ==
  ASSUME NoneOverHeld, TypeOK, NEW p \in Player, AnswerDraw(p)
  PROVE  Carries(round, round')
<1> DEFINE t == [round EXCEPT !.choices = Tail(@)]
<1>1. round \in Round /\ round.choices # <<>>
  BY DEF AnswerDraw, Answers, TypeOK
<1>2. PICK r \in Place("event", t) :
        round' = IF r.choices # <<>> THEN HeadChooser(r) ELSE Grant(r, active)
  BY DEF AnswerDraw
<1>3. t \in Round /\ t.held = round.held /\ t.batch = round.batch
  BY <1>1, TailType DEF Round
<1> HIDE DEF t
<1>4. Carries(t, r) /\ r \in Round /\ Carries(round, t)
  BY <1>2, <1>3, PlaceCarries DEF Source, NoneOverHeld, Carries
<1>5. Carries(round, r)
  BY <1>4, CarriesOn
<1> QED
  BY <1>2, <1>4, <1>5, RoundKeeps, CarriesSame

LEMMA TargetsCarry ==
  ASSUME TypeOK, Asking, NEW p \in Player, ChooseTarget(p) \/ DeclineTarget(p) \/ Retarget(p)
  PROVE  Carries(round, round')
<1>1. round \in Round
  BY DEF TypeOK
<1>2. ASSUME NEW r \in Round, r.held = round.held, r.batch = round.batch, LandTarget(r)
      PROVE  Carries(round, round')
  <2>1. round' = Land(r, active)
    BY <1>2 DEF LandTarget
  <2> QED
    BY <1>2, <2>1, LandKeeps DEF Carries
<1>3. CASE ChooseTarget(p)
  <2>1. PICK t \in Chosen("trigger", p) : LandTarget(Announced(round, t.id))
    BY <1>3 DEF ChooseTarget
  <2>2. Announced(round, t.id) \in Round
    BY <1>1, AnnouncedType
  <2>3. Announced(round, t.id).held = round.held /\ Announced(round, t.id).batch = round.batch
    BY <1>1 DEF Announced, Round
  <2> QED
    BY <1>2, <2>1, <2>2, <2>3
<1>4. CASE DeclineTarget(p)
  <2>1. PICK t \in Chosen("trigger", p) :
          \E k \in Places(round, t.id) : LandTarget(Withdrawn(round, k))
    BY <1>4 DEF DeclineTarget
  <2>2. PICK k \in Places(round, t.id) : LandTarget(Withdrawn(round, k))
    BY <2>1
  <2>3. Withdrawn(round, k) \in Round
    BY <1>1, WithdrawnType
  <2>4. Withdrawn(round, k).held = round.held /\ Withdrawn(round, k).batch = round.batch
    BY <1>1 DEF Withdrawn, Round
  <2> QED
    BY <1>2, <2>2, <2>3, <2>4
<1>5. CASE Retarget(p)
  <2> DEFINE r == [round EXCEPT !.target = {}]
  <2>1. r \in Round /\ r.held = round.held /\ r.batch = round.batch
    BY <1>1 DEF Round
  <2>2. round' \in Place("resolve", Grant(r, active))
    BY <1>5 DEF Retarget
  <2>3. Awaits("target", p)
    BY <1>5 DEF Retarget, Chosen
  <2> HIDE DEF r
  <2>4. ~round.held
    BY <2>3, AwaitsUnheld DEF ChoiceKind
  <2>5. /\ Grant(r, active) \in Round /\ Grant(r, active).held = round.held
        /\ Grant(r, active).batch = round.batch
    BY <2>1, GrantType, RoundKeeps DEF TypeOK
  <2>6. Carries(Grant(r, active), round')
    BY <2>2, <2>4, <2>5, PlaceCarries DEF Source
  <2> QED
    BY <2>5, <2>6, CarriesOn DEF Carries
<1> QED
  BY <1>3, <1>4, <1>5

LEMMA DeclarationsCarry ==
  ASSUME TypeOK, Asking, NEW p \in Player,
         ConfirmAttackers(p) \/ PayAttackTax(p) \/ ConfirmBlockers(p) \/ ConfirmDamage(p)
  PROVE  Carries(round, round')
<1>1. combat.parked \subseteq Tax
  BY DEF TypeOK, Combat
<1>2. \E kind : kind \notin ChoiceKind /\ \E q : Awaits(kind, q)
  BY <1>1 DEF ConfirmAttackers, PayAttackTax, ConfirmBlockers, ConfirmDamage, Declares, Tax,
              ChoiceKind
<1>3. round \in Round /\ ~round.held
  BY <1>2, AwaitsUnheld
<1>4. ASSUME NEW source \in Source, NEW r \in {round} \cup Place(source, round),
             round' \in {r, Grant(r, active)}
      PROVE  Carries(round, round')
  <2>1. Carries(round, r) /\ r \in Round
    BY <1>3, PlaceCarries DEF Carries
  <2>2. round'.held = r.held /\ round'.batch = r.batch
    BY <1>4, <2>1, RoundKeeps
  <2> QED
    BY <2>1, <2>2, CarriesSame
<1>5. CASE ConfirmAttackers(p) \/ PayAttackTax(p)
  <2>1. PICK c : ChargeTaxes(c)
    BY <1>5 DEF ConfirmAttackers, PayAttackTax
  <2>2. FinalizeConfirmAttackers(c) \/ \E tax : Park(c, tax)
    BY <2>1 DEF ChargeTaxes
  <2>3. CASE FinalizeConfirmAttackers(c)
    <3>1. PICK r \in {round} \cup Place("attack", round) : round' = Grant(r, active)
      BY <2>3 DEF FinalizeConfirmAttackers
    <3> QED
      BY <1>4, <3>1 DEF Source
  <2>4. CASE \E tax : Park(c, tax)
    BY <2>4 DEF Park, Carries
  <2> QED
    BY <2>2, <2>3, <2>4
<1>6. CASE ConfirmBlockers(p)
  <2>1. PICK r \in Place("block", round) : round' = Grant(r, active)
    BY <1>6 DEF ConfirmBlockers
  <2> QED
    BY <1>4, <2>1 DEF Source
<1>7. CASE ConfirmDamage(p)
  <2>1. round' = round \/ round' \in Place("damage", round)
    BY <1>7 DEF ConfirmDamage
  <2> QED
    BY <1>4, <2>1 DEF Source, Carries
<1> QED
  BY <1>5, <1>6, <1>7

LEMMA MutationCarries ==
  ASSUME NoneOverHeld, TypeOK, Sound, Asking, NEW p \in Player, Mutation(p), ~AnswerOrder(p)
  PROVE  Carries(round, round')
BY RoundGoesOn, CastCarries, AnswersCarry, DrawCarries, TargetsCarry, DeclarationsCarry DEF Mutation

LEMMA CarriedLands ==
  ASSUME BatchInv, Carries(round, round')
  PROVE  BatchInv' /\ BatchIds(round.batch) \subseteq BatchIds(round'.batch)
BY DEF BatchInv, Carries

LEMMA BatchStep ==
  ASSUME NoneOverHeld, OrderInv, InputInv, BatchInv, [Next]_vars
  PROVE  BatchInv' /\ BatchIds(round.batch) \subseteq BatchIds(round'.batch) \cup StackIds(round')
<1>1. TypeOK /\ Sound /\ Asking /\ Settled
  BY DEF OrderInv, InputInv
<1>2. CASE UNCHANGED vars
  BY <1>2, CarriedLands DEF vars, Carries
<1>3. CASE EngineStep
  BY <1>1, <1>3, EngineCarries, CarriedLands DEF NoneOverHeld
<1>4. ASSUME NEW p \in Player, Mutation(p)
      PROVE  BatchInv' /\ BatchIds(round.batch) \subseteq BatchIds(round'.batch) \cup StackIds(round')
  <2>1. CASE AnswerOrder(p)
    BY <1>1, <2>1, AnswerOrderLands
  <2>2. CASE ~AnswerOrder(p)
    BY <1>1, <1>4, <2>2, MutationCarries, CarriedLands
  <2> QED
    BY <2>1, <2>2
<1> QED
  BY <1>2, <1>3, <1>4 DEF Next

(* Where nobody orders the triggers of deaths or of a step's events, every *)
(* trigger held for its order stays held until it is on the stack, whatever*)
(* is cast, answered or triggered meanwhile (pendingTriggerBatch).         *)
THEOREM BatchLandsElsewhere ==
  Unordered("death") /\ Unordered("event") => (Spec => BatchLands)
<1> SUFFICES ASSUME NoneOverHeld
             PROVE  Spec => BatchLands
  BY DEF NoneOverHeld
<1>1. OrderInv /\ InputInv /\ BatchInv /\ [Next]_vars => BatchInv'
  BY BatchStep
<1>2. Init => BatchInv
  <2>1. ASSUME Init PROVE BatchIds(round.batch) = {}
    BY <2>1, NothingHeld DEF Init
  <2> QED
    BY <2>1 DEF BatchInv
<1>3. OrderInv /\ InputInv /\ BatchInv /\ [Next]_vars
        => [BatchIds(round.batch) \subseteq BatchIds(round'.batch) \cup StackIds(round')]_vars
  BY BatchStep
<1> QED
  BY <1>1, <1>2, <1>3, InputInvariant, PTL DEF Spec, BatchLands

(***************************************************************************)
(* Pass Until Action.                                                      *)
(***************************************************************************)

(* What a seat remembers of the stack shields nothing above the n bottom-  *)
(* most objects, those that were there when the seat last pressed: no      *)
(* trigger there has a remembered id, and of a card it remembers no more   *)
(* objects than are among the n.                                           *)
Bare(r, ids, n) ==
  \A k \in DOMAIN r.stack : k > n =>
    /\ r.stack[k].id \in Id => ids[r.stack[k].id] = 0
    /\ r.stack[k].id \in Card => ids[r.stack[k].id] <= Times(r, n, r.stack[k].id)

(* Nor will it shield a card that is yet to come.                          *)
Exact(r, ids, n) == \A c \in Card : ids[c] <= Times(r, n, c)

Remembered(p) == {intent.base[p], intent.wbase[p]}
Below(r, seen) == \A p \in Player : seen[p] <= Len(r.stack)
AllBare(r, seen) == \A p \in Player : \A ids \in Remembered(p) : Bare(r, ids, seen[p])
AllExact(r, seen) == \A p \in Player : \A ids \in Remembered(p) : Exact(r, ids, seen[p])

(* A held trigger has an id of its own, which no seat remembers.           *)
Apart(r) == BatchIds(r.batch) \cap (StackIds(r) \cup Spared) = {}

(* What left the stack is forgotten at the next turn of the drain.         *)
Stale ==
  \/ ctl.at \in {"drain", "settle"}
  \/ round.target # {}
  \/ over /\ ctl.at \in {"rest", "sweep"}

SeenInv ==
  /\ Below(round, intent.seen) /\ AllBare(round, intent.seen) /\ Apart(round)
  /\ \A p \in Player \ intent.waiting : intent.wbase[p] = NoIds
  /\ Stale \/ AllExact(round, intent.seen)

-----------------------------------------------------------------------------
(* How often an id is among the bottom-most objects.                       *)
LEMMA TimesPrefix ==
  ASSUME NEW r \in Round, NEW s, NEW n \in Nat, n <= Len(r.stack),
         \A k \in DOMAIN r.stack : s.stack[k].id = r.stack[k].id, NEW i
  PROVE  Times(s, n, i) = Times(r, n, i)
<1>1. DOMAIN r.stack = 1..Len(r.stack) /\ Len(r.stack) \in Nat
  BY LenProperties DEF Round
<1>2. \A k \in 1..n : k \in DOMAIN r.stack
  BY <1>1
<1>3. { k \in 1..n : s.stack[k].id = i } = { k \in 1..n : r.stack[k].id = i }
  BY <1>2
<1> QED
  BY <1>3 DEF Times

LEMMA TimesGrow ==
  ASSUME NEW r, NEW n \in Nat, NEW m \in Nat, n <= m, NEW i
  PROVE  /\ Times(r, n, i) \in Nat /\ Times(r, m, i) \in Nat
         /\ Times(r, n, i) <= Times(r, m, i)
         /\ (\A k \in 1..m : k > n => r.stack[k].id # i) => Times(r, n, i) = Times(r, m, i)
         /\ (m > n /\ r.stack[m].id = i) => Times(r, n, i) < Times(r, m, i)
<1> DEFINE few == { k \in 1..n : r.stack[k].id = i }
           many == { k \in 1..m : r.stack[k].id = i }
<1>1. IsFiniteSet(many)
  <2>1. IsFiniteSet(1..m) /\ many \in SUBSET (1..m)
    BY FS_Interval
  <2> HIDE DEF many
  <2> QED
    BY <2>1, FS_Subset
<1>2. few \in SUBSET many
  OBVIOUS
<1>3. /\ IsFiniteSet(few) /\ Cardinality(few) <= Cardinality(many)
      /\ Cardinality(many) = Cardinality(few) => many = few
  BY <1>1, <1>2, FS_Subset
<1>4. Cardinality(few) \in Nat /\ Cardinality(many) \in Nat
  BY <1>1, <1>3, FS_CardinalityType
<1>5. (\A k \in 1..m : k > n => r.stack[k].id # i) => few = many
  OBVIOUS
<1>6. (m > n /\ r.stack[m].id = i) => m \in many /\ m \notin few
  OBVIOUS
<1>7. Times(r, n, i) = Cardinality(few) /\ Times(r, m, i) = Cardinality(many)
  BY DEF Times
<1> HIDE DEF few, many
<1>8. (m > n /\ r.stack[m].id = i) => Cardinality(few) # Cardinality(many)
  BY <1>3, <1>6
<1> QED
  BY <1>3, <1>4, <1>5, <1>7, <1>8

(* No object above the n bottom-most is masked by what is bare of them.    *)
LEMMA NoneMasked ==
  ASSUME NEW r \in Round, NEW ids \in [ObjectId -> Nat], NEW n \in Nat, Bare(r, ids, n),
         NEW k \in DOMAIN r.stack, k > n
  PROVE  k \notin Masked(r, ids)
<1>1. DOMAIN r.stack = 1..Len(r.stack) /\ Len(r.stack) \in Nat /\ r.stack[k] \in Item
  BY LenProperties, ElementOfSeq DEF Round
<1> DEFINE i == r.stack[k].id
<1>2. i \in Id \/ i \in Card
  BY <1>1, ItemFields DEF ObjectId
<1>3. i \in ObjectId /\ ids[i] \in Nat
  BY <1>2 DEF ObjectId
<1>4. k \in Nat /\ Times(r, n, i) \in Nat /\ Times(r, k, i) \in Nat /\ Times(r, n, i) < Times(r, k, i)
  <2>1. k \in Nat /\ n <= k
    BY <1>1
  <2> QED
    BY <2>1, TimesGrow
<1>5. ids[i] <= Times(r, n, i)
  <2>1. CASE i \in Id
    <3>1. ids[i] = 0
      BY <2>1 DEF Bare
    <3> QED
      BY <1>4, <3>1
  <2>2. CASE i \in Card
    BY <2>2 DEF Bare
  <2> QED
    BY <1>2, <2>1, <2>2
<1> HIDE DEF i
<1>6. ~(Times(r, k, i) <= ids[i])
  BY <1>3, <1>4, <1>5
<1> QED
  BY <1>6 DEF Masked, i

LEMMA NothingBare ==
  ASSUME NEW r \in Round, NEW n \in Nat
  PROVE  Bare(r, NoIds, n) /\ Exact(r, NoIds, n)
<1>1. \A i \in ObjectId : NoIds[i] = 0
  BY DEF NoIds
<1>2. \A i : Times(r, n, i) \in Nat
  BY TimesType
<1> QED
  BY <1>1, <1>2 DEF Bare, Exact, ObjectId

(* A pruned baseline holds of an id what it held, or what is on the stack. *)
LEMMA PrunedExact ==
  ASSUME NEW r \in Round, NEW ids \in [ObjectId -> Nat], NEW n \in Nat, n <= Len(r.stack),
         Bare(r, ids, n)
  PROVE  Bare(r, Pruned(r, ids), n) /\ Exact(r, Pruned(r, ids), n)
<1> DEFINE len == Len(r.stack)
           left == Pruned(r, ids)
<1>1. DOMAIN r.stack = 1..len /\ len \in Nat /\ \A k \in 1..len : r.stack[k] \in Item
  BY LenProperties, ElementOfSeq DEF Round
<1>2. \A i \in ObjectId : left[i] = IF ids[i] <= Times(r, len, i) THEN ids[i] ELSE Times(r, len, i)
  BY DEF Pruned
<1> HIDE DEF left, len
<1>3. \A i : Times(r, n, i) \in Nat /\ Times(r, len, i) \in Nat
  BY <1>1, TimesType
<1>4. ASSUME NEW c \in Card
      PROVE  left[c] <= Times(r, n, c)
  <2>1. c \in ObjectId /\ ids[c] \in Nat
    BY DEF ObjectId
  <2>2. CASE ids[c] <= Times(r, n, c)
    BY <1>2, <1>3, <2>1, <2>2
  <2>3. CASE ~(ids[c] <= Times(r, n, c))
    <3>1. \A k \in 1..len : k > n => r.stack[k].id # c
      BY <1>1, <2>3 DEF Bare
    <3>2. Times(r, n, c) = Times(r, len, c)
      BY <1>1, <3>1, TimesGrow DEF len
    <3> QED
      BY <1>2, <1>3, <2>1, <3>2
  <2> QED
    BY <2>2, <2>3
<1>5. ASSUME NEW i \in Id, ids[i] = 0
      PROVE  left[i] = 0
  <2>1. i \in ObjectId
    BY DEF ObjectId
  <2> QED
    BY <1>2, <1>3, <1>5, <2>1
<1> QED
  BY <1>4, <1>5 DEF Bare, Exact, left

LEMMA PrunedSpares ==
  ASSUME NEW r \in Round, NEW ids \in [ObjectId -> Nat], NEW i \in ObjectId, ids[i] = 0
  PROVE  Pruned(r, ids)[i] = 0
<1>1. Len(r.stack) \in Nat
  BY LenProperties DEF Round
<1>2. Times(r, Len(r.stack), i) \in Nat
  BY <1>1, TimesType
<1> QED
  BY <1>2 DEF Pruned

LEMMA PrunedNothing ==
  ASSUME NEW r \in Round
  PROVE  Pruned(r, NoIds) = NoIds
<1>1. \A i \in ObjectId : NoIds[i] = 0 /\ NoIds \in [ObjectId -> Nat]
  BY BaselineType DEF NoIds
<1>2. \A i \in ObjectId : Pruned(r, NoIds)[i] = 0
  BY <1>1, PrunedSpares
<1>3. Pruned(r, NoIds) \in [ObjectId -> Nat]
  BY <1>1, BaselineType
<1>4. Pruned(r, NoIds) = [i \in ObjectId |-> Pruned(r, NoIds)[i]]
  BY <1>3
<1> QED
  BY <1>2, <1>4 DEF NoIds

-----------------------------------------------------------------------------
(* What goes on the stack, from a round r to a round s: triggers with ids  *)
(* that no seat remembers.  A target asked for is still asked for, and     *)
(* what is held keeps apart.                                               *)
Piles(r, s) ==
  /\ s \in Round
  /\ \A k \in DOMAIN r.stack : k \in DOMAIN s.stack /\ s.stack[k].id = r.stack[k].id
  /\ \A k \in DOMAIN s.stack \ DOMAIN r.stack : s.stack[k].id \in Id \ Spared
  /\ r.target # {} => s.target # {}
  /\ Apart(r) => Apart(s)

LEMMA PilesOn ==
  ASSUME NEW r, NEW s, NEW t, Piles(r, s), Piles(s, t)
  PROVE  Piles(r, t)
<1>1. \A k \in DOMAIN t.stack \ DOMAIN r.stack : t.stack[k].id \in Id \ Spared
  <2> SUFFICES ASSUME NEW k \in DOMAIN t.stack \ DOMAIN r.stack
               PROVE  t.stack[k].id \in Id \ Spared
    OBVIOUS
  <2>1. CASE k \in DOMAIN s.stack
    BY <2>1 DEF Piles
  <2>2. CASE k \notin DOMAIN s.stack
    BY <2>2 DEF Piles
  <2> QED
    BY <2>1, <2>2
<1> QED
  BY <1>1 DEF Piles

LEMMA PilesNothing ==
  ASSUME NEW r, NEW s \in Round, s.stack = r.stack, s.batch = r.batch,
         r.target # {} => s.target # {}
  PROVE  Piles(r, s)
BY DEF Piles, Apart, StackIds

(* A grant of priority piles nothing.                                      *)
LEMMA GrantsPile ==
  ASSUME TypeOK, NEW r \in Round
  PROVE  /\ Piles(r, r) /\ Piles(r, Grant(r, active)) /\ Piles(r, HeadChooser(r))
         /\ Piles(r, HandPriorityOn(r, active)) /\ Piles(r, [r EXCEPT !.holder = active])
<1>1. active \in Player
  BY DEF TypeOK
<1>2. \A p : /\ [r EXCEPT !.holder = p].stack = r.stack /\ [r EXCEPT !.holder = p].batch = r.batch
             /\ [r EXCEPT !.holder = p].target = r.target
  BY DEF Round
<1>3. /\ Grant(r, active).stack = r.stack /\ Grant(r, active).batch = r.batch
      /\ Grant(r, active).target = r.target
  BY DEF Grant, Round
<1>4. /\ HeadChooser(r).stack = r.stack /\ HeadChooser(r).batch = r.batch
      /\ HeadChooser(r).target = r.target
  BY <1>2 DEF HeadChooser
<1>5. /\ HandPriorityOn(r, active).stack = r.stack /\ HandPriorityOn(r, active).batch = r.batch
      /\ HandPriorityOn(r, active).target = r.target
  BY <1>2, <1>3, <1>4 DEF HandPriorityOn
<1>6. [r EXCEPT !.holder = active] \in Round
  BY <1>1 DEF Round
<1> QED
  BY <1>1, <1>2, <1>3, <1>4, <1>5, <1>6, GrantType, HeadChooserType, HandPriorityOnType, PilesNothing

LEMMA LandAsks ==
  ASSUME NEW r \in Round, NEW ap, r.target # {}
  PROVE  Land(r, ap).target # {}
<1>1. CASE Unannounced(r.stack) # {}
  <2>1. RaiseTarget(r).target = { [kind |-> "trigger", by |-> r.stack[i].by, id |-> r.stack[i].id]
                                  : i \in Unannounced(r.stack) }
    BY DEF RaiseTarget, Round
  <2>2. RaiseTarget(r).target # {}
    BY <1>1, <2>1
  <2> QED
    BY <1>1, <2>2 DEF Land
<1>2. CASE Unannounced(r.stack) = {}
  BY <1>2 DEF Land, Grant, Round
<1> QED
  BY <1>1, <1>2

LEMMA ConcatPast ==
  ASSUME NEW s \in Seq(Item), NEW t \in Seq(Item), NEW k \in DOMAIN (s \o t), k \notin DOMAIN s
  PROVE  k - Len(s) \in DOMAIN t /\ (s \o t)[k] = t[k - Len(s)]
<1>1. /\ s \o t \in Seq(Item) /\ Len(s \o t) = Len(s) + Len(t)
      /\ \A i \in 1..(Len(s) + Len(t)) :
           (s \o t)[i] = IF i <= Len(s) THEN s[i] ELSE t[i - Len(s)]
  BY ConcatProperties
<1>2. /\ Len(s) \in Nat /\ DOMAIN s = 1..Len(s) /\ Len(t) \in Nat /\ DOMAIN t = 1..Len(t)
      /\ DOMAIN (s \o t) = 1..(Len(s) + Len(t))
  BY <1>1, LenProperties
<1>3. k \in 1..(Len(s) + Len(t)) /\ ~(k <= Len(s))
  BY <1>2
<1> QED
  BY <1>1, <1>2, <1>3

(* The slices of a batch on top of a stack.                                *)
LEMMA SlicesOnTop ==
  ASSUME NEW s \in Seq(Item), NEW b \in Batch, NEW p \in Player, NEW q \in Player
  PROVE  LET t == s \o b.of[p] \o b.of[q]
         IN  /\ \A k \in DOMAIN s : k \in DOMAIN t /\ t[k] = s[k]
             /\ \A k \in DOMAIN t \ DOMAIN s : t[k].id \in BatchIds(b)
<1> DEFINE first == b.of[p]
           last == b.of[q]
<1>1. first \in Seq(Item) /\ last \in Seq(Item) /\ s \o first \in Seq(Item)
  BY TriggersAreItems, ConcatProperties DEF Batch
<1>2. \A k \in DOMAIN first : first[k].id \in BatchIds(b)
  BY DEF BatchIds
<1>3. \A k \in DOMAIN last : last[k].id \in BatchIds(b)
  BY DEF BatchIds
<1> HIDE DEF first, last
<1>4. ASSUME NEW k \in DOMAIN s
      PROVE  k \in DOMAIN (s \o first \o last) /\ (s \o first \o last)[k] = s[k]
  <2>1. k \in DOMAIN (s \o first) /\ (s \o first)[k] = s[k]
    BY <1>1, ConcatKeeps
  <2> QED
    BY <1>1, <2>1, ConcatKeeps
<1>5. ASSUME NEW k \in DOMAIN (s \o first \o last), k \notin DOMAIN s
      PROVE  (s \o first \o last)[k].id \in BatchIds(b)
  <2>1. CASE k \in DOMAIN (s \o first)
    <3>1. (s \o first \o last)[k] = (s \o first)[k]
      BY <1>1, <2>1, ConcatKeeps
    <3>2. k - Len(s) \in DOMAIN first /\ (s \o first)[k] = first[k - Len(s)]
      BY <1>1, <1>5, <2>1, ConcatPast
    <3> QED
      BY <1>2, <3>1, <3>2
  <2>2. CASE k \notin DOMAIN (s \o first)
    <3>1. k - Len(s \o first) \in DOMAIN last
          /\ (s \o first \o last)[k] = last[k - Len(s \o first)]
      BY <1>1, <2>2, ConcatPast
    <3> QED
      BY <1>3, <3>1
  <2> QED
    BY <2>1, <2>2
<1> QED
  BY <1>4, <1>5 DEF first, last

LEMMA BatchPiles ==
  ASSUME NEW r \in Round, NEW s \in Round, NEW b \in Batch, NEW p \in Player, NEW q \in Player,
         s.stack = r.stack \o b.of[p] \o b.of[q], BatchIds(b) \cap Spared = {},
         BatchIds(s.batch) \subseteq BatchIds(r.batch) \ BatchIds(b),
         r.target # {} => s.target # {}
  PROVE  Piles(r, s)
<1>1. r.stack \in Seq(Item)
  BY DEF Round
<1>2. /\ \A k \in DOMAIN r.stack : k \in DOMAIN s.stack /\ s.stack[k] = r.stack[k]
      /\ \A k \in DOMAIN s.stack \ DOMAIN r.stack : s.stack[k].id \in BatchIds(b)
  <2> DEFINE t == r.stack \o b.of[p] \o b.of[q]
  <2>1. /\ \A k \in DOMAIN r.stack : k \in DOMAIN t /\ t[k] = r.stack[k]
        /\ \A k \in DOMAIN t \ DOMAIN r.stack : t[k].id \in BatchIds(b)
    BY <1>1, SlicesOnTop
  <2>2. s.stack = t
    OBVIOUS
  <2> HIDE DEF t
  <2> QED
    BY <2>1, <2>2
<1>3. BatchIds(b) \subseteq Id
  BY BatchIdsType
<1>4. StackIds(s) \subseteq StackIds(r) \cup BatchIds(b)
  BY <1>2 DEF StackIds
<1>5. Apart(r) => Apart(s)
  BY <1>4 DEF Apart
<1> QED
  BY <1>2, <1>3, <1>5 DEF Piles

LEMMA PlacePiles ==
  ASSUME TypeOK, NEW source \in Source, NEW r \in Round, NEW s \in Place(source, r)
  PROVE  Piles(r, s)
<1>1. PICK shape \in Fires[source], b \in Batch : PlacedAs(shape, b, r, s)
  BY PlaceCases
<1>2. s \in Round /\ active \in Player /\ Opponent(active) \in Player
  BY PlaceType, OpponentIsOther DEF TypeOK
<1>3. BatchIds(b) \cap (UsedIds(r) \cup Spared) = {}
  BY <1>1 DEF PlacedAs
<1>4. CASE s = r
  BY <1>4, PilesNothing
<1>5. CASE s = Land(Stacked(r, b), active)
  <2>1. /\ Stacked(r, b) \in Round /\ Stacked(r, b).batch = r.batch
        /\ Stacked(r, b).stack = r.stack \o b.of[active] \o b.of[Opponent(active)]
    BY StackedRound
  <2>2. Stacked(r, b).target = r.target
    BY DEF Stacked, Round
  <2>3. /\ s.stack = r.stack \o b.of[active] \o b.of[Opponent(active)] /\ s.batch = r.batch
        /\ r.target # {} => s.target # {}
    BY <1>5, <2>1, <2>2, LandKeeps, LandAsks
  <2>4. BatchIds(r.batch) \subseteq BatchIds(r.batch) \ BatchIds(b)
    BY <1>3 DEF UsedIds
  <2> QED
    BY <1>2, <1>3, <2>3, <2>4, BatchPiles
<1>6. CASE Parked(r, b, s)
  <2>1. s.stack = r.stack /\ s.target = r.target /\ s.batch = b
    BY <1>6 DEF Parked
  <2>2. StackIds(s) = StackIds(r)
    BY <2>1 DEF StackIds
  <2>3. Apart(s)
    BY <1>3, <2>1, <2>2 DEF Apart, UsedIds
  <2> QED
    BY <1>2, <2>1, <2>3 DEF Piles
<1> QED
  BY <1>1, <1>4, <1>5, <1>6 DEF PlacedAs

LEMMA DelayedPiles ==
  ASSUME TypeOK, NEW r \in Round, NEW s \in Delayed(r)
  PROVE  Piles(r, s)
<1>1. active \in Player /\ s \in Round
  BY DelayedType DEF TypeOK
<1>2. CASE s = r
  BY <1>2, PilesNothing
<1>3. ASSUME NEW f \in Firing("delayed", r, active, Spared),
             s = FireDelayed(r, BatchOf(f), active)
      PROVE  Piles(r, s)
  <2> DEFINE b == BatchOf(f)
             added == [r EXCEPT !.stack = @ \o b.of[b.lead] \o b.of[Opponent(b.lead)]]
  <2>1. b \in Batch /\ BatchIds(b) \cap (UsedIds(r) \cup Spared) = {}
    BY <1>1, FiringType, FiringFresh DEF Source
  <2> HIDE DEF b
  <2>2. b.lead \in Player /\ Opponent(b.lead) \in Player
    BY <2>1, OpponentIsOther DEF Batch
  <2>3. s = r \/ s = Grant(added, active)
    BY <1>3 DEF FireDelayed, b
  <2>4. CASE s = Grant(added, active)
    <3>1. /\ added.stack = r.stack \o b.of[b.lead] \o b.of[Opponent(b.lead)]
          /\ added.batch = r.batch /\ added.target = r.target
      BY DEF Round
    <3>2. /\ s.stack = r.stack \o b.of[b.lead] \o b.of[Opponent(b.lead)]
          /\ s.batch = r.batch /\ s.target = r.target
      BY <2>4, <3>1 DEF Grant, Round
    <3>3. BatchIds(r.batch) \subseteq BatchIds(r.batch) \ BatchIds(b)
      BY <2>1 DEF UsedIds
    <3> QED
      BY <1>1, <2>1, <2>2, <3>2, <3>3, BatchPiles
  <2> QED
    BY <1>1, <2>3, <2>4, PilesNothing
<1> QED
  BY <1>2, <1>3 DEF Delayed

LEMMA BegunPiles ==
  ASSUME TypeOK, NEW r \in Round, NEW s \in Begun(r)
  PROVE  Piles(r, s)
<1>1. s = r \/ s \in Place("begin", r)
  BY DEF Begun
<1> QED
  BY <1>1, PlacePiles, PilesNothing DEF Source

LEMMA CheckPiles ==
  ASSUME TypeOK, NEW s \in CheckStateBasedActions(round)
  PROVE  Piles(round, s.round)
<1>1. round \in Round /\ s.round \in Round
  BY CheckType DEF TypeOK, Outcome
<1>2. CASE s.round \in Place("death", round)
  BY <1>1, <1>2, PlacePiles DEF Source
<1>3. CASE s.round = round
  BY <1>1, <1>3, PilesNothing
<1>4. ASSUME NEW p \in Player, s.round = AskLegend(round, p)
      PROVE  Piles(round, s.round)
  <2>1. /\ AskLegend(round, p).stack = round.stack /\ AskLegend(round, p).batch = round.batch
        /\ AskLegend(round, p).target = round.target
    BY <1>1 DEF AskLegend, Round
  <2> QED
    BY <1>1, <1>4, <2>1, PilesNothing
<1> QED
  BY <1>2, <1>3, <1>4 DEF CheckStateBasedActions, Found, Lost

-----------------------------------------------------------------------------
(* The steps that pile triggers and do nothing else to the stack.          *)
LEMMA FinishPiles ==
  ASSUME TypeOK, NEW r \in Round, Piles(round, r), NEW skipped, FinishEntry(r, skipped)
  PROVE  Piles(round, round')
<1>1. round' \in {r, HeadChooser(r), Grant(r, active)}
  BY DEF FinishEntry
<1>2. Piles(r, HeadChooser(r)) /\ Piles(r, Grant(r, active))
  BY GrantsPile
<1>3. CASE round' = r
  BY <1>3
<1>4. CASE round' = HeadChooser(r)
  BY <1>2, <1>4, PilesOn
<1>5. CASE round' = Grant(r, active)
  BY <1>2, <1>5, PilesOn
<1> QED
  BY <1>1, <1>3, <1>4, <1>5

LEMMA TakePiles ==
  ASSUME TypeOK, TypeOK',
         TakeDeclaring \/ TakeHaltsForBlocks \/ TakeNoBlocks \/ TakeDamaging \/ TakePass
  PROVE  Piles(round, round')
<1>1. round \in Round /\ round' \in Round
  BY DEF TypeOK
<1>2. CASE TakeHaltsForBlocks
  <2>1. /\ round'.stack = round.stack /\ round'.batch = round.batch
        /\ round'.target = round.target
    BY <1>1, <1>2 DEF TakeHaltsForBlocks, Round
  <2> QED
    BY <1>1, <2>1, PilesNothing
<1>3. CASE TakeDeclaring \/ TakeNoBlocks \/ TakeDamaging \/ TakePass
  <2> DEFINE placed == UNION { Place(source, round) : source \in {"attack", "block", "damage"} }
  <2>1. PICK r \in placed \cup {round} : CountPass(r)
    BY <1>3 DEF TakeDeclaring, TakeNoBlocks, TakeDamaging, TakePass
  <2>2. Piles(round, r) /\ r \in Round
    BY <1>1, GrantsPile, PlacePiles, PlaceType DEF Source
  <2> HIDE DEF placed
  <2>3. round'.stack = r.stack /\ round'.batch = r.batch /\ round'.target = r.target
    BY <2>1, <2>2 DEF CountPass, Round
  <2> QED
    BY <1>1, <2>2, <2>3, PilesNothing, PilesOn
<1> QED
  BY <1>2, <1>3

LEMMA SuspendsPiles ==
  ASSUME TypeOK, ResolutionSuspends
  PROVE  Piles(round, round')
<1>1. PICK asked \in Asks :
        ThenHandOn([round EXCEPT !.told = 0, !.choices = [ k \in DOMAIN asked |->
          [kind |-> "resolution", by |-> Seat(active, asked[k]), id |-> Top(round).id] ]])
  BY DEF ResolutionSuspends
<1> DEFINE r == [round EXCEPT !.told = 0, !.choices = [ k \in DOMAIN asked |->
          [kind |-> "resolution", by |-> Seat(active, asked[k]), id |-> Top(round).id] ]]
<1>2. r \in Round
  BY AskedType DEF ResolutionSuspends
<1>3. r.stack = round.stack /\ r.batch = round.batch /\ r.target = round.target
  BY DEF TypeOK, Round
<1>4. ThenHandOn(r)
  BY <1>1
<1> HIDE DEF r
<1>5. round' = HandPriorityOn(r, active)
  BY <1>4 DEF ThenHandOn
<1> QED
  BY <1>2, <1>3, <1>5, GrantsPile, PilesNothing, PilesOn

LEMMA EnterPiles ==
  ASSUME TypeOK,
         \/ EnterUntap \/ SkipDrawStep \/ EnterStep \/ EnterDeclareAttackers
         \/ EnterDeclareBlockers \/ EnterDamage \/ EnterEndOfCombat \/ EnterCleanup
  PROVE  Piles(round, round')
<1>1. round \in Round /\ active \in Player /\ Piles(round, round)
  BY GrantsPile DEF TypeOK
<1>2. ASSUME NEW r \in Round, Piles(round, r), NEW source \in Source,
             NEW s \in {r} \cup Place(source, r) \cup Begun(r) \cup Delayed(r)
      PROVE  Piles(round, s) /\ s \in Round
  <2>1. Piles(r, s)
    BY GrantsPile, PlacePiles, BegunPiles, DelayedPiles
  <2> QED
    BY <1>2, <2>1, PilesOn DEF Piles
<1>3. CASE EnterUntap
  <2>1. CASE FinishEntry(AskUntap, TRUE)
    <3>1. << [kind |-> "untap", by |-> active, id |-> 0] >> \in Seq(Choice)
      BY <1>1 DEF Choice, ChoiceKind
    <3>2. /\ AskUntap \in Round /\ AskUntap.stack = round.stack
          /\ AskUntap.batch = round.batch /\ AskUntap.target = round.target
      BY <1>1, <3>1 DEF AskUntap, Round
    <3> QED
      BY <2>1, <3>2, PilesNothing, FinishPiles
  <2>2. CASE \E r \in Place("untap", round) : FinishEntry(r, TRUE)
    BY <1>1, <1>2, <2>2, FinishPiles DEF Source
  <2> QED
    BY <1>3, <2>1, <2>2 DEF EnterUntap
<1>4. CASE SkipDrawStep
  BY <1>1, <1>4, FinishPiles DEF SkipDrawStep
<1>5. CASE EnterStep
  <2>1. PICK r1 \in {round} \cup Place("event", round) \cup Drawn(round) :
          \E r2 \in Delayed(r1) : \E r3 \in Begun(r2) : FinishEntry(r3, FALSE)
    BY <1>5 DEF EnterStep
  <2>2. Piles(round, r1) /\ r1 \in Round
    <3>1. CASE r1 \in {round} \cup Place("event", round)
      BY <1>1, <1>2, <3>1 DEF Source
    <3>2. ASSUME NEW p \in Player, r1 = AskDraw(round, p)
          PROVE  Piles(round, r1) /\ r1 \in Round
      <4>1. /\ AskDraw(round, p).stack = round.stack /\ AskDraw(round, p).batch = round.batch
            /\ AskDraw(round, p).target = round.target
        BY <1>1 DEF AskDraw, Round
      <4> QED
        BY <1>1, <3>2, <4>1, AskDrawType, PilesNothing
    <3> QED
      BY <2>1, <3>1, <3>2 DEF Drawn
  <2>3. PICK r2 \in Delayed(r1) : \E r3 \in Begun(r2) : FinishEntry(r3, FALSE)
    BY <2>1
  <2>4. Piles(round, r2) /\ r2 \in Round
    BY <1>2, <2>2, <2>3 DEF Source
  <2>5. PICK r3 \in Begun(r2) : FinishEntry(r3, FALSE)
    BY <2>3
  <2>6. Piles(round, r3) /\ r3 \in Round
    BY <1>2, <2>4, <2>5 DEF Source
  <2> QED
    BY <2>5, <2>6, FinishPiles
<1>6. CASE EnterDeclareAttackers
  <2>1. PICK r \in Begun(round) : FinishEntry(r, FALSE)
    BY <1>6 DEF EnterDeclareAttackers
  <2>2. Piles(round, r) /\ r \in Round
    BY <1>1, <1>2, <2>1 DEF Source
  <2> QED
    BY <2>1, <2>2, FinishPiles
<1>7. CASE EnterDeclareBlockers
  <2>1. PICK r1 \in Begun(round) :
          \E r2 \in {r1} \cup Place("block", r1) : FinishEntry(r2, ~combat.attacking)
    BY <1>7 DEF EnterDeclareBlockers
  <2>2. PICK r2 \in {r1} \cup Place("block", r1) : FinishEntry(r2, ~combat.attacking)
    BY <2>1
  <2>3. Piles(round, r1) /\ r1 \in Round
    BY <1>1, <1>2, <2>1 DEF Source
  <2>4. Piles(round, r2) /\ r2 \in Round
    BY <1>2, <2>2, <2>3 DEF Source
  <2> QED
    BY <2>2, <2>4, FinishPiles
<1>8. CASE EnterDamage
  <2>1. PICK r1 \in {round} \cup Place("damage", round) :
          \E r2 \in Begun(r1) : FinishEntry(r2, TRUE) \/ FinishEntry(r2, FALSE)
    BY <1>8 DEF EnterDamage
  <2>2. PICK r2 \in Begun(r1) : FinishEntry(r2, TRUE) \/ FinishEntry(r2, FALSE)
    BY <2>1
  <2>3. Piles(round, r1) /\ r1 \in Round
    BY <1>1, <1>2, <2>1 DEF Source
  <2>4. Piles(round, r2) /\ r2 \in Round
    BY <1>2, <2>2, <2>3 DEF Source
  <2> QED
    BY <2>2, <2>4, FinishPiles
<1>9. CASE EnterEndOfCombat
  <2>1. PICK r1 \in Delayed(round) : \E r2 \in Begun(r1) : FinishEntry(r2, ~combat.attacking)
    BY <1>9 DEF EnterEndOfCombat
  <2>2. PICK r2 \in Begun(r1) : FinishEntry(r2, ~combat.attacking)
    BY <2>1
  <2>3. Piles(round, r1) /\ r1 \in Round
    BY <1>1, <1>2, <2>1 DEF Source
  <2>4. Piles(round, r2) /\ r2 \in Round
    BY <1>2, <2>2, <2>3 DEF Source
  <2> QED
    BY <2>2, <2>4, FinishPiles
<1>10. CASE EnterCleanup
  <2> DEFINE asked == [round EXCEPT !.holder = active,
               !.choices = Append(@, [kind |-> "cleanup", by |-> active, id |-> 0])]
  <2>1. CASE FinishEntry(asked, FALSE)
    <3>1. Append(round.choices, [kind |-> "cleanup", by |-> active, id |-> 0]) \in Seq(Choice)
      BY <1>1, AppendProperties DEF Choice, ChoiceKind, Round
    <3>2. /\ asked \in Round /\ asked.stack = round.stack /\ asked.batch = round.batch
          /\ asked.target = round.target
      BY <1>1, <3>1 DEF Round
    <3> HIDE DEF asked
    <3> QED
      BY <2>1, <3>2, PilesNothing, FinishPiles
  <2> HIDE DEF asked
  <2>2. CASE \E r \in Delayed(round) : \E skipped : FinishEntry(r, skipped)
    BY <1>1, <1>2, <2>2, FinishPiles DEF Source
  <2> QED
    BY <1>10, <2>1, <2>2 DEF EnterCleanup, asked
<1> QED
  BY <1>3, <1>4, <1>5, <1>6, <1>7, <1>8, <1>9, <1>10

LEMMA ClosingPiles ==
  ASSUME TypeOK,
         CheckBeforePass \/ SettleResolution \/ Sweep \/ Recheck \/ LegendSettled \/ DamageDealt
  PROVE  Piles(round, round')
<1>1. \/ round' = round
      \/ \E s \in CheckStateBasedActions(round) :
           round' \in {s.round, Grant(s.round, active), [s.round EXCEPT !.holder = active]}
  BY DEF CheckBeforePass, SettleResolution, Sweep, Recheck, LegendSettled, DamageDealt, After
<1>2. CASE round' = round
  BY <1>2, GrantsPile DEF TypeOK
<1>3. ASSUME NEW s \in CheckStateBasedActions(round),
             round' \in {s.round, Grant(s.round, active), [s.round EXCEPT !.holder = active]}
      PROVE  Piles(round, round')
  <2>1. Piles(round, s.round)
    BY CheckPiles
  <2>2. s.round \in Round
    BY <2>1 DEF Piles
  <2>3. Piles(s.round, round')
    BY <1>3, <2>2, GrantsPile
  <2> QED
    BY <2>1, <2>3, PilesOn
<1> QED
  BY <1>1, <1>2, <1>3

-----------------------------------------------------------------------------
(* What goes on the stack is not shielded by what a seat remembers.        *)
LEMMA PilesKeep ==
  ASSUME NEW r \in Round, NEW s, Piles(r, s), NEW n \in Nat, n <= Len(r.stack),
         NEW ids \in [ObjectId -> Nat], \A i \in Id \ Spared : ids[i] = 0
  PROVE  /\ n <= Len(s.stack)
         /\ Bare(r, ids, n) => Bare(s, ids, n)
         /\ Exact(r, ids, n) => Exact(s, ids, n)
<1>1. s \in Round /\ \A i : Times(s, n, i) = Times(r, n, i)
  BY TimesPrefix DEF Piles
<1>2. /\ DOMAIN r.stack = 1..Len(r.stack) /\ Len(r.stack) \in Nat
      /\ DOMAIN s.stack = 1..Len(s.stack) /\ Len(s.stack) \in Nat
  BY <1>1, LenProperties DEF Round
<1>3. DOMAIN r.stack \subseteq DOMAIN s.stack
  BY DEF Piles
<1>4. n <= Len(s.stack)
  <2> DEFINE m == Len(r.stack)
             l == Len(s.stack)
  <2>1. m \in Nat /\ l \in Nat /\ 1..m \subseteq 1..l /\ n <= m
    BY <1>2, <1>3
  <2> HIDE DEF m, l
  <2>2. m = 0 \/ m \in 1..l
    BY <2>1
  <2>3. n <= l
    BY <2>1, <2>2
  <2> QED
    BY <2>3 DEF l
<1>5. ASSUME Bare(r, ids, n), NEW k \in DOMAIN s.stack, k > n
      PROVE  /\ s.stack[k].id \in Id => ids[s.stack[k].id] = 0
             /\ s.stack[k].id \in Card => ids[s.stack[k].id] <= Times(s, n, s.stack[k].id)
  <2>1. CASE k \in DOMAIN r.stack
    <3>1. s.stack[k].id = r.stack[k].id
      BY <2>1 DEF Piles
    <3> QED
      BY <1>1, <1>5, <2>1, <3>1 DEF Bare
  <2>2. CASE k \notin DOMAIN r.stack
    <3>1. s.stack[k].id \in Id \ Spared
      BY <2>2 DEF Piles
    <3> QED
      BY <3>1, CardAssumption
  <2> QED
    BY <2>1, <2>2
<1> QED
  BY <1>1, <1>4, <1>5 DEF Bare, Exact

LEMMA SparedNothing ==
  ASSUME TypeOK, NEW p \in Player
  PROVE  /\ intent.base[p] \in [ObjectId -> Nat] /\ intent.wbase[p] \in [ObjectId -> Nat]
         /\ intent.seen[p] \in Nat
         /\ \A ids \in Remembered(p) :
              ids \in [ObjectId -> Nat] /\ \A i \in Id \ Spared : ids[i] = 0
<1>1. /\ intent.base[p] \in [ObjectId -> Nat] /\ intent.wbase[p] \in [ObjectId -> Nat]
      /\ intent.seen[p] \in Nat
  BY DEF TypeOK, Intent
<1>2. ASSUME NEW i \in Id \ Spared
      PROVE  intent.base[p][i] = 0 /\ intent.wbase[p][i] = 0
  <2>1. i \in ObjectId
    BY DEF ObjectId
  <2>2. intent.base[p][i] \in Nat /\ intent.wbase[p][i] \in Nat
    BY <1>1, <2>1
  <2>3. ~(intent.base[p][i] + intent.wbase[p][i] > 0)
    BY DEF Spared
  <2> QED
    BY <2>2, <2>3
<1> QED
  BY <1>1, <1>2 DEF Remembered

(* What the seats remember stays as it was.                                *)
Unchanging ==
  /\ intent'.base = intent.base /\ intent'.wbase = intent.wbase
  /\ intent'.seen = intent.seen /\ intent'.waiting = intent.waiting
LEMMA PilesSeen ==
  ASSUME TypeOK, SeenInv, Piles(round, round'), Unchanging, Stale => Stale'
  PROVE  SeenInv'
<1>1. round \in Round
  BY DEF TypeOK
<1>2. /\ Spared' = Spared /\ \A p : Remembered(p)' = Remembered(p)
      /\ intent'.seen = intent.seen
  BY DEF Unchanging, Spared, Remembered
<1>3. ASSUME NEW p \in Player
      PROVE  /\ intent.seen[p] <= Len(round'.stack)
             /\ \A ids \in Remembered(p) :
                  /\ Bare(round', ids, intent.seen[p])
                  /\ Exact(round, ids, intent.seen[p]) => Exact(round', ids, intent.seen[p])
  <2>1. intent.seen[p] \in Nat /\ intent.seen[p] <= Len(round.stack)
    BY SparedNothing DEF SeenInv, Below
  <2>2. ASSUME NEW ids \in Remembered(p)
        PROVE  /\ intent.seen[p] <= Len(round'.stack)
               /\ Bare(round', ids, intent.seen[p])
               /\ Exact(round, ids, intent.seen[p]) => Exact(round', ids, intent.seen[p])
    <3>1. ids \in [ObjectId -> Nat] /\ \A i \in Id \ Spared : ids[i] = 0
      BY SparedNothing
    <3>2. Bare(round, ids, intent.seen[p])
      BY DEF SeenInv, AllBare
    <3> QED
      BY <1>1, <2>1, <3>1, <3>2, PilesKeep
  <2>3. intent.base[p] \in Remembered(p)
    BY DEF Remembered
  <2> QED
    BY <2>2, <2>3
<1>4. Below(round, intent.seen)' /\ AllBare(round, intent.seen)'
  BY <1>2, <1>3 DEF Below, AllBare
<1>5. AllExact(round, intent.seen) => AllExact(round, intent.seen)'
  BY <1>2, <1>3 DEF AllExact
<1>6. Apart(round)'
  BY <1>2 DEF SeenInv, Piles, Apart
<1>7. \A p \in Player \ intent'.waiting : intent'.wbase[p] = NoIds
  BY DEF SeenInv, Unchanging
<1> QED
  BY <1>4, <1>5, <1>6, <1>7 DEF SeenInv

(* What goes on the stack changes nothing of what is asked.                *)
LEMMA PilingSeen ==
  ASSUME TypeOK, SeenInv,
         \/ CheckBeforePass \/ TakeDeclaring \/ TakeHaltsForBlocks \/ TakeNoBlocks
         \/ TakeDamaging \/ TakePass \/ ResolutionSuspends \/ SettleResolution \/ AdvancePhase
         \/ EnterUntap \/ SkipDrawStep \/ EnterStep \/ EnterDeclareAttackers
         \/ EnterDeclareBlockers \/ EnterDamage \/ EnterEndOfCombat \/ EnterCleanup
         \/ Sweep \/ Recheck \/ LegendSettled \/ DamageDealt,
         TypeOK'
  PROVE  SeenInv'
<1>1. Piles(round, round')
  <2>1. CASE AdvancePhase
    BY <2>1, GrantsPile DEF AdvancePhase, TypeOK
  <2> QED
    BY <2>1, TakePiles, SuspendsPiles, EnterPiles, ClosingPiles
<1>2. Unchanging
  <2>1. CASE CheckBeforePass
    <3>1. intent' \in {intent, [intent EXCEPT !.once = @ \ {round.holder}]}
      BY <2>1 DEF CheckBeforePass
    <3> QED
      BY <3>1 DEF Unchanging, TypeOK, Intent
  <2>2. CASE ~CheckBeforePass
    <3>1. intent' = intent
      BY <2>2 DEF TakeDeclaring, TakeHaltsForBlocks, TakeNoBlocks, TakeDamaging, TakePass,
           ResolutionSuspends, SettleResolution, AdvancePhase, EnterUntap, SkipDrawStep,
           EnterStep, EnterDeclareAttackers, EnterDeclareBlockers, EnterDamage,
           EnterEndOfCombat, EnterCleanup, Sweep, Recheck, LegendSettled, DamageDealt
    <3> QED
      BY <3>1 DEF Unchanging
  <2> QED
    BY <2>1, <2>2
<1>3. Stale => Stale'
  <2>1. CASE round.target # {}
    BY <1>1, <2>1 DEF Piles, Stale
  <2>2. CASE SettleResolution
    <3>1. \/ Goto("drain")
          \/ over' /\ Halt
      BY <2>2 DEF SettleResolution, After
    <3> QED
      BY <3>1, GotoAt, HaltAt DEF Stale
  <2>3. CASE Sweep
    <3>1. ctl'.at = "rest" /\ (over => over') /\ ctl.at = "sweep"
      BY <2>3 DEF Sweep, AtRest
    <3> QED
      BY <2>1, <3>1 DEF Stale
  <2>4. CASE ~SettleResolution /\ ~Sweep
    <3>1. ctl.at \notin {"drain", "settle", "rest", "sweep"}
      BY <2>4 DEF CheckBeforePass, TakeDeclaring, TakeHaltsForBlocks, TakeNoBlocks, TakeDamaging,
           TakePass, ResolutionSuspends, Resolving, AdvancePhase, EnterUntap, SkipDrawStep,
           EnterStep, EnterDeclareAttackers, EnterDeclareBlockers, EnterDamage,
           EnterEndOfCombat, EnterCleanup, Recheck, LegendSettled, DamageDealt
    <3> QED
      BY <2>1, <3>1 DEF Stale
  <2> QED
    BY <2>2, <2>3, <2>4
<1> QED
  BY <1>1, <1>2, <1>3, PilesSeen

(* The drain prunes what left the stack.                                   *)
LEMMA DrainSeen ==
  ASSUME TypeOK, SeenInv, DrainAutoPasses, TypeOK'
  PROVE  SeenInv'
<1> DEFINE p == round.holder
<1>1. round \in Round /\ p \in Player /\ round' = round /\ intent \in Intent
  BY DEF TypeOK, Round, DrainAutoPasses
<1>2. \E i \in {Promoted, Disarmed(Promoted, p)} : intent' \in {i, [i EXCEPT !.once = @ \ {p}]}
  BY DEF DrainAutoPasses
<1>3. PICK i \in {Promoted, Disarmed(Promoted, p)} : intent' \in {i, [i EXCEPT !.once = @ \ {p}]}
  BY <1>2
<1>4. Promoted \in Intent /\ i \in Intent
  BY <1>1, <1>3, PromotedType, DisarmedType
<1>5. /\ intent'.base = i.base /\ intent'.wbase = i.wbase /\ intent'.seen = i.seen
      /\ intent'.waiting = i.waiting
  BY <1>3, <1>4 DEF Intent
<1>6. /\ Promoted.base = [ q \in Player |-> Pruned(round,
           IF q = p /\ p \in intent.waiting THEN intent.wbase[p] ELSE intent.base[q]) ]
      /\ Promoted.wbase = [ q \in Player |->
           IF q = p THEN NoIds ELSE Pruned(round, intent.wbase[q]) ]
      /\ Promoted.seen = intent.seen /\ Promoted.waiting = intent.waiting \ {p}
  BY <1>1 DEF Promoted, Intent
<1>7. ASSUME NEW q \in Player
      PROVE  /\ \/ /\ i.seen[q] = intent.seen[q]
                   /\ \E ids \in Remembered(q) : i.base[q] = Pruned(round, ids)
                \/ i.base[q] = NoIds /\ i.seen[q] = 0 /\ i.wbase[q] = NoIds
             /\ i.wbase[q] \in {NoIds, Pruned(round, intent.wbase[q])}
             /\ q = p => i.wbase[q] = NoIds
             /\ q # p => i.wbase[q] = Pruned(round, intent.wbase[q])
             /\ i.waiting = intent.waiting \ {p}
  <2>1. /\ \E ids \in Remembered(q) : Promoted.base[q] = Pruned(round, ids)
        /\ Promoted.wbase[q] = IF q = p THEN NoIds ELSE Pruned(round, intent.wbase[q])
    BY <1>6 DEF Remembered
  <2>2. CASE i = Promoted
    BY <1>6, <2>1, <2>2
  <2>3. CASE i = Disarmed(Promoted, p)
    <3>1. /\ i.base = [Promoted.base EXCEPT ![p] = NoIds]
          /\ i.seen = [Promoted.seen EXCEPT ![p] = 0]
          /\ i.wbase = Promoted.wbase /\ i.waiting = Promoted.waiting
      BY <1>4, <2>3 DEF Disarmed, Intent
    <3>2. Promoted.base \in [Player -> [ObjectId -> Nat]] /\ Promoted.seen \in [Player -> Nat]
      BY <1>4 DEF Intent
    <3>3. CASE q = p
      BY <1>6, <2>1, <3>1, <3>2, <3>3
    <3>4. CASE q # p
      <4>1. i.base[q] = Promoted.base[q] /\ i.seen[q] = Promoted.seen[q]
        BY <3>1, <3>2, <3>4
      <4> QED
        BY <1>6, <2>1, <3>1, <3>4, <4>1
    <3> QED
      BY <3>3, <3>4
  <2> QED
    BY <1>3, <2>2, <2>3
<1>8. ASSUME NEW q \in Player
      PROVE  /\ i.seen[q] <= Len(round.stack)
             /\ \A ids \in {i.base[q], i.wbase[q]} :
                  Bare(round, ids, i.seen[q]) /\ Exact(round, ids, i.seen[q])
  <2>1. /\ intent.seen[q] \in Nat /\ intent.seen[q] <= Len(round.stack) /\ i.seen[q] \in Nat
        /\ Len(round.stack) \in Nat
    BY <1>1, <1>4, SparedNothing, LenProperties DEF SeenInv, Below, Intent, Round
  <2>2. Bare(round, NoIds, i.seen[q]) /\ Exact(round, NoIds, i.seen[q])
    BY <1>1, <2>1, NothingBare
  <2>3. ASSUME NEW ids \in Remembered(q)
        PROVE  /\ Bare(round, Pruned(round, ids), intent.seen[q])
               /\ Exact(round, Pruned(round, ids), intent.seen[q])
    <3>1. ids \in [ObjectId -> Nat] /\ Bare(round, ids, intent.seen[q])
      BY SparedNothing DEF SeenInv, AllBare
    <3> QED
      BY <1>1, <2>1, <3>1, PrunedExact
  <2>4. intent.wbase[q] \in Remembered(q)
    BY DEF Remembered
  <2>5. CASE i.seen[q] = intent.seen[q] /\ \E ids \in Remembered(q) : i.base[q] = Pruned(round, ids)
    BY <1>7, <2>1, <2>2, <2>3, <2>4, <2>5
  <2>6. CASE i.base[q] = NoIds /\ i.seen[q] = 0 /\ i.wbase[q] = NoIds
    BY <2>1, <2>2, <2>6
  <2> QED
    BY <1>7, <2>5, <2>6
<1>9. /\ Below(round, intent.seen)' /\ AllBare(round, intent.seen)'
      /\ AllExact(round, intent.seen)'
  BY <1>1, <1>5, <1>8 DEF Below, AllBare, AllExact, Remembered
<1>10. Spared' \subseteq Spared
  <2> SUFFICES ASSUME NEW j \in Id, NEW q \in Player, j \notin Spared
               PROVE  ~(i.base[q][j] + i.wbase[q][j] > 0)
    BY <1>5 DEF Spared
  <2>1. j \in ObjectId
    BY DEF ObjectId
  <2>2. \A ids \in Remembered(q) : Pruned(round, ids)[j] = 0
    BY <1>1, <2>1, SparedNothing, PrunedSpares
  <2>3. intent.wbase[q] \in Remembered(q) /\ NoIds[j] = 0
    BY <2>1 DEF Remembered, NoIds
  <2>4. i.base[q][j] = 0 /\ i.wbase[q][j] = 0
    BY <1>7, <2>2, <2>3
  <2> QED
    BY <2>4
<1>11. Apart(round)'
  BY <1>1, <1>10 DEF SeenInv, Apart
<1>12. ASSUME NEW q \in Player \ intent'.waiting
       PROVE  intent'.wbase[q] = NoIds
  <2>1. q = p \/ q \notin intent.waiting
    BY <1>5, <1>7
  <2>2. CASE q = p
    BY <1>5, <1>7, <2>2
  <2>3. CASE q # p
    <3>1. intent.wbase[q] = NoIds
      BY <2>1, <2>3 DEF SeenInv
    <3> QED
      BY <1>1, <1>5, <1>7, <2>3, <3>1, PrunedNothing
  <2> QED
    BY <2>2, <2>3
<1> QED
  BY <1>9, <1>11, <1>12 DEF SeenInv

(* The standing presses end with the turn.                                 *)
LEMMA TurnSeen ==
  ASSUME TypeOK, SeenInv, AdvanceTurn, TypeOK'
  PROVE  SeenInv'
<1>1. round' = round /\ round \in Round /\ intent \in Intent
  BY DEF AdvanceTurn, TypeOK
<1>2. Stale => Stale'
  BY <1>1 DEF AdvanceTurn, Stale
<1>3. CASE intent' = intent
  <2>1. Piles(round, round') /\ Unchanging
    BY <1>1, <1>3, GrantsPile DEF Unchanging
  <2> QED
    BY <1>2, <2>1, PilesSeen
<1>4. CASE intent' = TurnOver(intent)
  <2>1. /\ intent'.base = [q \in Player |-> NoIds] /\ intent'.wbase = intent.wbase
        /\ intent'.waiting = intent.waiting
        /\ intent'.seen = [q \in Player |-> IF q \in intent.waiting THEN intent.seen[q] ELSE 0]
    BY <1>1, <1>4 DEF TurnOver, Intent
  <2>2. ASSUME NEW q \in Player
        PROVE  /\ intent'.seen[q] <= Len(round.stack)
               /\ \A ids \in {intent'.base[q], intent'.wbase[q]} :
                    /\ Bare(round, ids, intent'.seen[q])
                    /\ AllExact(round, intent.seen) => Exact(round, ids, intent'.seen[q])
    <3>1. /\ intent.seen[q] \in Nat /\ intent.seen[q] <= Len(round.stack)
          /\ Len(round.stack) \in Nat
      BY <1>1, SparedNothing, LenProperties DEF SeenInv, Below, Round
    <3>2. \A n \in Nat : Bare(round, NoIds, n) /\ Exact(round, NoIds, n)
      BY <1>1, NothingBare
    <3>3. CASE q \in intent.waiting
      <4>1. Bare(round, intent.wbase[q], intent.seen[q])
        BY DEF SeenInv, AllBare, Remembered
      <4>2. AllExact(round, intent.seen) => Exact(round, intent.wbase[q], intent.seen[q])
        BY DEF AllExact, Remembered
      <4> QED
        BY <2>1, <3>1, <3>2, <3>3, <4>1, <4>2
    <3>4. CASE q \notin intent.waiting
      <4>1. intent.wbase[q] = NoIds
        BY <3>4 DEF SeenInv
      <4> QED
        BY <2>1, <3>1, <3>2, <3>4, <4>1
    <3> QED
      BY <3>3, <3>4
  <2>3. Below(round, intent.seen)' /\ AllBare(round, intent.seen)'
    BY <1>1, <2>2 DEF Below, AllBare, Remembered
  <2>4. AllExact(round, intent.seen) => AllExact(round, intent.seen)'
    BY <1>1, <2>2 DEF AllExact, Remembered
  <2>5. Spared' \subseteq Spared
    <3> SUFFICES ASSUME NEW j \in Id, NEW q \in Player, j \notin Spared
                 PROVE  ~(intent'.base[q][j] + intent'.wbase[q][j] > 0)
      BY DEF Spared
    <3>1. j \in ObjectId /\ intent.wbase[q] \in Remembered(q)
      BY DEF ObjectId, Remembered
    <3>2. intent.wbase[q][j] = 0
      BY <3>1, SparedNothing
    <3>3. NoIds[j] = 0
      BY <3>1 DEF NoIds
    <3> QED
      BY <2>1, <3>2, <3>3
  <2>6. Apart(round)'
    BY <1>1, <2>5 DEF SeenInv, Apart
  <2> QED
    BY <1>2, <2>1, <2>3, <2>4, <2>6 DEF SeenInv
<1> QED
  BY <1>3, <1>4 DEF AdvanceTurn

-----------------------------------------------------------------------------
(* What leaves the top of the stack.  A copy comes back in its place.      *)
LEMMA PopSeen ==
  ASSUME TypeOK, SeenInv, Resolving
  PROVE  LET i == Leaves(intent, Len(round.stack)) IN
         /\ i.base = intent.base /\ i.wbase = intent.wbase /\ i.waiting = intent.waiting
         /\ \A p \in Player :
              /\ i.seen[p] \in Nat /\ i.seen[p] <= Len(Popped(round).stack)
              /\ \A ids \in Remembered(p) : Bare(Popped(round), ids, i.seen[p])
<1> DEFINE n == Len(round.stack)
           r == Popped(round)
           i == Leaves(intent, n)
<1>1. round \in Round /\ round.stack \in Seq(Item) /\ round.stack # <<>> /\ intent \in Intent
  BY DEF TypeOK, Round, Resolving
<1>2. n \in Nat \ {0}
  BY <1>1, LenProperties, EmptySeq
<1>3. r \in Round /\ r.stack = SubSeq(round.stack, 1, n - 1)
  BY <1>1, PoppedType DEF Popped, Round
<1>4. /\ Len(r.stack) = n - 1 /\ DOMAIN r.stack = 1..(n - 1)
      /\ \A k \in 1..(n - 1) : r.stack[k] = round.stack[k]
  BY <1>1, <1>2, <1>3
<1>5. DOMAIN round.stack = 1..n
  BY <1>1, LenProperties
<1>6. /\ i.base = intent.base /\ i.wbase = intent.wbase /\ i.waiting = intent.waiting
      /\ \A p \in Player :
           i.seen[p] = IF intent.seen[p] >= n THEN intent.seen[p] - 1 ELSE intent.seen[p]
  BY <1>1 DEF Leaves, Intent
<1>7. ASSUME NEW p \in Player
      PROVE  /\ intent.seen[p] \in Nat /\ intent.seen[p] <= n
             /\ \A ids \in Remembered(p) : Bare(round, ids, intent.seen[p])
  BY SparedNothing DEF SeenInv, Below, AllBare
<1> HIDE DEF n, r, i
<1>8. ASSUME NEW p \in Player
      PROVE  /\ i.seen[p] \in Nat /\ i.seen[p] <= n - 1
             /\ i.seen[p] = n - 1 \/ i.seen[p] = intent.seen[p]
  BY <1>2, <1>6, <1>7
<1>9. ASSUME NEW p \in Player, NEW ids \in Remembered(p), NEW k \in DOMAIN r.stack,
             k > i.seen[p]
      PROVE  /\ r.stack[k].id \in Id => ids[r.stack[k].id] = 0
             /\ r.stack[k].id \in Card => ids[r.stack[k].id] <= Times(r, i.seen[p], r.stack[k].id)
  <2>1. i.seen[p] = intent.seen[p] /\ k \in 1..n /\ r.stack[k] = round.stack[k]
    BY <1>2, <1>4, <1>8, <1>9
  <2>2. \A c : Times(round, i.seen[p], c) = Times(r, i.seen[p], c)
    <3>1. \A j \in DOMAIN r.stack : round.stack[j].id = r.stack[j].id
      BY <1>4
    <3>2. i.seen[p] \in Nat /\ i.seen[p] <= Len(r.stack)
      BY <1>4, <1>8
    <3> QED
      BY <1>3, <3>1, <3>2, TimesPrefix
  <2> QED
    BY <1>5, <1>7, <1>9, <2>1, <2>2 DEF Bare
<1>10. \A p \in Player : \A ids \in Remembered(p) : Bare(r, ids, i.seen[p])
  BY <1>9 DEF Bare
<1> QED
  BY <1>4, <1>6, <1>8, <1>10 DEF n, r, i

(* From a round whose objects are bare, triggers go on the stack, and the  *)
(* drain is next or somebody is asked for a target.                        *)
LEMMA PilesStale ==
  ASSUME TypeOK, NEW r \in Round, Piles(r, round'), Apart(r), Stale',
         intent'.base = intent.base, intent'.wbase = intent.wbase,
         intent'.waiting = intent.waiting, SeenInv,
         \A p \in Player : /\ intent'.seen[p] \in Nat /\ intent'.seen[p] <= Len(r.stack)
                           /\ \A ids \in Remembered(p) : Bare(r, ids, intent'.seen[p])
  PROVE  SeenInv'
<1>1. Spared' = Spared /\ \A p : Remembered(p)' = Remembered(p)
  BY DEF Spared, Remembered
<1>2. ASSUME NEW p \in Player, NEW ids \in Remembered(p)
      PROVE  intent'.seen[p] <= Len(round'.stack) /\ Bare(round', ids, intent'.seen[p])
  <2>1. ids \in [ObjectId -> Nat] /\ \A j \in Id \ Spared : ids[j] = 0
    BY SparedNothing
  <2> QED
    BY <2>1, PilesKeep
<1>3. \A p : intent.base[p] \in Remembered(p)
  BY DEF Remembered
<1>4. Below(round, intent.seen)' /\ AllBare(round, intent.seen)'
  BY <1>1, <1>2, <1>3 DEF Below, AllBare
<1>5. Apart(round)'
  BY <1>1 DEF Piles, Apart
<1>6. \A p \in Player \ intent'.waiting : intent'.wbase[p] = NoIds
  BY DEF SeenInv
<1> QED
  BY <1>4, <1>5, <1>6 DEF SeenInv

LEMMA ResolvedSeen ==
  ASSUME Unordered("resolve"), TypeOK, InputInv, SeenInv, Resolving, NEW r \in Round,
         r.choices = round.choices, Piles(Popped(round), r),
         NEW w, NEW c, NEW b, Resolved(r, w, c, b)
  PROVE  SeenInv'
<1>1. PICK s \in Place("resolve", r) : ThenHandOn(s)
  BY DEF Resolved
<1>2. s.choices = <<>> /\ s \in Round
  <2>1. s.choices = r.choices /\ s \in Round
    BY <1>1, UnorderedPlaced, PlaceType DEF Source
  <2> QED
    BY <2>1 DEF InputInv, Settled, OwesInput, Resolving
<1>3. round' = HandPriorityOn(s, active) /\ Piles(s, round')
  BY <1>1, <1>2, GrantsPile DEF ThenHandOn
<1>4. Piles(r, s)
  BY <1>1, PlacePiles DEF Source
<1>5. Piles(Popped(round), round')
  BY <1>3, <1>4, PilesOn
<1>6. Stale'
  <2>1. CASE s.target # {}
    BY <1>3, <2>1 DEF Piles, Stale
  <2>2. CASE s.target = {}
    <3>1. Goto("drain") \/ Goto("settle")
      BY <1>1, <1>2, <2>2 DEF ThenHandOn, OwesInput
    <3> QED
      BY <3>1, GotoAt DEF Stale
  <2> QED
    BY <2>1, <2>2
<1>7. Apart(Popped(round)) /\ Popped(round) \in Round
  <2>1. Popped(round) \in Round /\ Popped(round).batch = round.batch
        /\ Popped(round).stack = SubSeq(round.stack, 1, Len(round.stack) - 1)
    BY PoppedType DEF Popped, Round, TypeOK
  <2>2. round.stack \in Seq(Item) /\ Len(round.stack) \in Nat
    BY LenProperties DEF TypeOK, Round
  <2>3. \A k \in DOMAIN Popped(round).stack :
          k \in DOMAIN round.stack /\ Popped(round).stack[k] = round.stack[k]
    BY <2>1, <2>2
  <2>4. StackIds(Popped(round)) \subseteq StackIds(round)
    BY <2>3 DEF StackIds
  <2> QED
    BY <2>1, <2>4 DEF SeenInv, Apart
<1>8. intent' = Leaves(intent, Len(round.stack))
  BY DEF Resolved
<1> QED
  BY <1>5, <1>6, <1>7, <1>8, PopSeen, PilesStale

LEMMA ResolveSeen ==
  ASSUME Unordered("resolve"), TypeOK, InputInv, SeenInv,
         ResolveTopOfStack \/ ResolveWithRetarget
  PROVE  SeenInv'
<1>1. Resolving /\ round \in Round
  BY DEF ResolveTopOfStack, ResolveWithRetarget, TypeOK
<1>2. /\ Popped(round) \in Round /\ Popped(round).choices = round.choices
      /\ Popped(round).batch = round.batch /\ Popped(round).target = round.target
  BY <1>1, PoppedType DEF Popped, Round
<1>3. CASE ResolveTopOfStack
  <2>1. \E w, c, b : Resolved(Popped(round), w, c, b)
    BY <1>3 DEF ResolveTopOfStack
  <2>2. Piles(Popped(round), Popped(round))
    BY <1>2, GrantsPile
  <2> QED
    BY <1>1, <1>2, <2>1, <2>2, ResolvedSeen
<1>4. CASE ResolveWithRetarget
  <2>1. PICK s \in FreshIds(Id \ (UsedIds(round) \cup Spared), 1) :
          Resolved([Popped(round) EXCEPT
                      !.stack = Append(@, [id |-> s[1], by |-> Top(round).by, needs |-> FALSE]),
                      !.target = { [kind |-> "retarget", by |-> Top(round).by, id |-> s[1]] }],
                   owed, combat, board)
    BY <1>4 DEF ResolveWithRetarget
  <2> DEFINE copy == [id |-> s[1], by |-> Top(round).by, needs |-> FALSE]
             offer == [kind |-> "retarget", by |-> Top(round).by, id |-> s[1]]
             r == [Popped(round) EXCEPT !.stack = Append(@, copy), !.target = {offer}]
  <2>2. r \in Round /\ Resolved(r, owed, combat, board)
    BY <1>1, <2>1, OfferType
  <2>3. /\ r.choices = round.choices /\ r.batch = Popped(round).batch /\ r.target # {}
        /\ r.stack = Append(Popped(round).stack, copy)
    BY <1>2 DEF Round
  <2>4. copy.id \in Id \ (UsedIds(round) \cup Spared)
    BY DEF FreshIds
  <2>5. Popped(round).stack \in Seq(Item) /\ copy \in Item
    <3>1. Top(round).by \in Player
      BY <1>1, TopType, ItemFields DEF Resolving
    <3> QED
      BY <1>2, <2>4, <3>1 DEF Round, Item, Trigger
  <2> HIDE DEF copy, offer, r
  <2>6. /\ \A k \in DOMAIN Popped(round).stack :
             k \in DOMAIN r.stack /\ r.stack[k] = Popped(round).stack[k]
        /\ \A k \in DOMAIN r.stack \ DOMAIN Popped(round).stack : r.stack[k] = copy
    BY <2>3, <2>5, AppendProperties, LenProperties
  <2>7. StackIds(r) \subseteq StackIds(Popped(round)) \cup {copy.id}
    BY <2>6 DEF StackIds
  <2>8. Apart(Popped(round)) => Apart(r)
    BY <1>2, <2>3, <2>4, <2>7 DEF Apart, UsedIds
  <2>9. Piles(Popped(round), r)
    BY <2>2, <2>3, <2>4, <2>6, <2>8 DEF Piles
  <2> QED
    BY <1>1, <2>2, <2>3, <2>9, ResolvedSeen
<1> QED
  BY <1>3, <1>4

LEMMA EngineSeen ==
  ASSUME Unordered("resolve"), TypeOK, InputInv, SeenInv, EngineStep, TypeOK'
  PROVE  SeenInv'
BY PilingSeen, DrainSeen, TurnSeen, ResolveSeen DEF EngineStep

-----------------------------------------------------------------------------
(* A trigger that is declined leaves from the middle of the stack.         *)
LEMMA WithdrawnAt ==
  ASSUME NEW r \in Round, NEW id, NEW k \in Places(r, id)
  PROVE  /\ k \in 1..Len(r.stack) /\ Len(r.stack) \in Nat /\ r.stack[k].id = id
         /\ Len(Withdrawn(r, k).stack) = Len(r.stack) - 1
         /\ DOMAIN Withdrawn(r, k).stack = 1..(Len(r.stack) - 1)
         /\ \A j \in 1..(Len(r.stack) - 1) :
              Withdrawn(r, k).stack[j] = r.stack[IF j < k THEN j ELSE j + 1]
<1> DEFINE s == r.stack
           n == Len(s)
           below == SubSeq(s, 1, k - 1)
           above == SubSeq(s, k + 1, n)
<1>1. s \in Seq(Item) /\ n \in Nat /\ DOMAIN s = 1..n
  BY LenProperties DEF Round
<1>2. k \in 1..n /\ s[k].id = id
  BY <1>1 DEF Places
<1>3. Withdrawn(r, k).stack = below \o above
  BY DEF Withdrawn, RemoveAt, Round
<1> HIDE DEF s, n
<1>4. /\ below \in Seq(Item) /\ Len(below) = k - 1 /\ \A j \in 1..(k - 1) : below[j] = s[j]
      /\ above \in Seq(Item) /\ Len(above) = n - k /\ \A j \in 1..(n - k) : above[j] = s[k + j]
  <2>1. k - 1 \in Int /\ k + 1 \in Int /\ n \in Int /\ 1 \in Int
    BY <1>1, <1>2
  <2>2. \A j \in 1..n : s[j] \in Item
    BY <1>1, ElementOfSeq DEF n
  <2>3. \A j \in 1..(k - 1) : s[j] \in Item
    BY <1>1, <1>2, <2>2
  <2>4. \A j \in (k + 1)..n : s[j] \in Item
    BY <1>1, <1>2, <2>2
  <2>5. /\ below \in Seq(Item) /\ Len(below) = IF 1 <= k - 1 THEN (k - 1) - 1 + 1 ELSE 0
        /\ \A j \in 1..((k - 1) - 1 + 1) : below[j] = s[1 + j - 1]
    BY <2>1, <2>3, SubSeqProperties
  <2>6. /\ above \in Seq(Item) /\ Len(above) = IF k + 1 <= n THEN n - (k + 1) + 1 ELSE 0
        /\ \A j \in 1..(n - (k + 1) + 1) : above[j] = s[(k + 1) + j - 1]
    BY <2>1, <2>4, SubSeqProperties
  <2> HIDE DEF below, above
  <2>7. Len(below) = k - 1 /\ Len(above) = n - k
    BY <1>1, <1>2, <2>5, <2>6
  <2>8. \A j \in 1..(k - 1) : below[j] = s[j]
    <3> SUFFICES ASSUME NEW j \in 1..(k - 1)
                 PROVE  below[j] = s[j]
      OBVIOUS
    <3>1. j \in 1..((k - 1) - 1 + 1) /\ 1 + j - 1 = j
      BY <1>1, <1>2
    <3> QED
      BY <2>5, <3>1
  <2>9. \A j \in 1..(n - k) : above[j] = s[k + j]
    <3> SUFFICES ASSUME NEW j \in 1..(n - k)
                 PROVE  above[j] = s[k + j]
      OBVIOUS
    <3>1. j \in 1..(n - (k + 1) + 1) /\ (k + 1) + j - 1 = k + j
      BY <1>1, <1>2
    <3> QED
      BY <2>6, <3>1
  <2> QED
    BY <2>5, <2>6, <2>7, <2>8, <2>9
<1> HIDE DEF below, above
<1>5. /\ below \o above \in Seq(Item) /\ Len(below \o above) = n - 1
      /\ \A j \in 1..(n - 1) : (below \o above)[j] =
           IF j <= Len(below) THEN below[j] ELSE above[j - Len(below)]
  <2>1. /\ below \o above \in Seq(Item) /\ Len(below \o above) = Len(below) + Len(above)
        /\ \A j \in 1..(Len(below) + Len(above)) : (below \o above)[j] =
             IF j <= Len(below) THEN below[j] ELSE above[j - Len(below)]
    BY <1>4, ConcatProperties
  <2>2. Len(below) + Len(above) = n - 1
    BY <1>1, <1>2, <1>4
  <2> QED
    BY <2>1, <2>2
<1>6. ASSUME NEW j \in 1..(n - 1)
      PROVE  (below \o above)[j] = s[IF j < k THEN j ELSE j + 1]
  <2>1. CASE j < k
    <3>1. j <= Len(below) /\ j \in 1..(k - 1)
      BY <1>1, <1>2, <1>4, <2>1
    <3> QED
      BY <1>4, <1>5, <2>1, <3>1
  <2>2. CASE ~(j < k)
    <3>1. ~(j <= Len(below)) /\ j - Len(below) \in 1..(n - k) /\ k + (j - Len(below)) = j + 1
      BY <1>1, <1>2, <1>4, <2>2
    <3> QED
      BY <1>4, <1>5, <2>2, <3>1
  <2> QED
    BY <2>1, <2>2
<1>7. DOMAIN (below \o above) = 1..(n - 1)
  BY <1>5, LenProperties
<1> QED
  BY <1>1, <1>2, <1>3, <1>5, <1>6, <1>7 DEF n, s

(* Of an id that is not its own as many objects are left as there were.    *)
LEMMA WithdrawnTimes ==
  ASSUME NEW r \in Round, NEW id, NEW k \in Places(r, id), NEW c, c # id,
         NEW n \in Nat, n <= Len(r.stack)
  PROVE  Times(r, n, c) <= Times(Withdrawn(r, k), IF n >= k THEN n - 1 ELSE n, c)
<1> DEFINE w == Withdrawn(r, k)
           m == IF n >= k THEN n - 1 ELSE n
           len == Len(r.stack)
           few == { i \in 1..n : r.stack[i].id = c }
           many == { i \in 1..m : w.stack[i].id = c }
           f == [ i \in few |-> IF i < k THEN i ELSE i - 1 ]
<1>1. /\ k \in 1..len /\ len \in Nat /\ r.stack[k].id # c /\ n <= len
      /\ \A j \in 1..(len - 1) : w.stack[j] = r.stack[IF j < k THEN j ELSE j + 1]
  <2>1. /\ k \in 1..len /\ len \in Nat /\ r.stack[k].id = id
        /\ \A j \in 1..(len - 1) : w.stack[j] = r.stack[IF j < k THEN j ELSE j + 1]
    BY WithdrawnAt
  <2>2. n <= len
    OBVIOUS
  <2> QED
    BY <2>1, <2>2
<1>2. Times(r, n, c) = Cardinality(few) /\ Times(w, m, c) = Cardinality(many)
  BY DEF Times
<1> HIDE DEF w, len
<1>3. m \in Nat
  BY <1>1
<1>4. ASSUME NEW i \in few
      PROVE  f[i] \in many
  <2>1. i \in 1..n /\ i # k /\ r.stack[i].id = c
    BY <1>1
  <2>2. CASE i < k
    <3>1. i \in 1..m /\ i \in 1..(len - 1)
      BY <1>1, <2>1, <2>2
    <3>2. w.stack[i] = r.stack[i]
      BY <1>1, <2>2, <3>1
    <3> QED
      BY <2>1, <2>2, <3>1, <3>2
  <2>3. CASE i > k
    <3>1. i - 1 \in 1..m /\ i - 1 \in 1..(len - 1) /\ ~(i - 1 < k) /\ (i - 1) + 1 = i /\ ~(i < k)
      BY <1>1, <2>1, <2>3
    <3>2. w.stack[i - 1] = r.stack[i]
      BY <1>1, <3>1
    <3> QED
      BY <2>1, <3>1, <3>2
  <2> QED
    BY <1>1, <2>1, <2>2, <2>3
<1>5. ASSUME NEW i \in few, NEW j \in few, f[i] = f[j]
      PROVE  i = j
  <2>1. i \in Nat /\ j \in Nat /\ i # k /\ j # k /\ k \in Nat
    BY <1>1
  <2>2. (IF i < k THEN i ELSE i - 1) = (IF j < k THEN j ELSE j - 1)
    BY <1>5
  <2> HIDE DEF few
  <2> QED
    BY <2>1, <2>2
<1>6. IsFiniteSet(many)
  <2>1. IsFiniteSet(1..m) /\ many \in SUBSET (1..m)
    BY <1>3, FS_Interval
  <2> HIDE DEF many
  <2> QED
    BY <2>1, FS_Subset
<1>7. f \in [few -> many]
  BY <1>4
<1>8. f \in Injection(few, many)
  BY <1>5, <1>7 DEF Injection, IsInjective
<1> HIDE DEF few, many, f, m
<1>9. Cardinality(few) <= Cardinality(many)
  BY <1>6, <1>8, FS_Injection
<1> QED
  BY <1>2, <1>9 DEF w, m

LEMMA DeclineSeen ==
  ASSUME TypeOK, SeenInv, NEW id \in Id, NEW k \in Places(round, id)
  PROVE  LET i == Leaves(intent, k) IN
         /\ i.base = intent.base /\ i.wbase = intent.wbase /\ i.waiting = intent.waiting
         /\ \A p \in Player :
              /\ i.seen[p] \in Nat /\ i.seen[p] <= Len(Withdrawn(round, k).stack)
              /\ \A ids \in Remembered(p) : Bare(Withdrawn(round, k), ids, i.seen[p])
<1> DEFINE n == Len(round.stack)
           w == Withdrawn(round, k)
           i == Leaves(intent, k)
<1>1. round \in Round /\ intent \in Intent /\ w \in Round
  BY WithdrawnType DEF TypeOK
<1>2. /\ k \in 1..n /\ n \in Nat /\ Len(w.stack) = n - 1 /\ DOMAIN w.stack = 1..(n - 1)
      /\ \A j \in 1..(n - 1) : w.stack[j] = round.stack[IF j < k THEN j ELSE j + 1]
  BY <1>1, WithdrawnAt
<1>3. /\ i.base = intent.base /\ i.wbase = intent.wbase /\ i.waiting = intent.waiting
      /\ \A p \in Player :
           i.seen[p] = IF intent.seen[p] >= k THEN intent.seen[p] - 1 ELSE intent.seen[p]
  BY <1>1 DEF Leaves, Intent
<1>4. DOMAIN round.stack = 1..n
  BY <1>1, LenProperties
<1>5. ASSUME NEW p \in Player
      PROVE  /\ intent.seen[p] \in Nat /\ intent.seen[p] <= n
             /\ \A ids \in Remembered(p) : Bare(round, ids, intent.seen[p])
  BY SparedNothing DEF SeenInv, Below, AllBare
<1>6. \A p \in Player : \A c : c # id =>
        Times(round, intent.seen[p], c) <= Times(w, i.seen[p], c)
  BY <1>1, <1>3, <1>5, WithdrawnTimes
<1>7. \A m \in Nat : \A c : Times(round, m, c) \in Nat /\ Times(w, m, c) \in Nat
  BY <1>1, TimesType
<1>13. \A p \in Player : \A ids \in Remembered(p) : ids \in [ObjectId -> Nat]
  BY SparedNothing
<1> HIDE DEF n, w, i
<1>8. ASSUME NEW p \in Player
      PROVE  i.seen[p] \in Nat /\ i.seen[p] <= n - 1
  BY <1>2, <1>3, <1>5
<1>9. ASSUME NEW p \in Player, NEW ids \in Remembered(p), NEW j \in DOMAIN w.stack,
             j > i.seen[p]
      PROVE  /\ w.stack[j].id \in Id => ids[w.stack[j].id] = 0
             /\ w.stack[j].id \in Card => ids[w.stack[j].id] <= Times(w, i.seen[p], w.stack[j].id)
  <2> DEFINE l == IF j < k THEN j ELSE j + 1
  <2>1. l \in 1..n /\ l > intent.seen[p] /\ w.stack[j] = round.stack[l]
    <3>1. j \in 1..(n - 1)
      BY <1>2
    <3>2. w.stack[j] = round.stack[l]
      BY <1>2, <3>1
    <3> HIDE DEF l
    <3>3. l = IF j < k THEN j ELSE j + 1
      BY DEF l
    <3>4. l \in 1..n /\ l > intent.seen[p]
      BY <1>2, <1>3, <1>5, <1>9, <3>1, <3>3
    <3> QED
      BY <3>2, <3>4
  <2> HIDE DEF l
  <2>2. /\ round.stack[l].id \in Id => ids[round.stack[l].id] = 0
        /\ round.stack[l].id \in Card =>
             ids[round.stack[l].id] <= Times(round, intent.seen[p], round.stack[l].id)
    BY <1>4, <1>5, <2>1 DEF Bare
  <2>3. ASSUME NEW c \in Card, c = round.stack[l].id
        PROVE  ids[c] <= Times(w, i.seen[p], c)
    <3>1. c # id /\ c \in ObjectId
      BY CardAssumption DEF ObjectId
    <3>2. ids[c] \in Nat
      BY <1>13, <3>1
    <3>3. ids[c] <= Times(round, intent.seen[p], c)
      BY <2>2, <2>3
    <3>4. Times(round, intent.seen[p], c) <= Times(w, i.seen[p], c)
      BY <1>6, <3>1
    <3>5. Times(round, intent.seen[p], c) \in Nat /\ Times(w, i.seen[p], c) \in Nat
      BY <1>5, <1>7, <1>8
    <3> QED
      BY <3>2, <3>3, <3>4, <3>5
  <2> QED
    BY <2>1, <2>2, <2>3
<1>10. \A p \in Player : \A ids \in Remembered(p) : Bare(w, ids, i.seen[p])
  BY <1>9 DEF Bare
<1> QED
  BY <1>2, <1>3, <1>8, <1>10 DEF n, w, i

LEMMA LandPiles ==
  ASSUME TypeOK, NEW r \in Round
  PROVE  Land(r, active).stack = r.stack /\ Piles(r, Land(r, active))
<1>1. Land(r, active) \in Round
  BY LandType DEF TypeOK
<1> QED
  BY <1>1, LandKeeps, LandAsks, PilesNothing

LEMMA LandTargetStale ==
  ASSUME TypeOK, NEW r \in Round, LandTarget(r)
  PROVE  Stale'
<1>1. CASE Unannounced(r.stack) # {}
  <2>1. RaiseTarget(r).target = { [kind |-> "trigger", by |-> r.stack[j].by, id |-> r.stack[j].id]
                                  : j \in Unannounced(r.stack) }
    BY DEF RaiseTarget, Round
  <2>2. RaiseTarget(r).target # {}
    BY <1>1, <2>1
  <2> QED
    BY <1>1, <2>2 DEF LandTarget, Land, Stale
<1>2. CASE Unannounced(r.stack) = {}
  BY <1>2, BeginAt DEF LandTarget, Stale
<1> QED
  BY <1>1, <1>2

LEMMA SeenBare ==
  ASSUME TypeOK, SeenInv
  PROVE  \A p \in Player : /\ intent.seen[p] \in Nat /\ intent.seen[p] <= Len(round.stack)
                           /\ \A ids \in Remembered(p) : Bare(round, ids, intent.seen[p])
BY SparedNothing DEF SeenInv, Below, AllBare

LEMMA SameBare ==
  ASSUME NEW r, NEW s, s.stack = r.stack, NEW ids, NEW n, Bare(r, ids, n)
  PROVE  Bare(s, ids, n)
<1>1. \A i : Times(s, n, i) = Times(r, n, i)
  BY DEF Times
<1> QED
  BY <1>1 DEF Bare

LEMMA TargetsSeen ==
  ASSUME TypeOK, SeenInv, NEW p \in Player, ChooseTarget(p) \/ DeclineTarget(p) \/ Retarget(p)
  PROVE  SeenInv'
<1>1. round \in Round /\ active \in Player
  BY DEF TypeOK
<1>2. CASE ChooseTarget(p)
  <2>1. PICK t \in Chosen("trigger", p) : LandTarget(Announced(round, t.id))
    BY <1>2 DEF ChooseTarget
  <2> DEFINE r == Announced(round, t.id)
             asked == [round EXCEPT !.target = {}]
  <2>2. r \in Round
    BY <1>1, AnnouncedType
  <2>3. /\ DOMAIN r.stack = DOMAIN round.stack /\ r.batch = round.batch
        /\ \A k \in DOMAIN round.stack : r.stack[k].id = round.stack[k].id
    <3>1. r.stack = [ k \in DOMAIN round.stack |-> IF round.stack[k].id = t.id
                        THEN [round.stack[k] EXCEPT !.needs = FALSE] ELSE round.stack[k] ]
      BY <1>1 DEF Announced, Round
    <3>2. r.batch = round.batch
      BY <1>1 DEF Announced, Round
    <3>3. \A k \in DOMAIN round.stack : round.stack[k] \in Item
      BY <1>1, ElementOfSeq, LenProperties DEF Round
    <3>4. \A k \in DOMAIN round.stack : [round.stack[k] EXCEPT !.needs = FALSE].id = round.stack[k].id
      BY <3>3 DEF Item, Trigger
    <3> HIDE DEF r
    <3> QED
      BY <3>1, <3>2, <3>4
  <2>4. /\ asked \in Round /\ asked.stack = round.stack /\ asked.batch = round.batch
        /\ asked.target = {}
    BY <1>1 DEF Round
  <2>5. round' = Land(r, active) /\ Stale'
    BY <2>1, <2>2, LandTargetStale DEF LandTarget
  <2> HIDE DEF r, asked
  <2>6. StackIds(r) = StackIds(asked)
    BY <2>3, <2>4 DEF StackIds
  <2>7. Piles(asked, r)
    BY <2>2, <2>3, <2>4, <2>6 DEF Piles, Apart
  <2>8. Piles(asked, round')
    BY <2>2, <2>5, <2>7, LandPiles, PilesOn
  <2>9. Apart(asked)
    BY <2>4 DEF SeenInv, Apart, StackIds
  <2>10. \A q \in Player : \A ids \in Remembered(q) : Bare(asked, ids, intent.seen[q])
    BY <2>4, SeenBare, SameBare
  <2>11. intent' = intent
    BY <1>2 DEF ChooseTarget
  <2> QED
    BY <2>4, <2>5, <2>8, <2>9, <2>10, <2>11, SeenBare, PilesStale
<1>3. CASE DeclineTarget(p)
  <2>1. PICK t \in Chosen("trigger", p) : \E k \in Places(round, t.id) :
          LandTarget(Withdrawn(round, k)) /\ intent' = Leaves(intent, k)
    BY <1>3 DEF DeclineTarget
  <2>2. PICK k \in Places(round, t.id) :
          LandTarget(Withdrawn(round, k)) /\ intent' = Leaves(intent, k)
    BY <2>1
  <2>3. t.id \in Id
    BY <1>1 DEF Chosen, Round, Target
  <2> DEFINE w == Withdrawn(round, k)
  <2>4. w \in Round /\ w.batch = round.batch
    BY <1>1, WithdrawnType DEF Withdrawn, Round
  <2>5. round' = Land(w, active) /\ Stale'
    BY <2>2, <2>4, LandTargetStale DEF LandTarget
  <2>6. Piles(w, round')
    BY <2>4, <2>5, LandPiles
  <2>7. StackIds(w) \subseteq StackIds(round)
    <3>1. /\ k \in 1..Len(round.stack) /\ Len(round.stack) \in Nat
          /\ DOMAIN w.stack = 1..(Len(round.stack) - 1)
          /\ \A j \in 1..(Len(round.stack) - 1) :
               w.stack[j] = round.stack[IF j < k THEN j ELSE j + 1]
      BY <1>1, WithdrawnAt
    <3>2. DOMAIN round.stack = 1..Len(round.stack)
      BY <1>1, LenProperties DEF Round
    <3> DEFINE n == Len(round.stack)
    <3> HIDE DEF n, w
    <3>3. ASSUME NEW j \in DOMAIN w.stack
          PROVE  w.stack[j].id \in StackIds(round)
      <4>1. j \in 1..(n - 1) /\ n \in Nat /\ k \in 1..n
        BY <3>1 DEF n
      <4>2. (IF j < k THEN j ELSE j + 1) \in 1..n
        BY <4>1
      <4>3. w.stack[j] = round.stack[IF j < k THEN j ELSE j + 1]
        BY <3>1, <4>1 DEF n
      <4> QED
        BY <3>2, <4>2, <4>3 DEF StackIds, n
    <3> QED
      BY <3>3 DEF StackIds
  <2>8. Apart(w)
    BY <2>4, <2>7 DEF SeenInv, Apart
  <2>9. LET i == Leaves(intent, k) IN
        /\ i.base = intent.base /\ i.wbase = intent.wbase /\ i.waiting = intent.waiting
        /\ \A q \in Player :
             /\ i.seen[q] \in Nat /\ i.seen[q] <= Len(w.stack)
             /\ \A ids \in Remembered(q) : Bare(w, ids, i.seen[q])
    BY <2>3, DeclineSeen
  <2> HIDE DEF w
  <2> QED
    BY <2>2, <2>4, <2>5, <2>6, <2>8, <2>9, PilesStale
<1>4. CASE Retarget(p)
  <2> DEFINE asked == [round EXCEPT !.target = {}]
  <2>1. /\ asked \in Round /\ asked.stack = round.stack /\ asked.batch = round.batch
        /\ asked.target = {}
    BY <1>1 DEF Round
  <2>2. round' \in Place("resolve", Grant(asked, active))
    BY <1>4 DEF Retarget
  <2> HIDE DEF asked
  <2>3. Grant(asked, active) \in Round /\ Piles(asked, Grant(asked, active))
    BY <1>1, <2>1, GrantType, GrantsPile
  <2>4. Piles(asked, round')
    BY <2>2, <2>3, PlacePiles, PilesOn DEF Source
  <2>5. Apart(asked)
    BY <2>1 DEF SeenInv, Apart, StackIds
  <2>6. \A q \in Player : \A ids \in Remembered(q) : Bare(asked, ids, intent.seen[q])
    BY <2>1, SeenBare, SameBare
  <2>7. intent' = intent /\ Stale'
    BY <1>4, BeginAt DEF Retarget, Stale
  <2> QED
    BY <2>1, <2>4, <2>5, <2>6, <2>7, SeenBare, PilesStale
<1> QED
  BY <1>2, <1>3, <1>4

-----------------------------------------------------------------------------
(* The other mutations.                                                    *)
LEMMA Moving ==
  ASSUME NEW p \in Player, Mutation(p)
  PROVE  ctl.at = "rest" /\ ~over
<1>1. CASE ConfirmAttackers(p) \/ PayAttackTax(p)
  BY <1>1 DEF ConfirmAttackers, PayAttackTax, ChargeTaxes, FinalizeConfirmAttackers, Park, Begin
<1>2. CASE ~(ConfirmAttackers(p) \/ PayAttackTax(p))
  BY <1>2 DEF Mutation, PassPriority, EndTurn, PassUntilAction, CancelAutoPass, Concede, Cast,
       AnswerResolution, AnswerOrder, AnswerLegend, AnswerUntap, AnswerDraw, AnswerCleanup,
       Answers, ChooseTarget, DeclineTarget, Retarget, LandTarget, Queues, Presses,
       ToggleAttacker, CancelAttackTax, ConfirmBlockers, ConfirmDamage, Begin
<1> QED
  BY <1>1, <1>2

LEMMA KeepsOn ==
  ASSUME TypeOK, SeenInv, NEW p \in Player, Mutation(p), Piles(round, round'), Unchanging
  PROVE  SeenInv'
<1>1. Stale => Stale'
  BY Moving DEF Stale, Piles
<1> QED
  BY <1>1, PilesSeen

LEMMA PassesSeen ==
  ASSUME TypeOK, SeenInv, NEW p \in Player,
         \/ PassPriority(p) \/ EndTurn(p) \/ Concede(p) \/ ToggleAttacker(p) \/ CancelAttackTax(p)
  PROVE  SeenInv'
<1>1. round \in Round /\ intent \in Intent /\ Piles(round, round)
  BY GrantsPile DEF TypeOK
<1>2. CASE PassPriority(p)
  <2>1. round' \in Round
    BY <1>2, PassPriorityType DEF TypeOK
  <2>2. round'.stack = round.stack /\ round'.batch = round.batch /\ round'.target = round.target
    BY <1>1, <1>2 DEF PassPriority, Round
  <2>3. Piles(round, round') /\ intent' = intent
    BY <1>2, <2>1, <2>2, PilesNothing DEF PassPriority
  <2> QED
    BY <1>2, <2>3, KeepsOn DEF Mutation, Unchanging
<1>3. CASE EndTurn(p)
  <2>1. round' = round /\ Unchanging
    BY <1>1, <1>3 DEF EndTurn, Unchanging, Intent
  <2> QED
    BY <1>1, <1>3, <2>1, KeepsOn DEF Mutation
<1>4. CASE Concede(p) \/ ToggleAttacker(p) \/ CancelAttackTax(p)
  <2>1. round' = round /\ Unchanging
    BY <1>4 DEF Concede, ToggleAttacker, CancelAttackTax, Unchanging
  <2> QED
    BY <1>1, <1>4, <2>1, KeepsOn DEF Mutation
<1> QED
  BY <1>2, <1>3, <1>4

LEMMA AnswersSeen ==
  ASSUME TypeOK, SeenInv, NEW p \in Player,
         \/ AnswerResolution(p) \/ AnswerLegend(p) \/ AnswerUntap(p) \/ AnswerDraw(p)
         \/ AnswerCleanup(p)
  PROVE  SeenInv'
<1> DEFINE r == [round EXCEPT !.choices = Tail(@)]
<1>1. /\ round \in Round /\ round.choices # <<>> /\ active \in Player /\ Piles(round, round)
  BY GrantsPile
     DEF TypeOK, AnswerResolution, AnswerLegend, AnswerUntap, AnswerDraw, AnswerCleanup, Answers
<1>2. Piles(round, r) /\ r \in Round
  <2>1. r \in Round /\ r.stack = round.stack /\ r.batch = round.batch /\ r.target = round.target
    BY <1>1, TailType DEF Round
  <2> QED
    BY <2>1, PilesNothing
<1>3. Unchanging
  BY DEF AnswerResolution, AnswerLegend, AnswerUntap, AnswerDraw, AnswerCleanup, Unchanging
<1> SUFFICES Piles(round, round')
  BY <1>3, KeepsOn DEF Mutation
<1>4. CASE AnswerResolution(p)
  <2> DEFINE place == Min(Places(round, Head(round.choices).id))
             t == [round EXCEPT !.told = place]
  <2>1. round' \in Round /\ round' = Dequeued(t)
    BY <1>4, AnswersType DEF AnswerResolution, TypeOK
  <2>2. /\ Dequeued(t).stack = round.stack /\ Dequeued(t).batch = round.batch
        /\ Dequeued(t).target = round.target
    BY <1>1 DEF Dequeued, HeadChooser, Round
  <2> HIDE DEF t
  <2> QED
    BY <2>1, <2>2, PilesNothing
<1>5. CASE AnswerLegend(p)
  BY <1>2, <1>5 DEF AnswerLegend
<1> HIDE DEF r
<1>6. CASE AnswerUntap(p)
  <2>1. round' = round \/ round' \in Place("untap", r)
    BY <1>6 DEF AnswerUntap, r
  <2>2. CASE round' \in Place("untap", r)
    <3>1. Piles(r, round')
      BY <1>2, <2>2, PlacePiles DEF Source
    <3> QED
      BY <1>2, <3>1, PilesOn
  <2> QED
    BY <1>1, <2>1, <2>2
<1>7. CASE AnswerDraw(p)
  <2>1. PICK s \in Place("event", r) : round' \in {HeadChooser(s), Grant(s, active)}
    BY <1>7 DEF AnswerDraw, r
  <2>2. Piles(r, s) /\ s \in Round
    BY <1>2, PlacePiles, PlaceType DEF Source
  <2>3. Piles(s, round')
    BY <2>1, <2>2, GrantsPile
  <2> QED
    BY <1>2, <2>2, <2>3, PilesOn
<1>8. CASE AnswerCleanup(p)
  <2>1. PICK s \in Delayed(r) : \E t \in Place("event", s) : round' \in {t, Grant(t, active)}
    BY <1>8 DEF AnswerCleanup, r
  <2>2. PICK t \in Place("event", s) : round' \in {t, Grant(t, active)}
    BY <2>1
  <2>3. Piles(r, s) /\ s \in Round
    BY <1>2, DelayedPiles, DelayedType
  <2>4. Piles(s, t) /\ t \in Round
    BY <2>3, PlacePiles, PlaceType DEF Source
  <2>5. Piles(t, round')
    BY <2>2, <2>4, GrantsPile
  <2> QED
    BY <1>2, <2>3, <2>4, <2>5, PilesOn
<1> QED
  BY <1>4, <1>5, <1>6, <1>7, <1>8

LEMMA DeclarationsSeen ==
  ASSUME TypeOK, SeenInv, NEW p \in Player,
         ConfirmAttackers(p) \/ PayAttackTax(p) \/ ConfirmBlockers(p) \/ ConfirmDamage(p)
  PROVE  SeenInv'
<1>1. round \in Round /\ active \in Player
  BY DEF TypeOK
<1>2. Unchanging
  BY DEF ConfirmAttackers, PayAttackTax, ConfirmBlockers, ConfirmDamage, Unchanging
<1> DEFINE placed == UNION { Place(source, round) : source \in {"attack", "block", "damage"} }
<1>3. PICK r \in placed \cup {round} : round' \in {r, Grant(r, active)}
  <2>1. CASE ConfirmAttackers(p) \/ PayAttackTax(p)
    <3>1. \E c : ChargeTaxes(c)
      BY <2>1 DEF ConfirmAttackers, PayAttackTax
    <3>2. \/ round' = round
          \/ \E s \in Place("attack", round) \cup {round} : round' = Grant(s, active)
      BY <3>1 DEF ChargeTaxes, Park, FinalizeConfirmAttackers
    <3> QED
      BY <3>2
  <2>2. CASE ConfirmBlockers(p)
    BY <2>2 DEF ConfirmBlockers
  <2>3. CASE ConfirmDamage(p)
    BY <2>3 DEF ConfirmDamage
  <2> QED
    BY <2>1, <2>2, <2>3
<1>4. Piles(round, r) /\ r \in Round
  BY <1>1, <1>3, GrantsPile, PlacePiles, PlaceType DEF Source
<1> HIDE DEF placed
<1>5. Piles(r, round')
  BY <1>3, <1>4, GrantsPile
<1>6. Piles(round, round')
  BY <1>4, <1>5, PilesOn
<1> QED
  BY <1>2, <1>6, KeepsOn DEF Mutation

(* The order of a held batch, which lands with ids that no seat remembers. *)
LEMMA OrderSeen ==
  ASSUME TypeOK, SeenInv, NEW p \in Player, AnswerOrder(p)
  PROVE  SeenInv'
<1>1. /\ round \in Round /\ round.choices # <<>> /\ active \in Player
      /\ round.stack \in Seq(Item) /\ round.batch \in Batch /\ round.choices \in Seq(Choice)
  BY DEF TypeOK, AnswerOrder, Answers, Round, Batch
<1>2. PICK slice \in Orders(round.batch.of[p]) :
        LET b == [round.batch EXCEPT !.of[p] = slice]
            more == Rest(round) # <<>> /\ Head(Rest(round)).kind = "order"
        IN  IF more
            THEN /\ round' = Dequeued([round EXCEPT !.batch = b])
                 /\ Begin("sweep", "answer", TRUE)
            ELSE /\ round' = Land([round EXCEPT
                      !.choices = Tail(@), !.held = FALSE, !.batch = NoBatch(active),
                      !.stack = @ \o b.of[b.lead] \o b.of[Opponent(b.lead)]], active)
                 /\ Begin("recheck", "answer", TRUE)
  BY DEF AnswerOrder
<1> DEFINE b == [round.batch EXCEPT !.of[p] = slice]
           parked == [round EXCEPT !.batch = b]
           landed == [round EXCEPT
             !.choices = Tail(@), !.held = FALSE, !.batch = NoBatch(active),
             !.stack = @ \o b.of[b.lead] \o b.of[Opponent(b.lead)]]
<1>3. slice \in Seq(Trigger)
  BY <1>1, OrdersType DEF Batch
<1>4. b \in Batch /\ b.lead \in Player /\ BatchIds(b) = BatchIds(round.batch)
  <2>1. b \in Batch /\ b.lead \in Player
    BY <1>1, <1>3 DEF Batch
  <2>2. BatchIds(b) = BatchIds(round.batch)
    BY <1>1, Reordered
  <2> QED
    BY <2>1, <2>2
<1>5. round' = Dequeued(parked) \/ round' = Land(landed, active)
  BY <1>2
<1>6. round' \in Round
  BY AnswerOrderType DEF TypeOK
<1>9. Unchanging
  BY DEF AnswerOrder, Unchanging
<1> HIDE DEF b
<1>7. CASE round' = Dequeued(parked)
  <2>1. /\ round'.batch = b /\ round'.stack = round.stack /\ round'.target = round.target
    BY <1>1, <1>7 DEF Dequeued, HeadChooser, Round
  <2>2. StackIds(round') = StackIds(round)
    BY <2>1 DEF StackIds
  <2>3. Piles(round, round')
    BY <1>4, <1>6, <2>1, <2>2 DEF Piles, Apart
  <2> QED
    BY <1>9, <2>3, KeepsOn DEF Mutation
<1>8. CASE round' = Land(landed, active)
  <2>1. round.stack \o b.of[b.lead] \o b.of[Opponent(b.lead)] \in Seq(Item)
    BY <1>1, <1>4, OpponentIsOther, StackedType
  <2>2. Tail(round.choices) \in Seq(Choice) /\ NoBatch(active) \in Batch
    BY <1>1, HeadTailProperties, NoBatchType
  <2>3. /\ landed \in Round /\ landed.batch = NoBatch(active) /\ landed.target = round.target
        /\ landed.stack = round.stack \o b.of[b.lead] \o b.of[Opponent(b.lead)]
    BY <1>1, <2>1, <2>2 DEF Round
  <2> HIDE DEF landed
  <2>4. /\ round'.batch = NoBatch(active)
        /\ round'.stack = round.stack \o b.of[b.lead] \o b.of[Opponent(b.lead)]
        /\ round.target # {} => round'.target # {}
    BY <1>8, <2>3, LandKeeps, LandAsks
  <2>5. BatchIds(round'.batch) \subseteq BatchIds(round.batch) \ BatchIds(b)
    BY <2>4, NothingHeld
  <2>6. BatchIds(b) \cap Spared = {}
    BY <1>4 DEF SeenInv, Apart
  <2>7. Piles(round, round')
    BY <1>1, <1>4, <1>6, <2>4, <2>5, <2>6, OpponentIsOther, BatchPiles
  <2> QED
    BY <1>9, <2>7, KeepsOn DEF Mutation
<1> QED
  BY <1>5, <1>7, <1>8

(* What a card puts on the stack is not shielded, as nothing is stale when *)
(* its owner has priority.                                                 *)
LEMMA CastSeen ==
  ASSUME TypeOK, SeenInv, NEW p \in Player, NEW keep \in BOOLEAN, Cast(p, keep)
  PROVE  SeenInv'
<1>1. PICK c \in Card :
        round' \in Place("cast",
          [round EXCEPT !.stack = Append(@, [id |-> c, by |-> p, needs |-> FALSE]),
                        !.passes = 0, !.holder = Opponent(p)])
  BY DEF Cast
<1> DEFINE item == [id |-> c, by |-> p, needs |-> FALSE]
           cast == [round EXCEPT !.stack = Append(@, item),
                                 !.passes = 0, !.holder = Opponent(p)]
           n == Len(round.stack)
<1>2. item \in Item /\ item.id = c
  BY DEF Item
<1>3. round \in Round /\ round.stack \in Seq(Item) /\ Opponent(p) \in Player /\ intent \in Intent
  BY OpponentIsOther DEF TypeOK, Round
<1>4. round' \in Place("cast", cast)
  BY <1>1
<1> HIDE DEF item
<1>5. Append(round.stack, item) \in Seq(Item)
  BY <1>2, <1>3, AppendProperties
<1>6. /\ cast \in Round /\ cast.batch = round.batch
      /\ cast.stack = Append(round.stack, item)
  BY <1>3, <1>5 DEF Round
<1> HIDE DEF cast
<1>7. Piles(cast, round')
  BY <1>4, <1>6, PlacePiles DEF Source
<1>8. /\ n \in Nat /\ DOMAIN round.stack = 1..n /\ DOMAIN cast.stack = 1..(n + 1)
      /\ Len(cast.stack) = n + 1 /\ cast.stack[n + 1] = item
      /\ \A k \in 1..n : cast.stack[k] = round.stack[k]
  BY <1>2, <1>3, <1>6, AppendProperties, LenProperties
<1>9. AllExact(round, intent.seen)
  <2>1. ctl.at = "rest" /\ ~over
    BY Moving DEF Mutation
  <2>2. round.target = {}
    BY AwaitsNoChoice DEF Cast, ChoiceKind
  <2> QED
    BY <2>1, <2>2 DEF SeenInv, Stale
<1>10. Apart(cast)
  <2>1. StackIds(cast) \subseteq StackIds(round) \cup {c}
    BY <1>2, <1>8 DEF StackIds
  <2>2. c \notin BatchIds(round.batch)
    BY <1>3, BatchIdsType, CardAssumption DEF Round
  <2> QED
    BY <1>6, <2>1, <2>2 DEF SeenInv, Apart
<1>11. ASSUME NEW q \in Player, NEW ids \in Remembered(q)
       PROVE  Bare(cast, ids, intent.seen[q])
  <2>1. /\ intent.seen[q] \in Nat /\ intent.seen[q] <= n /\ Bare(round, ids, intent.seen[q])
        /\ Exact(round, ids, intent.seen[q])
    BY <1>9, SeenBare DEF AllExact
  <2> HIDE DEF n
  <2>2. \A i : Times(cast, intent.seen[q], i) = Times(round, intent.seen[q], i)
    <3>1. intent.seen[q] \in Nat /\ intent.seen[q] <= Len(round.stack)
      BY <2>1 DEF n
    <3>2. \A k \in DOMAIN round.stack : cast.stack[k].id = round.stack[k].id
      BY <1>8
    <3> QED
      BY <1>3, <3>1, <3>2, TimesPrefix
  <2> SUFFICES ASSUME NEW k \in 1..(n + 1), k > intent.seen[q]
               PROVE  /\ cast.stack[k].id \in Id => ids[cast.stack[k].id] = 0
                      /\ cast.stack[k].id \in Card =>
                           ids[cast.stack[k].id] <= Times(cast, intent.seen[q], cast.stack[k].id)
    BY <1>8 DEF Bare
  <2>3. CASE k \in 1..n
    <3>1. k \in DOMAIN round.stack /\ cast.stack[k] = round.stack[k]
      BY <1>8, <2>3
    <3>2. /\ round.stack[k].id \in Id => ids[round.stack[k].id] = 0
          /\ round.stack[k].id \in Card =>
               ids[round.stack[k].id] <= Times(round, intent.seen[q], round.stack[k].id)
      BY <2>1, <3>1 DEF Bare
    <3> QED
      BY <2>2, <3>1, <3>2
  <2>4. CASE k = n + 1
    <3>1. cast.stack[k].id = c
      BY <1>2, <1>8, <2>4
    <3> QED
      BY <2>1, <2>2, <3>1, CardAssumption DEF Exact
  <2> QED
    BY <1>8, <2>3, <2>4
<1>12. /\ intent'.base = intent.base /\ intent'.wbase = intent.wbase
       /\ intent'.waiting = intent.waiting /\ intent'.seen = intent.seen
  BY <1>3 DEF Cast, Intent
<1>13. Stale'
  BY BeginAt DEF Cast, Stale
<1>14. \A q \in Player : intent.seen[q] \in Nat /\ intent.seen[q] <= Len(cast.stack)
  <2> SUFFICES ASSUME NEW q \in Player
               PROVE  intent.seen[q] \in Nat /\ intent.seen[q] <= Len(cast.stack)
    OBVIOUS
  <2>1. intent.seen[q] \in Nat /\ intent.seen[q] <= n
    BY SeenBare
  <2> HIDE DEF n
  <2> QED
    BY <1>8, <2>1
<1> QED
  BY <1>6, <1>7, <1>10, <1>11, <1>12, <1>13, <1>14, PilesStale

(* A press of Pass Until Action remembers the stack as it is.              *)
LEMMA PressSeen ==
  ASSUME TypeOK, SeenInv, NEW p \in Player, PassUntilAction(p)
  PROVE  SeenInv'
<1> DEFINE n == Len(round.stack)
           now == Snapshot(round)
<1>1. /\ round \in Round /\ round' = round /\ intent \in Intent /\ n \in Nat
      /\ DOMAIN round.stack = 1..n
  BY LenProperties DEF TypeOK, PassUntilAction, Round
<1>2. /\ intent'.seen = [intent.seen EXCEPT ![p] = n]
      /\ intent'.waiting \in {intent.waiting, intent.waiting \cup {p}}
      /\ \/ /\ Queues(p) /\ intent'.waiting = intent.waiting \cup {p}
            /\ intent'.base = intent.base /\ intent'.wbase = [intent.wbase EXCEPT ![p] = now]
         \/ /\ Presses(p) /\ intent'.waiting = intent.waiting
            /\ intent'.base = [intent.base EXCEPT ![p] = now] /\ intent'.wbase = intent.wbase
  BY <1>1 DEF PassUntilAction, Intent
<1>3. /\ intent.base \in [Player -> [ObjectId -> Nat]]
      /\ intent.wbase \in [Player -> [ObjectId -> Nat]] /\ intent.seen \in [Player -> Nat]
      /\ now \in [ObjectId -> Nat]
  BY <1>1, BaselineType DEF Intent
<1>4. /\ \A i \in ObjectId : now[i] = Times(round, n, i)
      /\ \A m \in Nat : \A i : m <= n => Times(round, m, i) \in Nat /\ Times(round, m, i) <= Times(round, n, i)
  BY <1>1, TimesGrow DEF Snapshot
<1>5. /\ intent'.seen[p] = n
      /\ \A q \in Player : q # p => intent'.seen[q] = intent.seen[q]
      /\ \A q \in Player : intent'.base[q] = intent.base[q] \/ (q = p /\ intent'.base[q] = now)
      /\ \A q \in Player : intent'.wbase[q] = intent.wbase[q] \/ (q = p /\ intent'.wbase[q] = now)
  BY <1>2, <1>3
<1> HIDE DEF n, now
<1>6. ASSUME NEW q \in Player, NEW ids \in {intent'.base[q], intent'.wbase[q]}
      PROVE  /\ intent'.seen[q] <= n /\ Bare(round, ids, intent'.seen[q])
             /\ AllExact(round, intent.seen) => Exact(round, ids, intent'.seen[q])
  <2>1. ids \in Remembered(q) \/ (q = p /\ ids = now)
    BY <1>5 DEF Remembered
  <2>2. intent.seen[q] \in Nat /\ intent.seen[q] <= n
    BY SeenBare DEF n
  <2>3. CASE q # p
    BY <1>5, <2>1, <2>2, <2>3, SeenBare DEF AllExact
  <2>4. CASE q = p
    <3>1. Bare(round, ids, n)
      BY <1>1 DEF Bare
    <3>2. CASE ids = now
      <4>1. \A c \in Card : now[c] = Times(round, n, c) /\ Times(round, n, c) \in Nat
        BY <1>1, <1>4 DEF ObjectId
      <4>2. \A c \in Card : now[c] <= Times(round, n, c)
        BY <4>1
      <4>3. intent'.seen[q] <= n /\ intent'.seen[q] = n
        BY <1>1, <1>5, <2>4
      <4>4. Exact(round, ids, n)
        BY <3>2, <4>2 DEF Exact
      <4> QED
        BY <3>1, <4>3, <4>4
    <3>3. CASE ids \in Remembered(q)
      <4>1. ASSUME Exact(round, ids, intent.seen[q])
            PROVE  Exact(round, ids, n)
        <5> SUFFICES ASSUME NEW c \in Card
                     PROVE  ids[c] <= Times(round, n, c)
          BY DEF Exact
        <5>1. c \in ObjectId /\ ids \in [ObjectId -> Nat]
          BY <3>3, SparedNothing DEF ObjectId
        <5>2. ids[c] \in Nat /\ ids[c] <= Times(round, intent.seen[q], c)
          BY <4>1, <5>1 DEF Exact
        <5>3. /\ Times(round, intent.seen[q], c) <= Times(round, n, c)
              /\ Times(round, intent.seen[q], c) \in Nat /\ Times(round, n, c) \in Nat
          BY <1>1, <1>4, <2>2
        <5> QED
          BY <5>2, <5>3
      <4>2. intent'.seen[q] <= n /\ intent'.seen[q] = n
        BY <1>1, <1>5, <2>4
      <4>3. AllExact(round, intent.seen) => Exact(round, ids, intent.seen[q])
        BY <3>3 DEF AllExact
      <4> QED
        BY <3>1, <4>1, <4>2, <4>3
    <3> QED
      BY <2>1, <3>2, <3>3
  <2> QED
    BY <2>3, <2>4
<1>7. Below(round, intent.seen)' /\ AllBare(round, intent.seen)'
  BY <1>1, <1>6 DEF Below, AllBare, Remembered, n
<1>8. AllExact(round, intent.seen) => AllExact(round, intent.seen)'
  BY <1>1, <1>6 DEF AllExact, Remembered
<1>9. Stale => Stale'
  <2>1. ctl.at = "rest" /\ ~over
    BY Moving DEF Mutation
  <2> QED
    BY <1>1, <2>1 DEF Stale
<1>10. \A q \in Player \ intent'.waiting : intent'.wbase[q] = NoIds
  <2> SUFFICES ASSUME NEW q \in Player, q \notin intent'.waiting
               PROVE  intent'.wbase[q] = NoIds
    OBVIOUS
  <2>1. q \notin intent.waiting /\ intent'.wbase[q] = intent.wbase[q]
    BY <1>2, <1>3
  <2> QED
    BY <2>1 DEF SeenInv
<1>11. Apart(round)'
  <2> SUFFICES ASSUME NEW i \in Id, i \in BatchIds(round.batch), NEW q \in Player,
                      intent'.base[q][i] + intent'.wbase[q][i] > 0
               PROVE  FALSE
    BY <1>1 DEF SeenInv, Apart, Spared
  <2>1. i \in ObjectId /\ i \notin StackIds(round) /\ i \notin Spared
    BY DEF SeenInv, Apart, ObjectId
  <2>2. now[i] = 0
    <3>1. \A k \in 1..n : ~(k > 0 /\ round.stack[k].id = i)
      BY <1>1, <2>1 DEF StackIds
    <3>2. Times(round, 0, i) = Times(round, n, i)
      <4>1. 0 \in Nat /\ n \in Nat /\ 0 <= n
        BY <1>1
      <4>2. \A k \in 1..n : k > 0 => round.stack[k].id # i
        BY <3>1
      <4> QED
        BY <4>1, <4>2, TimesGrow
    <3>3. Times(round, 0, i) = 0
      <4>1. { k \in 1..0 : round.stack[k].id = i } = {}
        OBVIOUS
      <4> QED
        BY <4>1, FS_EmptySet DEF Times
    <3> QED
      BY <1>4, <2>1, <3>2, <3>3
  <2>3. intent.base[q][i] = 0 /\ intent.wbase[q][i] = 0
    BY <2>1, SparedNothing DEF Remembered
  <2>4. intent'.base[q][i] = 0 /\ intent'.wbase[q][i] = 0
    BY <1>5, <2>2, <2>3
  <2> QED
    BY <2>4
<1> QED
  BY <1>7, <1>8, <1>9, <1>10, <1>11 DEF SeenInv

LEMMA CancelSeen ==
  ASSUME TypeOK, SeenInv, NEW p \in Player, CancelAutoPass(p)
  PROVE  SeenInv'
<1>1. /\ round \in Round /\ round' = round /\ intent \in Intent
      /\ Len(round.stack) \in Nat
  BY LenProperties DEF TypeOK, CancelAutoPass, Round
<1>2. /\ intent'.seen = [intent.seen EXCEPT ![p] = 0]
      /\ intent'.base = [intent.base EXCEPT ![p] = NoIds]
      /\ intent'.wbase = [intent.wbase EXCEPT ![p] = NoIds]
      /\ intent'.waiting = intent.waiting \ {p}
  BY <1>1 DEF CancelAutoPass, Intent
<1>3. /\ intent.base \in [Player -> [ObjectId -> Nat]]
      /\ intent.wbase \in [Player -> [ObjectId -> Nat]] /\ intent.seen \in [Player -> Nat]
  BY <1>1 DEF Intent
<1>4. ASSUME NEW q \in Player
      PROVE  \/ /\ intent'.seen[q] = intent.seen[q] /\ intent'.base[q] = intent.base[q]
                /\ intent'.wbase[q] = intent.wbase[q] /\ (q \in intent'.waiting <=> q \in intent.waiting)
             \/ intent'.seen[q] = 0 /\ intent'.base[q] = NoIds /\ intent'.wbase[q] = NoIds
  BY <1>2, <1>3
<1>5. ASSUME NEW q \in Player, NEW ids \in {intent'.base[q], intent'.wbase[q]}
      PROVE  /\ intent'.seen[q] <= Len(round.stack) /\ Bare(round, ids, intent'.seen[q])
             /\ AllExact(round, intent.seen) => Exact(round, ids, intent'.seen[q])
  <2>1. Bare(round, NoIds, 0) /\ Exact(round, NoIds, 0) /\ 0 <= Len(round.stack)
    BY <1>1, NothingBare
  <2>2. CASE intent'.seen[q] = 0 /\ intent'.base[q] = NoIds /\ intent'.wbase[q] = NoIds
    BY <2>1, <2>2
  <2>3. CASE intent'.seen[q] = intent.seen[q] /\ ids \in Remembered(q)
    BY <2>3, SeenBare DEF AllExact
  <2> QED
    BY <1>4, <2>2, <2>3 DEF Remembered
<1>6. Below(round, intent.seen)' /\ AllBare(round, intent.seen)'
  BY <1>1, <1>5 DEF Below, AllBare, Remembered
<1>7. AllExact(round, intent.seen) => AllExact(round, intent.seen)'
  BY <1>1, <1>5 DEF AllExact, Remembered
<1>8. Stale => Stale'
  BY <1>1 DEF CancelAutoPass, Stale
<1>9. \A q \in Player \ intent'.waiting : intent'.wbase[q] = NoIds
  BY <1>4 DEF SeenInv
<1>10. Apart(round)'
  <2> SUFFICES ASSUME NEW i \in Id, i \in BatchIds(round.batch), NEW q \in Player,
                      intent'.base[q][i] + intent'.wbase[q][i] > 0
               PROVE  FALSE
    BY <1>1 DEF SeenInv, Apart, Spared
  <2>1. i \in ObjectId /\ i \notin Spared
    BY DEF SeenInv, Apart, ObjectId
  <2>2. NoIds[i] = 0
    BY <2>1 DEF NoIds
  <2>3. intent.base[q][i] = 0 /\ intent.wbase[q][i] = 0
    BY <2>1, SparedNothing DEF Remembered
  <2>4. intent'.base[q][i] = 0 /\ intent'.wbase[q][i] = 0
    BY <1>4, <2>2, <2>3
  <2> QED
    BY <2>4
<1> QED
  BY <1>6, <1>7, <1>8, <1>9, <1>10 DEF SeenInv

LEMMA MutationSeen ==
  ASSUME TypeOK, SeenInv, NEW p \in Player, Mutation(p)
  PROVE  SeenInv'
BY PassesSeen, PressSeen, CancelSeen, CastSeen, AnswersSeen, OrderSeen, TargetsSeen,
   DeclarationsSeen DEF Mutation

LEMMA InitSeen == Init => SeenInv
<1> SUFFICES ASSUME Init
             PROVE  SeenInv
  OBVIOUS
<1>1. round \in Round /\ TypeOK
  BY InitType DEF TypeOK
<1>2. /\ round.stack = <<>> /\ round.batch = NoBatch(active) /\ Len(round.stack) = 0
      /\ \A p \in Player : intent.seen[p] = 0 /\ intent.base[p] = NoIds /\ intent.wbase[p] = NoIds
  BY EmptySeq DEF Init, NoIntent
<1>3. Bare(round, NoIds, 0) /\ Exact(round, NoIds, 0)
  BY <1>1, NothingBare
<1>4. BatchIds(round.batch) = {}
  BY <1>2, NothingHeld
<1> QED
  BY <1>2, <1>3, <1>4 DEF SeenInv, Below, AllBare, AllExact, Remembered, Apart

LEMMA SeenInvariant ==
  Unordered("resolve") => (Spec => [](OrderInv /\ InputInv /\ SeenInv))
<1> SUFFICES ASSUME Unordered("resolve")
             PROVE  Spec => [](OrderInv /\ InputInv /\ SeenInv)
  OBVIOUS
<1>1. Init => SeenInv
  BY InitSeen
<1>2. OrderInv /\ OrderInv' /\ InputInv /\ SeenInv /\ [Next]_vars => SeenInv'
  <2> SUFFICES ASSUME OrderInv, OrderInv', InputInv, SeenInv, [Next]_vars
               PROVE  SeenInv'
    OBVIOUS
  <2>1. TypeOK /\ TypeOK'
    BY DEF OrderInv
  <2>2. CASE EngineStep
    BY <2>1, <2>2, EngineSeen
  <2>3. CASE \E p \in Player : Mutation(p)
    BY <2>1, <2>3, MutationSeen
  <2>4. CASE UNCHANGED vars
    <3>1. round' = round /\ intent' = intent /\ ctl' = ctl /\ over' = over
      BY <2>4 DEF vars
    <3>2. Piles(round, round') /\ Unchanging /\ (Stale => Stale')
      BY <2>1, <3>1, GrantsPile DEF TypeOK, Unchanging, Stale
    <3> QED
      BY <2>1, <3>2, PilesSeen
  <2> QED
    BY <2>2, <2>3, <2>4 DEF Next
<1> QED
  BY <1>1, <1>2, InputInvariant, PTL DEF Spec

-----------------------------------------------------------------------------
(* No death fires a trigger of the player whose turn it is not.            *)
DeathsFireActive == \A shape \in Fires["death"] : shape.of["other"] = <<>>

(* What the drain found before it checks state-based actions, and still    *)
(* finds when it takes the pass after them.                                *)
StopInv ==
  ctl.at \in {"check", "take"} /\ round.holder \in intent.armed \ intent.auto =>
    ~Stops(intent, round.holder)

LEMMA DrainStops ==
  ASSUME TypeOK, DrainAutoPasses
  PROVE  StopInv'
<1> DEFINE p == round.holder
           stopped == Disarmed(Promoted, p)
           i == IF Stops(Promoted, p) THEN stopped ELSE Promoted
<1>1. Promoted \in Intent /\ p \in Player /\ round' = round
  BY PromotedType DEF TypeOK, Round, DrainAutoPasses
<1>2. CASE Halt
  BY <1>2, HaltAt DEF StopInv
<1>3. CASE ~(Stops(Promoted, p) /\ p \notin Promoted.auto) /\ intent' = i
  <2>1. stopped.armed = Promoted.armed \ {p} /\ stopped.auto = Promoted.auto
    BY <1>1 DEF Disarmed, Intent
  <2> HIDE DEF stopped
  <2>2. p \in i.armed \ i.auto => i = Promoted /\ ~Stops(Promoted, p)
    BY <1>3, <2>1
  <2>3. p \in intent'.armed \ intent'.auto => ~Stops(intent', p)
    BY <1>3, <2>2
  <2> HIDE DEF i
  <2> QED
    BY <1>1, <2>3 DEF StopInv, Stops
<1> QED
  BY <1>2, <1>3 DEF DrainAutoPasses

(* Triggers that give nobody a say and leave the holder their priority are *)
(* the holder's own.                                                       *)
LEMMA PlacedStops ==
  ASSUME DeathsFireActive, TypeOK, NEW r \in Place("death", round), ~OwesInput(r),
         r.holder = round.holder, NEW k \in DOMAIN r.stack, r.stack[k].by # r.holder
  PROVE  k \in DOMAIN round.stack /\ round.stack[k] = r.stack[k]
<1>1. round \in Round /\ active \in Player /\ round.stack \in Seq(Item)
  BY DEF TypeOK, Round
<1>2. PICK shape \in Fires["death"], b \in Batch : PlacedAs(shape, b, round, r)
  BY <1>1, PlaceCases DEF Source
<1> DEFINE st == Stacked(round, b)
<1>3. CASE r = round
  BY <1>3
<1>4. CASE Parked(round, b, r)
  BY <1>4 DEF Parked, OwesInput
<1>5. CASE r = Land(st, active)
  <2>1. st \in Round /\ st.stack = round.stack \o b.of[active] \o b.of[Opponent(active)]
    BY <1>1, StackedRound
  <2> HIDE DEF st
  <2>2. Unannounced(st.stack) = {}
    <3> SUFFICES ASSUME Unannounced(st.stack) # {}
                 PROVE  r.target # {}
      BY DEF OwesInput
    <3>1. r = RaiseTarget(st)
      BY <1>5 DEF Land
    <3>2. PICK i \in Unannounced(st.stack) : TRUE
      OBVIOUS
    <3>3. r.target = { [kind |-> "trigger", by |-> st.stack[j].by, id |-> st.stack[j].id]
                       : j \in Unannounced(st.stack) }
      BY <2>1, <3>1 DEF RaiseTarget, Round
    <3> QED
      BY <3>2, <3>3
  <2>3. r.stack = st.stack /\ r.holder = active
    BY <1>1, <1>5, <2>1, <2>2 DEF Land, Grant, Round
  <2>4. b.of[active] \in Seq(Item) /\ b.of[Opponent(active)] = <<>>
    BY <1>1, <1>2, TriggersAreItems DEF Batch, PlacedAs, DeathsFireActive
  <2>5. r.stack = round.stack \o b.of[active]
    BY <1>1, <2>1, <2>3, <2>4, ConcatEmptySeq, ConcatProperties
  <2>6. CASE k \in DOMAIN round.stack
    BY <1>1, <2>4, <2>5, <2>6, ConcatKeeps
  <2>7. CASE k \notin DOMAIN round.stack
    <3>1. k \in DOMAIN (round.stack \o b.of[active])
      BY <2>5
    <3>2. PICK j \in DOMAIN b.of[active] : (round.stack \o b.of[active])[k] = b.of[active][j]
      BY <1>1, <2>4, <2>7, <3>1, ConcatPast
    <3>3. OfTheirOwn(b)
      BY <1>2 DEF PlacedAs
    <3>4. b.of[active][j].by = active
      BY <1>1, <3>3 DEF OfTheirOwn
    <3> QED
      BY <2>3, <2>5, <3>2, <3>4
  <2> QED
    BY <2>6, <2>7
<1> QED
  BY <1>2, <1>3, <1>4, <1>5 DEF PlacedAs

LEMMA CheckStops ==
  ASSUME DeathsFireActive, TypeOK, StopInv, CheckBeforePass
  PROVE  StopInv'
<1>1. PICK s \in CheckStateBasedActions(round) :
        /\ After(s)
        /\ IF s.over \/ OwesInput(s.round) THEN Halt /\ UNCHANGED intent
           ELSE /\ intent' = [intent EXCEPT !.once = @ \ {round.holder}]
                /\ IF s.round.holder = round.holder /\ s.round.passes = round.passes
                   THEN Goto("take") ELSE Goto("drain")
  BY DEF CheckBeforePass
<1>2. CASE Halt \/ Goto("drain")
  BY <1>2, GotoAt, HaltAt DEF StopInv
<1>3. CASE /\ ~s.over /\ ~OwesInput(s.round) /\ s.round.holder = round.holder
           /\ intent' = [intent EXCEPT !.once = @ \ {round.holder}]
  <2>1. intent'.armed = intent.armed /\ intent'.auto = intent.auto /\ intent'.base = intent.base
    BY <1>3 DEF TypeOK, Intent
  <2>2. round' = s.round /\ ctl.at = "check"
    BY <1>1 DEF After, CheckBeforePass
  <2>3. s.round = round \/ s.round \in Place("death", round)
    <3>1. \A p : AskLegend(round, p).choices # <<>>
      BY DEF AskLegend, TypeOK, Round
    <3>2. \A p : s # Found(AskLegend(round, p), "due", combat)
      BY <1>3, <3>1 DEF Found, OwesInput
    <3> QED
      BY <1>3, <3>2 DEF CheckStateBasedActions, Found, Lost
  <2> SUFFICES ASSUME round'.holder \in intent'.armed \ intent'.auto, Stops(intent, round.holder)'
               PROVE  FALSE
    BY <1>3, <2>2 DEF StopInv
  <2>4. ~Stops(intent, round.holder)
    BY <1>3, <2>1, <2>2 DEF StopInv
  <2>5. PICK k \in DOMAIN round'.stack :
          round'.stack[k].by # round.holder /\ k \notin Masked(round', intent.base[round.holder])
    BY <1>3, <2>1, <2>2 DEF Stops
  <2>6. k \in DOMAIN round.stack /\ round.stack[k] = round'.stack[k]
    BY <1>3, <2>2, <2>3, <2>5, PlacedStops
  <2>7. Times(round', k, round.stack[k].id) = Times(round, k, round.stack[k].id)
    <3>1. round \in Round /\ k \in Nat /\ k <= Len(round.stack)
      BY <2>6, LenProperties DEF TypeOK, Round
    <3>2. \A j \in DOMAIN round.stack : round'.stack[j].id = round.stack[j].id
      BY <1>1, <2>2, CheckPiles DEF Piles
    <3> QED
      BY <3>1, <3>2, TimesPrefix
  <2>8. k \notin Masked(round, intent.base[round.holder])
    BY <2>5, <2>6, <2>7 DEF Masked
  <2> QED
    BY <1>3, <2>1, <2>2, <2>4, <2>5, <2>6, <2>8 DEF Stops
<1> QED
  BY <1>1, <1>2, <1>3

(* No other step starts or takes a standing pass.                          *)
LEMMA EngineElsewhere ==
  ASSUME TypeOK, EngineStep
  PROVE  DrainAutoPasses \/ CheckBeforePass \/ ctl'.at \notin {"check", "take"}
<1>1. CASE TakeDeclaring \/ TakeNoBlocks \/ TakeDamaging \/ TakePass
  <2>1. \E r : CountPass(r)
    BY <1>1 DEF TakeDeclaring, TakeNoBlocks, TakeDamaging, TakePass
  <2>2. Goto("resolve") \/ Goto("advance") \/ Goto("drain")
    BY <2>1 DEF CountPass
  <2> QED
    BY <2>2, GotoAt
<1>2. CASE ResolutionSuspends \/ ResolveTopOfStack \/ ResolveWithRetarget
  <2>1. \E r : ThenHandOn(r)
    BY <1>2 DEF ResolutionSuspends, ResolveTopOfStack, ResolveWithRetarget, Resolved
  <2>2. Goto("drain") \/ Halt \/ Goto("settle")
    BY <2>1 DEF ThenHandOn
  <2> QED
    BY <2>2, GotoAt, HaltAt
<1>3. CASE \/ EnterUntap \/ SkipDrawStep \/ EnterStep \/ EnterDeclareAttackers
           \/ EnterDeclareBlockers \/ EnterDamage \/ EnterEndOfCombat \/ EnterCleanup
  <2>1. \E r, skipped : FinishEntry(r, skipped)
    BY <1>3 DEF EnterUntap, SkipDrawStep, EnterStep, EnterDeclareAttackers,
         EnterDeclareBlockers, EnterDamage, EnterEndOfCombat, EnterCleanup
  <2>2. Halt \/ Goto("drain") \/ Goto("advance")
    BY <2>1 DEF FinishEntry
  <2> QED
    BY <2>2, GotoAt, HaltAt
<1>4. CASE AdvancePhase \/ AdvanceTurn
  <2>1. Goto("turn") \/ Goto("enter") \/ (ctl' = ctl /\ ctl.at = "turn")
    BY <1>4 DEF AdvancePhase, AdvanceTurn
  <2> QED
    BY <2>1, GotoAt
<1>5. CASE TakeHaltsForBlocks \/ SettleResolution \/ Sweep \/ Recheck \/ LegendSettled \/ DamageDealt
  <2>1. Halt \/ Goto("drain") \/ ctl' = AtRest
    BY <1>5 DEF TakeHaltsForBlocks, SettleResolution, Sweep, Recheck, LegendSettled, DamageDealt
  <2>2. AtRest.at = "rest"
    BY DEF AtRest
  <2> QED
    BY <2>1, <2>2, GotoAt, HaltAt
<1> QED
  BY <1>1, <1>2, <1>3, <1>4, <1>5 DEF EngineStep

LEMMA MutationElsewhere ==
  ASSUME NEW p \in Player, Mutation(p)
  PROVE  ctl'.at \notin {"check", "take"}
<1>1. \/ ctl' = ctl /\ ctl.at = "rest"
      \/ \E pc \in {"drain", "sweep", "resolve", "recheck", "legend", "rest", "dealt", "advance"} :
           \E caller, sweeps : Begin(pc, caller, sweeps)
  <2>1. CASE ConfirmAttackers(p) \/ PayAttackTax(p)
    BY <2>1 DEF ConfirmAttackers, PayAttackTax, ChargeTaxes, FinalizeConfirmAttackers, Park
  <2>2. CASE ~(ConfirmAttackers(p) \/ PayAttackTax(p))
    BY <2>2 DEF Mutation, PassPriority, EndTurn, PassUntilAction, CancelAutoPass, Concede, Cast,
         AnswerResolution, AnswerOrder, AnswerLegend, AnswerUntap, AnswerDraw, AnswerCleanup,
         ChooseTarget, DeclineTarget, Retarget, LandTarget, Queues, Presses, ToggleAttacker,
         CancelAttackTax, ConfirmBlockers, ConfirmDamage
  <2> QED
    BY <2>1, <2>2
<1>2. ctl'.at \in {"rest", "drain", "sweep", "resolve", "recheck", "legend", "dealt", "advance"}
  BY <1>1, BeginAt
<1> QED
  BY <1>2

(* Where deaths fire triggers of the active player only, and nothing that  *)
(* resolves fires triggers to put in order, a seat that passes until an    *)
(* action never passes over an opposing object that came after it pressed. *)
(* Both conditions are needed: consumePassUntilActionStop decides before   *)
(* checkStateBasedActions adds to the stack, and a resolution that         *)
(* suspends on an order ends the drain, which alone prunes the baselines,  *)
(* so that the id of what resolved shields the next object that has it.    *)
THEOREM StopsOnActionElsewhere ==
  DeathsFireActive /\ Unordered("resolve") => (Spec => []StopsOnAction)
<1> SUFFICES ASSUME DeathsFireActive, Unordered("resolve")
             PROVE  Spec => []StopsOnAction
  OBVIOUS
<1>1. OrderInv /\ StopInv /\ [Next]_vars => StopInv'
  <2> SUFFICES ASSUME OrderInv, StopInv, [Next]_vars
               PROVE  StopInv'
    OBVIOUS
  <2>1. TypeOK
    BY DEF OrderInv
  <2>2. CASE EngineStep
    BY <2>1, <2>2, DrainStops, CheckStops, EngineElsewhere DEF StopInv
  <2>3. CASE \E p \in Player : Mutation(p)
    BY <2>3, MutationElsewhere DEF StopInv
  <2>4. CASE UNCHANGED vars
    BY <2>4 DEF vars, StopInv, Stops
  <2> QED
    BY <2>2, <2>3, <2>4 DEF Next
<1>2. Init => StopInv
  BY DEF Init, StopInv, AtRest
<1>3. OrderInv /\ SeenInv /\ StopInv => StopsOnAction
  <2> SUFFICES ASSUME OrderInv, SeenInv, StopInv, ctl.at = "take",
                      round.holder \in intent.armed \ intent.auto,
                      NEW k \in DOMAIN round.stack, k > intent.seen[round.holder],
                      round.stack[k].by # round.holder
               PROVE  FALSE
    BY DEF StopsOnAction
  <2>1. TypeOK /\ round \in Round /\ round.holder \in Player
    BY DEF OrderInv, TypeOK, Round
  <2>2. ~Stops(intent, round.holder)
    BY DEF StopInv
  <2>3. /\ intent.seen[round.holder] \in Nat
        /\ intent.base[round.holder] \in [ObjectId -> Nat]
        /\ Bare(round, intent.base[round.holder], intent.seen[round.holder])
    BY <2>1, SparedNothing, SeenBare DEF Remembered
  <2>4. k \notin Masked(round, intent.base[round.holder])
    BY <2>1, <2>3, NoneMasked
  <2> QED
    BY <2>2, <2>4 DEF Stops
<1> QED
  BY <1>1, <1>2, <1>3, SeenInvariant, OrderInvariant, PTL DEF Spec
=============================================================================
