--------------------------- MODULE TurnOrderProofs ---------------------------
(***************************************************************************)
(* That TurnPriority implements TurnOrder, and that no turn ends over an   *)
(* object on the stack or an input owed, for every value of the constants. *)
(*                                                                         *)
(* Neither follows from the step that leaves a turn alone: it may run from *)
(* a second pass, from a step nobody gets priority in, or from the answer  *)
(* to the choice that suspended an untap or a cleanup step.  The invariant *)
(* follows the round of priority through all of them.                      *)
(***************************************************************************)
EXTENDS TurnPriorityProofs

(* The choices that suspend the entry of a step, always on their own.      *)
SoloKinds == {"untap", "cleanup"}
NoSolo(choices) == KindsOf(choices) \cap SoloKinds = {}
Quiet == round.stack = <<>> /\ ~OwesInput(round)

(* The drain counts a pass only when nothing is owed.                      *)
DrainOwed == ctl.at \in {"check", "take"} => ~OwesInput(round)

(* A suspended untap or cleanup step has nothing but its choice open.      *)
SoloOwed ==
  ~NoSolo(round.choices) =>
    /\ Len(round.choices) = 1 /\ ctl.at \in {"rest", "drain", "sweep"}
    /\ round.stack = <<>> /\ round.target = {}
    /\ phase = IF Head(round.choices).kind = "cleanup" THEN "CLEANUP" ELSE "UNTAP"

(* Outside combat, whose steps are skipped whatever is on the stack, and   *)
(* untap, whose triggers wait for the upkeep, a step is left and the next  *)
(* one entered on a quiet round.                                           *)
LeavesQuiet ==
  /\ ctl.at \in {"advance", "enter", "turn"} => round.choices = <<>>
  /\ ctl.at = "advance" /\ phase \notin CombatSteps \cup {"UNTAP"} => Quiet
  /\ ctl.at = "enter"
     /\ phase \notin CombatSteps \cup {"UPKEEP", "BEGINNING_OF_COMBAT", "POSTCOMBAT_MAIN"} => Quiet
  /\ ctl.at = "turn" => Quiet /\ phase = "CLEANUP" /\ ~owed.cleanup

Sound == DrainOwed /\ SoloOwed /\ LeavesQuiet
OrderInv == TypeOK /\ Sound

-----------------------------------------------------------------------------
LEMMA GotoAt ==
  ASSUME TypeOK, NEW pc, Goto(pc)
  PROVE  ctl'.at = pc
BY DEF TypeOK, Goto, Control

LEMMA HaltAt ==
  ASSUME TypeOK, Halt
  PROVE  ctl'.at \in {"rest", "sweep"}
BY DEF TypeOK, Halt, Control, AtRest

LEMMA BeginAt ==
  ASSUME NEW pc, NEW caller, NEW sweeps, Begin(pc, caller, sweeps)
  PROVE  ctl.at = "rest" /\ ctl'.at = pc
BY DEF Begin, AtRest

(* Where nothing is left or entered only the solo choices matter.          *)
LEMMA Working ==
  ASSUME NoSolo(round'.choices), ctl'.at \notin {"check", "take", "advance", "enter", "turn"}
  PROVE  Sound'
BY DEF Sound, DrainOwed, SoloOwed, LeavesQuiet

LEMMA NoSoloEmpty == NoSolo(<<>>)
BY KindsOfEmpty DEF NoSolo

LEMMA NoSoloMore ==
  ASSUME NEW s, NEW t, NoSolo(s), KindsOf(t) \subseteq KindsOf(s) \cup {"order", "legend"}
  PROVE  NoSolo(t)
BY DEF NoSolo, SoloKinds

LEMMA OneKind ==
  ASSUME NEW c
  PROVE  KindsOf(<< c >>) = {c.kind}
BY DEF KindsOf

LEMMA HeadKind ==
  ASSUME NEW s \in Seq(Choice), s # <<>>
  PROVE  Head(s).kind \in KindsOf(s)
<1>1. 1 \in DOMAIN s /\ Head(s) = s[1]
  BY EmptySeq, LenProperties
<1> QED
  BY <1>1 DEF KindsOf

(* Off the places where a suspended step waits there is no solo choice.    *)
LEMMA NoneElsewhere ==
  ASSUME Sound, ctl.at \notin {"rest", "drain", "sweep"}
  PROVE  NoSolo(round.choices)
BY DEF Sound, SoloOwed

LEMMA OwedNothing ==
  ASSUME NEW r \in Round, ~OwesInput(r)
  PROVE  r.choices = <<>> /\ r.target = {}
BY DEF OwesInput

(* What a placement may add to the queue.                                  *)
LEMMA PlaceEffect ==
  ASSUME TypeOK, NEW source \in Source, NEW r \in Round, NEW s \in Place(source, r)
  PROVE  /\ s \in Round
         /\ s = r \/ (s.passes = 0 /\ (s.held \/ Len(s.stack) > Len(r.stack)))
         /\ KindsOf(s.choices) \subseteq KindsOf(r.choices) \cup {"order", "legend"}
         /\ NoSolo(r.choices) => NoSolo(s.choices)
<1>1. active \in Player /\ s \in Placed(source, r, active, Spared)
  BY DEF TypeOK, Place
<1>2. KindsOf(s.choices) \subseteq KindsOf(r.choices) \cup {"order"}
  BY <1>1, PlacedEffect
<1> QED
  BY <1>1, <1>2, PlacedEffect, PlacedType, NoSoloMore

LEMMA HandOnEffect ==
  ASSUME NEW r \in Round, NEW ap \in Player
  PROVE  HandPriorityOn(r, ap).choices = r.choices
BY DEF HandPriorityOn, HeadChooser, Grant, Round

LEMMA CheckKinds ==
  ASSUME TypeOK, NEW r \in Round, NoSolo(r.choices), NEW s \in CheckStateBasedActions(r)
  PROVE  NoSolo(s.round.choices) /\ s.round \in Round
<1>0. s.round \in Round
  BY CheckType DEF Outcome
<1>1. CASE board = "clean"
  BY <1>0, <1>1 DEF CheckStateBasedActions, Found
<1>2. CASE board = "legend" /\ r.choices = <<>>
  <2>1. s \in { Found(AskLegend(r, p), "due", combat) : p \in Player }
    BY <1>2 DEF CheckStateBasedActions
  <2>2. PICK p \in Player : s = Found(AskLegend(r, p), "due", combat)
    BY <2>1
  <2>3. s.round.choices = << [kind |-> "legend", by |-> p, id |-> 0] >>
    BY <2>2 DEF Found, AskLegend, Round
  <2>4. KindsOf(s.round.choices) = {"legend"}
    BY <2>3, OneKind
  <2> QED
    BY <1>0, <2>4 DEF NoSolo, SoloKinds
<1>3. CASE board # "clean" /\ ~(board = "legend" /\ r.choices = <<>>)
  <2>1. \/ s \in { Found(x, Left, c) : x \in Place("death", r), c \in Survivors(combat) }
        \/ s \in { Lost(r) : e \in Effects \cap {"lose"} }
    BY <1>3 DEF CheckStateBasedActions
  <2>2. CASE s \in { Found(x, Left, c) : x \in Place("death", r), c \in Survivors(combat) }
    <3>1. PICK x \in Place("death", r), c \in Survivors(combat) : s = Found(x, Left, c)
      BY <2>2
    <3>2. NoSolo(x.choices)
      BY PlaceEffect DEF Source
    <3> QED
      BY <1>0, <3>1, <3>2 DEF Found
  <2>3. CASE s \in { Lost(r) : e \in Effects \cap {"lose"} }
    <3>1. s = Lost(r)
      BY <2>3
    <3> QED
      BY <1>0, <3>1 DEF Lost
  <2> QED
    BY <2>1, <2>2, <2>3
<1> QED
  BY <1>1, <1>2, <1>3
-----------------------------------------------------------------------------
(* The drain and the pass.                                                 *)
LEMMA DrainSound ==
  ASSUME TypeOK, Sound, DrainAutoPasses
  PROVE  Sound'
<1>1. round' = round /\ phase' = phase /\ owed' = owed
  BY DEF DrainAutoPasses
<1>2. CASE OwesInput(round)
  <2>1. Halt
    BY <1>2 DEF DrainAutoPasses
  <2> QED
    BY <1>1, <2>1, HaltAt DEF Sound, DrainOwed, SoloOwed, LeavesQuiet
<1>3. CASE ~OwesInput(round)
  <2>1. Halt \/ StartPass
    BY <1>3 DEF DrainAutoPasses
  <2>2. ctl'.at \in {"rest", "sweep", "check"}
    BY <2>1, HaltAt DEF StartPass, TypeOK, Control
  <2>3. round.choices = <<>>
    BY <1>3 DEF OwesInput
  <2> QED
    BY <1>1, <1>3, <2>2, <2>3, NoSoloEmpty
       DEF Sound, DrainOwed, SoloOwed, LeavesQuiet
<1> QED
  BY <1>2, <1>3

LEMMA CheckBeforePassSound ==
  ASSUME TypeOK, Sound, CheckBeforePass
  PROVE  Sound'
<1>1. ctl.at = "check" /\ round \in Round /\ round.choices = <<>>
  BY DEF CheckBeforePass, Sound, DrainOwed, OwesInput, TypeOK
<1>2. PICK s \in CheckStateBasedActions(round) :
        /\ round' = s.round
        /\ \/ Halt
           \/ ~OwesInput(s.round) /\ (Goto("take") \/ Goto("drain"))
  BY DEF CheckBeforePass, After
<1>3. NoSolo(round'.choices)
  BY <1>1, <1>2, CheckKinds, NoSoloEmpty
<1>4. CASE Halt
  BY <1>3, <1>4, HaltAt, Working
<1>5. CASE ~OwesInput(s.round) /\ (Goto("take") \/ Goto("drain"))
  <2>1. ctl'.at \in {"take", "drain"}
    BY <1>5, GotoAt
  <2> QED
    BY <1>2, <1>3, <1>5, <2>1 DEF Sound, DrainOwed, SoloOwed, LeavesQuiet
<1> QED
  BY <1>2, <1>4, <1>5

(* A pass leaves the step only when the trigger it raised, if any, left    *)
(* the round as it was: a placement starts the passes over.                *)
LEMMA CountPassSound ==
  ASSUME TypeOK, NEW r \in Round, NoSolo(r.choices),
         r = round \/ r.passes = 0, ~OwesInput(round), CountPass(r)
  PROVE  Sound'
<1>1. r.passes + 1 >= 2 => r.passes # 0
  OBVIOUS
<1>2. round'.choices = r.choices /\ round'.stack = r.stack /\ round'.target = r.target
  BY DEF CountPass, Round
<1>3. CASE r.passes + 1 >= 2 /\ r.stack = <<>>
  <2>1. Goto("advance")
    BY <1>3 DEF CountPass
  <2>2. r = round
    BY <1>1, <1>3
  <2>3. Quiet'
    BY <1>2, <1>3, <2>2 DEF Quiet, OwesInput
  <2>4. round'.choices = <<>> /\ ctl'.at = "advance"
    BY <2>1, <2>3, GotoAt DEF Quiet, OwesInput
  <2>5. NoSolo(round'.choices)
    BY <2>4, NoSoloEmpty
  <2> QED
    BY <2>3, <2>4, <2>5 DEF Sound, DrainOwed, SoloOwed, LeavesQuiet
<1>4. CASE ~(r.passes + 1 >= 2 /\ r.stack = <<>>)
  <2>1. Goto("resolve") \/ Goto("drain")
    BY <1>4 DEF CountPass
  <2>2. ctl'.at \in {"resolve", "drain"}
    BY <2>1, GotoAt
  <2> QED
    BY <1>2, <2>2, Working
<1> QED
  BY <1>3, <1>4

LEMMA TakeSound ==
  ASSUME TypeOK, Sound,
         TakeDeclaring \/ TakeHaltsForBlocks \/ TakeNoBlocks \/ TakeDamaging \/ TakePass
  PROVE  Sound'
<1>1. ctl.at = "take" /\ round \in Round
  BY DEF TakeDeclaring, TakeHaltsForBlocks, TakeNoBlocks, TakeDamaging, TakePass, TypeOK
<1>2. ~OwesInput(round) /\ NoSolo(round.choices)
  BY <1>1, NoneElsewhere DEF Sound, DrainOwed
<1>3. CASE TakeDeclaring
  <2>1. PICK r \in IF combat.attacking THEN Place("attack", round) ELSE {round} :
          CountPass(r)
    BY <1>3 DEF TakeDeclaring
  <2>2. r \in Round /\ NoSolo(r.choices) /\ (r = round \/ r.passes = 0)
    BY <1>1, <1>2, <2>1, PlaceEffect DEF Source
  <2> QED
    BY <1>2, <2>1, <2>2, CountPassSound
<1>4. CASE TakeHaltsForBlocks
  <2>1. round'.choices = round.choices
    BY <1>1, <1>4 DEF TakeHaltsForBlocks, Round
  <2>2. Halt
    BY <1>4 DEF TakeHaltsForBlocks
  <2>3. ctl'.at \in {"rest", "sweep"}
    BY <2>2, HaltAt
  <2> QED
    BY <1>2, <2>1, <2>3, Working
<1>5. CASE TakeDamaging
  <2>1. PICK r \in Place("damage", round) : CountPass(r)
    BY <1>5 DEF TakeDamaging
  <2>2. r \in Round /\ NoSolo(r.choices) /\ (r = round \/ r.passes = 0)
    BY <1>1, <1>2, <2>1, PlaceEffect DEF Source
  <2> QED
    BY <1>2, <2>1, <2>2, CountPassSound
<1>6. CASE TakeNoBlocks
  <2>1. PICK r \in IF combat.attacking THEN Place("block", round) ELSE {round} :
          CountPass(r)
    BY <1>6 DEF TakeNoBlocks
  <2>2. r \in Round /\ NoSolo(r.choices) /\ (r = round \/ r.passes = 0)
    BY <1>1, <1>2, <2>1, PlaceEffect DEF Source
  <2> QED
    BY <1>2, <2>1, <2>2, CountPassSound
<1>7. CASE TakePass
  <2>1. CountPass(round)
    BY <1>7 DEF TakePass
  <2> QED
    BY <1>1, <1>2, <2>1, CountPassSound
<1> QED
  BY <1>3, <1>4, <1>5, <1>6, <1>7

-----------------------------------------------------------------------------
(* Resolution.                                                             *)
LEMMA ThenHandOnSound ==
  ASSUME TypeOK, NEW r \in Round, NoSolo(r.choices), ThenHandOn(r)
  PROVE  Sound'
<1>1. active \in Player
  BY DEF TypeOK
<1>2. round'.choices = r.choices
  BY <1>1, HandOnEffect DEF ThenHandOn
<1>3. Goto("drain") \/ Halt \/ Goto("settle")
  BY DEF ThenHandOn
<1>4. ctl'.at \in {"drain", "rest", "sweep", "settle"}
  BY <1>3, GotoAt, HaltAt
<1> QED
  BY <1>2, <1>4, Working

LEMMA ResolvedSound ==
  ASSUME TypeOK, NEW r \in Round, NoSolo(r.choices), NEW w, NEW c, NEW b,
         Resolved(r, w, c, b)
  PROVE  Sound'
<1>1. PICK s \in Place("resolve", r) : ThenHandOn(s)
  BY DEF Resolved
<1>2. s \in Round /\ NoSolo(s.choices)
  BY PlaceEffect DEF Source
<1> QED
  BY <1>1, <1>2, ThenHandOnSound

LEMMA SuspendsSound ==
  ASSUME TypeOK, ResolutionSuspends
  PROVE  Sound'
<1>1. PICK asked \in Asks :
        ThenHandOn([round EXCEPT !.told = 0, !.choices = [ k \in DOMAIN asked |->
          [kind |-> "resolution", by |-> Seat(active, asked[k]), id |-> Top(round).id] ]])
  BY DEF ResolutionSuspends
<1> DEFINE r == [round EXCEPT !.told = 0, !.choices = [ k \in DOMAIN asked |->
                  [kind |-> "resolution", by |-> Seat(active, asked[k]), id |-> Top(round).id] ]]
<1>2. r \in Round
  BY AskedType DEF ResolutionSuspends
<1>3. r.choices = [ k \in DOMAIN asked |->
        [kind |-> "resolution", by |-> Seat(active, asked[k]), id |-> Top(round).id] ]
  BY DEF TypeOK, Round
<1>4. NoSolo(r.choices)
  BY <1>3 DEF NoSolo, KindsOf, SoloKinds
<1>5. ThenHandOn(r)
  BY <1>1
<1> HIDE DEF r
<1> QED
  BY <1>2, <1>4, <1>5, ThenHandOnSound

LEMMA ResolveSound ==
  ASSUME TypeOK, Sound, ResolveTopOfStack
  PROVE  Sound'
<1>1. \E w, c, b : Resolved(Popped(round), w, c, b)
  BY DEF ResolveTopOfStack
<1>2. Popped(round) \in Round /\ Popped(round).choices = round.choices
  BY PoppedType DEF TypeOK, Popped, Round
<1>3. NoSolo(round.choices)
  BY NoneElsewhere DEF ResolveTopOfStack, Resolving
<1> QED
  BY <1>1, <1>2, <1>3, ResolvedSound

LEMMA RetargetOfferSound ==
  ASSUME TypeOK, Sound, ResolveWithRetarget
  PROVE  Sound'
<1>1. PICK s \in FreshIds(Id \ (UsedIds(round) \cup Spared), 1) :
        Resolved([Popped(round) EXCEPT
                    !.stack = Append(@, [id |-> s[1], by |-> Top(round).by, needs |-> FALSE]),
                    !.target = { [kind |-> "retarget", by |-> Top(round).by, id |-> s[1]] }],
                 owed, combat, board)
  BY DEF ResolveWithRetarget
<1> DEFINE r == [Popped(round) EXCEPT
                   !.stack = Append(@, [id |-> s[1], by |-> Top(round).by, needs |-> FALSE]),
                   !.target = { [kind |-> "retarget", by |-> Top(round).by, id |-> s[1]] }]
<1>2. r \in Round
  BY OfferType DEF ResolveWithRetarget
<1>3. Popped(round) \in Round /\ Popped(round).choices = round.choices
  BY PoppedType DEF TypeOK, Popped, Round
<1>4. r.choices = round.choices
  BY <1>3 DEF Round
<1>5. NoSolo(r.choices)
  BY <1>4, NoneElsewhere DEF ResolveWithRetarget, Resolving
<1>6. Resolved(r, owed, combat, board)
  BY <1>1
<1> HIDE DEF r
<1> QED
  BY <1>2, <1>5, <1>6, ResolvedSound

LEMMA SettleSound ==
  ASSUME TypeOK, Sound, SettleResolution
  PROVE  Sound'
<1>1. PICK s \in CheckStateBasedActions(round) :
        round' = s.round /\ (Halt \/ Goto("drain"))
  BY DEF SettleResolution, After
<1>2. NoSolo(round.choices) /\ round \in Round
  BY NoneElsewhere DEF SettleResolution, TypeOK
<1>3. ctl'.at \in {"rest", "sweep", "drain"}
  BY <1>1, GotoAt, HaltAt
<1> QED
  BY <1>1, <1>2, <1>3, CheckKinds, Working

-----------------------------------------------------------------------------
(* The steps and the turns.                                                *)
LEMMA AfterCombat ==
  ASSUME NEW p \in CombatSteps \cup {"UNTAP"}, NEW q \in Phase, Follows(p, q)
  PROVE  q \in CombatSteps \cup {"UPKEEP", "POSTCOMBAT_MAIN"}
BY DEF Follows, Phase, PHASE_ORDER, CombatSteps, DamageSteps

LEMMA AdvancePhaseSound ==
  ASSUME TypeOK, Sound, AdvancePhase
  PROVE  Sound'
<1> DEFINE again == phase = "CLEANUP" /\ owed.cleanup
           extra == phase = "END_OF_COMBAT" /\ owed.combats > 0
<1>1. /\ round' = round /\ round.choices = <<>>
      /\ phase \notin CombatSteps \cup {"UNTAP"} => Quiet
  BY DEF AdvancePhase, Sound, LeavesQuiet
<1>2. NoSolo(round'.choices)
  BY <1>1, NoSoloEmpty
<1>3. owed'.cleanup = (owed.cleanup /\ ~again)
  BY DEF AdvancePhase, TypeOK, Owed
<1>4. IF phase = "CLEANUP" /\ ~again THEN phase' = phase /\ Goto("turn")
      ELSE /\ IF again THEN phase' = phase
              ELSE IF extra THEN phase' = "BEGINNING_OF_COMBAT"
              ELSE phase' \in Phase /\ Follows(phase, phase')
           /\ Goto("enter")
  BY DEF AdvancePhase
<1>5. Quiet => Quiet'
  BY <1>1 DEF Quiet
<1>6. CASE phase = "CLEANUP" /\ ~again
  <2>1. ctl'.at = "turn" /\ phase' = "CLEANUP" /\ ~owed'.cleanup
    BY <1>3, <1>4, <1>6, GotoAt
  <2>2. Quiet'
    BY <1>1, <1>5, <1>6 DEF CombatSteps, DamageSteps
  <2> QED
    BY <1>1, <1>2, <2>1, <2>2 DEF Sound, DrainOwed, SoloOwed, LeavesQuiet
<1>7. CASE ~(phase = "CLEANUP" /\ ~again)
  <2>1. ctl'.at = "enter"
    BY <1>4, <1>7, GotoAt
  <2>2. phase' \notin CombatSteps \cup {"UPKEEP", "BEGINNING_OF_COMBAT", "POSTCOMBAT_MAIN"}
          => phase \notin CombatSteps \cup {"UNTAP"}
    <3> HIDE DEF extra
    <3>1. CASE again
      BY <1>4, <1>7, <3>1 DEF CombatSteps, DamageSteps
    <3>2. CASE ~again /\ extra
      BY <1>4, <1>7, <3>2
    <3>3. CASE ~again /\ ~extra
      BY <1>4, <1>7, <3>3, AfterCombat
    <3> QED
      BY <3>1, <3>2, <3>3
  <2>3. phase' \notin CombatSteps \cup {"UPKEEP", "BEGINNING_OF_COMBAT", "POSTCOMBAT_MAIN"}
          => Quiet'
    BY <1>1, <1>5, <2>2
  <2> QED
    BY <1>1, <1>2, <2>1, <2>3 DEF Sound, DrainOwed, SoloOwed, LeavesQuiet
<1> QED
  BY <1>6, <1>7

LEMMA AdvanceTurnSound ==
  ASSUME TypeOK, Sound, AdvanceTurn
  PROVE  Sound'
<1>1. round' = round /\ Quiet /\ phase = "CLEANUP" /\ ~owed.cleanup /\ ctl.at = "turn"
  BY DEF AdvanceTurn, Sound, LeavesQuiet
<1>2. Quiet' /\ round'.choices = <<>>
  BY <1>1 DEF Quiet, OwesInput
<1>3. owed'.cleanup = owed.cleanup
  BY DEF AdvanceTurn, TypeOK, Owed
<1>4. UNCHANGED << phase, ctl >> \/ Goto("enter")
  BY DEF AdvanceTurn
<1>5. CASE UNCHANGED << phase, ctl >>
  BY <1>1, <1>2, <1>3, <1>5, NoSoloEmpty DEF Sound, DrainOwed, SoloOwed, LeavesQuiet
<1>6. CASE Goto("enter")
  BY <1>2, <1>6, GotoAt, NoSoloEmpty DEF Sound, DrainOwed, SoloOwed, LeavesQuiet
<1> QED
  BY <1>4, <1>5, <1>6

(* The end of an entry: what is left at once is left quiet.                *)
LEMMA FinishEntrySound ==
  ASSUME TypeOK, NEW r \in Round, NEW skipped \in BOOLEAN, FinishEntry(r, skipped),
         NoSolo(r.choices), phase' = phase,
         skipped /\ phase \notin CombatSteps \cup {"UNTAP"} /\ r.choices = <<>>
           => r.stack = <<>> /\ r.target = {}
  PROVE  Sound'
<1>1. CASE r.choices = <<>> /\ skipped
  <2>1. round' = r /\ Goto("advance")
    BY <1>1 DEF FinishEntry
  <2>2. ctl'.at = "advance" /\ round'.choices = <<>>
    BY <1>1, <2>1, GotoAt
  <2>3. phase' \notin CombatSteps \cup {"UNTAP"} => Quiet'
    BY <1>1, <2>1 DEF Quiet, OwesInput
  <2>4. NoSolo(round'.choices)
    BY <2>2, NoSoloEmpty
  <2> QED
    BY <2>2, <2>3, <2>4 DEF Sound, DrainOwed, SoloOwed, LeavesQuiet
<1>2. CASE ~(r.choices = <<>> /\ skipped)
  <2>1. round'.choices = r.choices /\ (Halt \/ Goto("drain"))
    BY <1>2 DEF FinishEntry, HeadChooser, Grant, Round
  <2>2. ctl'.at \in {"rest", "sweep", "drain"}
    BY <2>1, GotoAt, HaltAt
  <2> QED
    BY <2>1, <2>2, Working
<1> QED
  BY <1>1, <1>2

(* Delayed triggers change nothing or leave a higher stack.                *)
LEMMA DelayedEffect ==
  ASSUME TypeOK, NEW r \in Round, NEW s \in Delayed(r)
  PROVE  /\ s \in Round /\ s.choices = r.choices /\ s.held = r.held
         /\ s = r \/ Len(s.stack) > Len(r.stack)
<1>1. s \in Round
  BY DelayedType
<1>2. CASE phase \in owed.delayed
  <2>1. PICK b \in Firing("delayed", r, active, Spared) :
          s = FireDelayed(r, BatchOf(b), active)
    BY <1>2 DEF Delayed
  <2>2. BatchOf(b) \in Batch /\ active \in Player
    BY FiringType DEF TypeOK, Source
  <2> QED
    BY <1>1, <2>1, <2>2, FireDelayedEffect
<1>3. CASE phase \notin owed.delayed
  BY <1>1, <1>3 DEF Delayed
<1> QED
  BY <1>2, <1>3

LEMMA BegunEffect ==
  ASSUME TypeOK, NEW r \in Round, NEW s \in Begun(r), NoSolo(r.choices)
  PROVE  s \in Round /\ NoSolo(s.choices)
BY PlaceEffect DEF Begun, Source

LEMMA Entering ==
  ASSUME TypeOK, Sound, ctl.at = "enter"
  PROVE  round \in Round /\ round.choices = <<>> /\ NoSolo(round.choices)
BY NoSoloEmpty DEF TypeOK, Sound, LeavesQuiet

LEMMA EnterUntapSound ==
  ASSUME TypeOK, Sound, EnterUntap
  PROVE  Sound'
<1> DEFINE ask == [kind |-> "untap", by |-> active, id |-> 0]
<1>1. round \in Round /\ round.choices = <<>> /\ round.stack = <<>> /\ round.target = {}
  BY Entering DEF EnterUntap, Sound, LeavesQuiet, Quiet, OwesInput, CombatSteps, DamageSteps
<1>2. /\ phase = "UNTAP" /\ phase' = phase
      /\ FinishEntry(AskUntap, TRUE) \/ \E r \in Place("untap", round) : FinishEntry(r, TRUE)
  BY DEF EnterUntap
<1>3. ASSUME NEW r \in Place("untap", round), FinishEntry(r, TRUE)
      PROVE  Sound'
  <2>1. r \in Round /\ NoSolo(r.choices)
    BY <1>1, NoSoloEmpty, PlaceEffect DEF Source
  <2> QED
    BY <1>2, <1>3, <2>1, FinishEntrySound
<1>4. CASE FinishEntry([round EXCEPT !.holder = active, !.choices = << ask >>], TRUE)
  <2> DEFINE r == [round EXCEPT !.holder = active, !.choices = << ask >>]
  <2>1. r.choices = << ask >> /\ r.stack = <<>> /\ r.target = {}
    BY <1>1 DEF Round
  <2>2. << ask >> \in Seq(Choice)
    BY DEF TypeOK, Choice, ChoiceKind
  <2>3. r \in Round
    BY <1>1, <2>2 DEF TypeOK, Round
  <2>4. r.choices # <<>>
    BY <2>1
  <2> HIDE DEF r
  <2>5. /\ round'.choices = << ask >> /\ round'.stack = <<>> /\ round'.target = {}
        /\ Halt \/ Goto("drain")
    BY <1>4, <2>1, <2>3, <2>4 DEF FinishEntry, HeadChooser, Round, r
  <2>6. ctl'.at \in {"rest", "sweep", "drain"}
    BY <2>5, GotoAt, HaltAt
  <2>7. Len(round'.choices) = 1 /\ Head(round'.choices).kind = "untap"
    BY <2>5
  <2> QED
    BY <1>2, <2>5, <2>6, <2>7 DEF Sound, DrainOwed, SoloOwed, LeavesQuiet
<1> QED
  BY <1>2, <1>3, <1>4 DEF AskUntap

(* The draw step may ask for the card to draw.                             *)
LEMMA DrawnEffect ==
  ASSUME TypeOK, NEW r \in Round, NoSolo(r.choices), NEW s \in Drawn(r)
  PROVE  s \in Round /\ NoSolo(s.choices)
<1>1. s \in Round
  BY DrawnType
<1>2. ASSUME NEW p \in Player, s = AskDraw(r, p)
      PROVE  NoSolo(s.choices)
  <2> DEFINE asked == [kind |-> "draw", by |-> p, id |-> 0]
  <2>1. asked \in Choice /\ asked.kind = "draw"
    BY DEF Choice, ChoiceKind
  <2>2. s.choices = Append(r.choices, asked) /\ r.choices \in Seq(Choice)
    BY <1>2 DEF AskDraw, Round
  <2> HIDE DEF asked
  <2>3. KindsOf(s.choices) \subseteq KindsOf(r.choices) \cup {"draw"}
    <3>1. /\ Len(r.choices) \in Nat /\ DOMAIN r.choices = 1..Len(r.choices)
          /\ DOMAIN s.choices = 1..(Len(r.choices) + 1)
          /\ \A i \in 1..Len(r.choices) : s.choices[i] = r.choices[i]
          /\ s.choices[Len(r.choices) + 1] = asked
      BY <2>1, <2>2, AppendProperties, LenProperties
    <3> SUFFICES ASSUME NEW i \in DOMAIN s.choices
                 PROVE  s.choices[i].kind \in KindsOf(r.choices) \cup {"draw"}
      BY DEF KindsOf
    <3>2. CASE i \in 1..Len(r.choices)
      BY <3>1, <3>2 DEF KindsOf
    <3>3. CASE i \notin 1..Len(r.choices)
      <4>1. i = Len(r.choices) + 1
        BY <3>1, <3>3
      <4> QED
        BY <2>1, <3>1, <4>1
    <3> QED
      BY <3>2, <3>3
  <2> QED
    BY <2>3 DEF NoSolo, SoloKinds
<1>3. CASE s \in Place("event", r)
  BY <1>3, PlaceEffect DEF Source
<1> QED
  BY <1>1, <1>2, <1>3 DEF Drawn

LEMMA EnterStepSound ==
  ASSUME TypeOK, Sound, SkipDrawStep \/ EnterStep \/ EnterEndOfCombat \/ EnterDeclareAttackers
  PROVE  Sound'
<1>1. round \in Round /\ round.choices = <<>> /\ NoSolo(round.choices) /\ phase' = phase
  BY Entering DEF SkipDrawStep, EnterStep, EnterEndOfCombat, EnterDeclareAttackers
<1>2. CASE SkipDrawStep
  <2>1. round.stack = <<>> /\ round.target = {}
    BY <1>1, <1>2 DEF SkipDrawStep, Sound, LeavesQuiet, Quiet, OwesInput, CombatSteps, DamageSteps
  <2>2. FinishEntry(round, TRUE)
    BY <1>2 DEF SkipDrawStep
  <2> QED
    BY <1>1, <2>1, <2>2, FinishEntrySound
<1>3. CASE EnterStep
  <2>1. PICK r1 \in IF phase = "DRAW" THEN Drawn(round)
                    ELSE IF phase = "PRECOMBAT_MAIN" THEN Place("event", round) ELSE {round} :
          \E r2 \in Delayed(r1) : \E r3 \in Begun(r2) : FinishEntry(r3, FALSE)
    BY <1>3 DEF EnterStep
  <2>2. r1 \in Round /\ NoSolo(r1.choices)
    BY <1>1, <2>1, PlaceEffect, DrawnEffect DEF Source
  <2>3. PICK r2 \in Delayed(r1) : \E r3 \in Begun(r2) : FinishEntry(r3, FALSE)
    BY <2>1
  <2>4. r2 \in Round /\ NoSolo(r2.choices)
    BY <2>2, DelayedEffect
  <2>5. PICK r3 \in Begun(r2) : FinishEntry(r3, FALSE)
    BY <2>3
  <2>6. r3 \in Round /\ NoSolo(r3.choices)
    BY <2>4, BegunEffect
  <2> QED
    BY <1>1, <2>5, <2>6, FinishEntrySound
<1>4. CASE EnterEndOfCombat
  <2>1. PICK r1 \in Delayed(round) : \E r2 \in Begun(r1) : FinishEntry(r2, ~combat.attacking)
    BY <1>4 DEF EnterEndOfCombat
  <2>2. r1 \in Round /\ NoSolo(r1.choices)
    BY <1>1, DelayedEffect
  <2>3. PICK r2 \in Begun(r1) : FinishEntry(r2, ~combat.attacking)
    BY <2>1
  <2>4. r2 \in Round /\ NoSolo(r2.choices)
    BY <2>2, BegunEffect
  <2>5. (~combat.attacking) \in BOOLEAN /\ phase \in CombatSteps
    BY <1>4 DEF EnterEndOfCombat, CombatSteps
  <2> QED
    BY <1>1, <2>3, <2>4, <2>5, FinishEntrySound
<1>5. CASE EnterDeclareAttackers
  <2>1. PICK r \in Begun(round) : FinishEntry(r, FALSE)
    BY <1>5 DEF EnterDeclareAttackers
  <2>2. r \in Round /\ NoSolo(r.choices)
    BY <1>1, BegunEffect
  <2> QED
    BY <1>1, <2>1, <2>2, FinishEntrySound
<1> QED
  BY <1>2, <1>3, <1>4, <1>5

LEMMA EnterBlocksAndDamageSound ==
  ASSUME TypeOK, Sound, EnterDeclareBlockers \/ EnterDamage
  PROVE  Sound'
<1>1. round \in Round /\ round.choices = <<>> /\ NoSolo(round.choices)
  BY Entering DEF EnterDeclareBlockers, EnterDamage
<1>2. phase' = phase /\ phase \in CombatSteps
  BY DEF EnterDeclareBlockers, EnterDamage, CombatSteps
<1>3. ASSUME NEW r1 \in Round, NoSolo(r1.choices), NEW r2 \in Begun(r1) \cup Place("block", r1),
             NEW skipped \in BOOLEAN, FinishEntry(r2, skipped)
      PROVE  Sound'
  <2>1. r2 \in Round /\ NoSolo(r2.choices)
    BY <1>3, BegunEffect, PlaceEffect DEF Source
  <2> QED
    BY <1>2, <1>3, <2>1, FinishEntrySound
<1>4. (~combat.attacking) \in BOOLEAN
  OBVIOUS
<1>5. CASE EnterDeclareBlockers
  <2>1. PICK noLegalBlock \in {FALSE, combat.attacking} :
          \E r1 \in Begun(round) :
            \E r2 \in IF noLegalBlock THEN Place("block", r1) ELSE {r1} :
              FinishEntry(r2, ~combat.attacking)
    BY <1>5 DEF EnterDeclareBlockers
  <2>2. PICK r1 \in Begun(round) :
          \E r2 \in IF noLegalBlock THEN Place("block", r1) ELSE {r1} :
            FinishEntry(r2, ~combat.attacking)
    BY <2>1
  <2>3. r1 \in Round /\ NoSolo(r1.choices)
    BY <1>1, BegunEffect
  <2>4. PICK r2 \in IF noLegalBlock THEN Place("block", r1) ELSE {r1} :
          FinishEntry(r2, ~combat.attacking)
    BY <2>2
  <2>5. CASE r2 = r1
    BY <1>1, <1>3, <1>4, <2>4, <2>5
  <2>6. CASE r2 \in Place("block", r1)
    BY <1>3, <1>4, <2>3, <2>4, <2>6
  <2> QED
    BY <2>4, <2>5, <2>6
<1>6. CASE EnterDamage
  <2>1. \/ \E r \in Begun(round) : FinishEntry(r, TRUE) \/ FinishEntry(r, FALSE)
        \/ \E r1 \in Place("damage", round) : \E r2 \in Begun(r1) : FinishEntry(r2, FALSE)
    BY <1>6 DEF EnterDamage
  <2>2. CASE \E r \in Begun(round) : FinishEntry(r, TRUE) \/ FinishEntry(r, FALSE)
    BY <1>1, <1>3, <2>2
  <2>3. CASE \E r1 \in Place("damage", round) : \E r2 \in Begun(r1) : FinishEntry(r2, FALSE)
    <3>1. PICK r1 \in Place("damage", round) : \E r2 \in Begun(r1) : FinishEntry(r2, FALSE)
      BY <2>3
    <3>2. r1 \in Round /\ NoSolo(r1.choices)
      BY <1>1, PlaceEffect DEF Source
    <3> QED
      BY <1>3, <3>1, <3>2
  <2> QED
    BY <2>1, <2>2, <2>3
<1> QED
  BY <1>5, <1>6

LEMMA EnterCleanupSound ==
  ASSUME TypeOK, Sound, EnterCleanup
  PROVE  Sound'
<1> DEFINE ask == [kind |-> "cleanup", by |-> active, id |-> 0]
           asked == [round EXCEPT !.holder = active, !.choices = Append(@, ask)]
           Window(r) == Len(r.stack) > Len(round.stack) \/ r.held
<1>1. round \in Round /\ round.choices = <<>> /\ round.stack = <<>> /\ round.target = {}
  BY Entering DEF EnterCleanup, Sound, LeavesQuiet, Quiet, OwesInput, CombatSteps, DamageSteps
<1>2. phase = "CLEANUP" /\ phase' = phase
  BY DEF EnterCleanup
<1>3. CASE FinishEntry(asked, FALSE)
  <2>1. asked.choices = << ask >> /\ asked.stack = <<>> /\ asked.target = {}
    BY <1>1 DEF Round
  <2>2. << ask >> \in Seq(Choice)
    BY DEF TypeOK, Choice, ChoiceKind
  <2>3. asked \in Round
    BY <1>1, <2>1, <2>2 DEF TypeOK, Round
  <2>4. asked.choices # <<>>
    BY <2>1
  <2> HIDE DEF asked
  <2>5. /\ round'.choices = << ask >> /\ round'.stack = <<>> /\ round'.target = {}
        /\ Halt \/ Goto("drain")
    BY <1>3, <2>1, <2>3, <2>4 DEF FinishEntry, HeadChooser, Round
  <2>6. ctl'.at \in {"rest", "sweep", "drain"}
    BY <2>5, GotoAt, HaltAt
  <2>7. Len(round'.choices) = 1 /\ Head(round'.choices).kind = "cleanup"
    BY <2>5
  <2> QED
    BY <1>2, <2>5, <2>6, <2>7 DEF Sound, DrainOwed, SoloOwed, LeavesQuiet
<1>4. CASE \E r \in Delayed(round) : FinishEntry(r, ~Window(r))
  <2>1. PICK r \in Delayed(round) : FinishEntry(r, ~Window(r))
    BY <1>4
  <2>2. /\ r \in Round /\ r.choices = <<>>
        /\ r = round \/ Len(r.stack) > Len(round.stack)
    BY <1>1, DelayedEffect
  <2>3. ~Window(r) => r.stack = <<>> /\ r.target = {}
    BY <1>1, <2>2
  <2>4. (~Window(r)) \in BOOLEAN /\ NoSolo(r.choices)
    BY <2>2, NoSoloEmpty
  <2> HIDE DEF Window
  <2> QED
    BY <1>2, <2>1, <2>2, <2>3, <2>4, FinishEntrySound
<1> QED
  BY <1>3, <1>4 DEF EnterCleanup

-----------------------------------------------------------------------------
(* The end of a mutation.                                                  *)
LEMMA ClosingSound ==
  ASSUME TypeOK, Sound, Sweep \/ Recheck \/ LegendSettled \/ DamageDealt
  PROVE  Sound'
<1>1. round \in Round
  BY DEF TypeOK
<1>2. CASE Sweep
  <2>1. ctl'.at = "rest" /\ phase' = phase /\ ctl.at = "sweep"
    BY <1>2 DEF Sweep, AtRest
  <2>2. CASE ~NoSolo(round.choices)
    <3>1. Suspended(round)
      BY <2>2 DEF NoSolo, SoloKinds, KindsOf, Suspended
    <3>2. round' = round
      BY <1>2, <3>1 DEF Sweep
    <3> QED
      BY <2>1, <3>2 DEF Sound, DrainOwed, SoloOwed, LeavesQuiet
  <2>3. CASE NoSolo(round.choices)
    <3>1. round' = round \/ \E s \in CheckStateBasedActions(round) : round' = s.round
      BY <1>2 DEF Sweep, After
    <3>2. NoSolo(round'.choices)
      BY <1>1, <2>3, <3>1, CheckKinds
    <3> QED
      BY <2>1, <3>2, Working
  <2> QED
    BY <2>2, <2>3
<1>3. CASE Recheck
  <2>1. Halt /\ \E s \in CheckStateBasedActions(round) : round' = s.round
    BY <1>3 DEF Recheck, After
  <2>2. NoSolo(round.choices)
    BY <1>3, NoneElsewhere DEF Recheck
  <2>3. ctl'.at \in {"rest", "sweep"}
    BY <2>1, HaltAt
  <2> QED
    BY <1>1, <2>1, <2>2, <2>3, CheckKinds, Working
<1>4. CASE LegendSettled
  <2>1. PICK s \in CheckStateBasedActions(round) :
          round' = IF s.round.choices = <<>> /\ ~s.over
                   THEN [s.round EXCEPT !.holder = active] ELSE s.round
    BY <1>4 DEF LegendSettled
  <2>2. NoSolo(s.round.choices) /\ s.round \in Round
    BY <1>1, <1>4, NoneElsewhere, CheckKinds DEF LegendSettled
  <2>3. round'.choices = s.round.choices
    BY <2>1, <2>2 DEF Round
  <2>4. Halt
    BY <1>4 DEF LegendSettled
  <2>5. ctl'.at \in {"rest", "sweep"}
    BY <2>4, HaltAt
  <2> QED
    BY <2>2, <2>3, <2>5, Working
<1>5. CASE DamageDealt
  <2>1. PICK s \in CheckStateBasedActions(round) :
          round' = IF s.over THEN s.round ELSE Grant(s.round, active)
    BY <1>5 DEF DamageDealt
  <2>2. NoSolo(s.round.choices) /\ s.round \in Round
    BY <1>1, <1>5, NoneElsewhere, CheckKinds DEF DamageDealt
  <2>3. round'.choices = s.round.choices
    BY <2>1, <2>2 DEF Grant, Round
  <2>4. Goto("drain") \/ Halt
    BY <1>5 DEF DamageDealt
  <2>5. ctl'.at \in {"drain", "rest", "sweep"}
    BY <2>4, GotoAt, HaltAt
  <2> QED
    BY <2>2, <2>3, <2>5, Working
<1> QED
  BY <1>2, <1>3, <1>4, <1>5

LEMMA EngineSound ==
  ASSUME TypeOK, Sound, EngineStep
  PROVE  Sound'
BY DrainSound, CheckBeforePassSound, TakeSound, SuspendsSound, ResolveSound,
   RetargetOfferSound, SettleSound, AdvancePhaseSound, AdvanceTurnSound, EnterUntapSound,
   EnterStepSound, EnterBlocksAndDamageSound, EnterCleanupSound, ClosingSound
   DEF EngineStep

-----------------------------------------------------------------------------
(* The mutations.                                                          *)
LEMMA AwaitsNoChoice ==
  ASSUME TypeOK, NEW kind, kind \notin ChoiceKind, NEW p, Awaits(kind, p)
  PROVE  /\ round.choices = <<>> /\ NoSolo(round.choices)
         /\ kind # "target" => round.target = {}
<1>1. round.choices # <<>> => Head(round.choices) \in Choice
  BY HeadTailProperties DEF TypeOK, Round
<1>2. round.choices = <<>>
  BY <1>1 DEF Awaits, Choice
<1> QED
  BY <1>2, NoSoloEmpty DEF Awaits

LEMMA PassPrioritySound ==
  ASSUME TypeOK, NEW p \in Player, PassPriority(p)
  PROVE  Sound'
<1> DEFINE n == round.passes + 1
<1>1. round.choices = <<>> /\ round.target = {}
  BY AwaitsNoChoice DEF PassPriority, ChoiceKind
<1>2. \/ /\ Begin(IF round.stack # <<>> THEN "resolve" ELSE "advance", "pass", TRUE)
         /\ round' = [round EXCEPT !.passes = n]
      \/ /\ Begin("drain", "drain", TRUE)
         /\ round' = [round EXCEPT !.passes = n, !.holder = Opponent(p)]
  BY DEF PassPriority
<1> HIDE DEF n
<1>3. round'.choices = <<>> /\ round'.target = {} /\ round'.stack = round.stack
  BY <1>1, <1>2 DEF TypeOK, Round
<1>4. NoSolo(round'.choices)
  BY <1>3, NoSoloEmpty
<1>5. CASE Begin("advance", "pass", TRUE) /\ round.stack = <<>>
  <2>1. ctl'.at = "advance" /\ Quiet'
    BY <1>3, <1>5, BeginAt DEF Quiet, OwesInput
  <2> QED
    BY <1>3, <1>4, <2>1 DEF Sound, DrainOwed, SoloOwed, LeavesQuiet
<1>6. CASE Begin("resolve", "pass", TRUE) \/ Begin("drain", "drain", TRUE)
  <2>1. ctl'.at \in {"resolve", "drain"}
    BY <1>6, BeginAt
  <2> QED
    BY <1>4, <2>1, Working
<1> QED
  BY <1>2, <1>5, <1>6

(* A press leaves the round alone and starts the drain at most.            *)
LEMMA IntentsSound ==
  ASSUME Sound, NEW p \in Player,
         EndTurn(p) \/ PassUntilAction(p) \/ CancelAutoPass(p) \/ Concede(p)
  PROVE  Sound'
<1>1. round' = round /\ phase' = phase
  BY DEF EndTurn, PassUntilAction, CancelAutoPass, Concede
<1>2. ctl.at = "rest" /\ ctl'.at \in {"rest", "drain"}
  BY BeginAt DEF EndTurn, PassUntilAction, CancelAutoPass, Concede, Queues, Presses
<1> QED
  BY <1>1, <1>2 DEF Sound, DrainOwed, SoloOwed, LeavesQuiet

LEMMA CastSound ==
  ASSUME TypeOK, NEW p \in Player, NEW keep \in BOOLEAN, Cast(p, keep)
  PROVE  Sound'
<1>1. PICK c \in Card :
        round' \in Place("cast",
          [round EXCEPT !.stack = Append(@, [id |-> c, by |-> p, needs |-> FALSE]),
                        !.passes = 0, !.holder = Opponent(p)])
  BY DEF Cast
<1> DEFINE item == [id |-> c, by |-> p, needs |-> FALSE]
           cast == [round EXCEPT !.stack = Append(@, item),
                                 !.passes = 0, !.holder = Opponent(p)]
<1>2. item \in Item
  BY DEF Item
<1>3. round \in Round /\ round.stack \in Seq(Item) /\ Opponent(p) \in Player
  BY OpponentIsOther DEF TypeOK, Round
<1>4. round' \in Place("cast", cast)
  BY <1>1
<1> HIDE DEF item
<1>5. Append(round.stack, item) \in Seq(Item)
  BY <1>2, <1>3, AppendProperties
<1>6. cast \in Round /\ cast.choices = round.choices
  BY <1>3, <1>5 DEF Round
<1>7. NoSolo(cast.choices)
  BY <1>6, AwaitsNoChoice DEF Cast, ChoiceKind
<1> HIDE DEF cast
<1>8. NoSolo(round'.choices)
  BY <1>4, <1>6, <1>7, PlaceEffect DEF Source
<1>9. ctl'.at = "drain"
  BY BeginAt DEF Cast
<1> QED
  BY <1>8, <1>9, Working

(* Who answers a choice that is no solo one answers a queue without any.   *)
LEMMA Answering ==
  ASSUME TypeOK, Sound, NEW kind, NEW p, Answers(kind, p)
  PROVE  /\ round \in Round /\ round.choices \in Seq(Choice) /\ round.choices # <<>>
         /\ Head(round.choices).kind = kind
         /\ kind \notin SoloKinds => NoSolo(round.choices) /\ NoSolo(Tail(round.choices))
<1>1. /\ round \in Round /\ round.choices \in Seq(Choice) /\ round.choices # <<>>
      /\ Head(round.choices).kind = kind
  BY DEF TypeOK, Round, Answers, Awaits
<1>2. ASSUME ~NoSolo(round.choices)
      PROVE  kind \in SoloKinds
  <2>1. Len(round.choices) = 1
    BY <1>2 DEF Sound, SoloOwed
  <2>2. DOMAIN round.choices = {1} /\ Head(round.choices) = round.choices[1]
    BY <1>1, <2>1, LenProperties
  <2>3. KindsOf(round.choices) = {kind}
    BY <1>1, <2>2 DEF KindsOf
  <2> QED
    BY <1>2, <2>3 DEF NoSolo
<1>3. KindsOf(Tail(round.choices)) \subseteq KindsOf(round.choices)
  BY <1>1, KindsOfTail
<1> QED
  BY <1>1, <1>2, <1>3, NoSoloMore

LEMMA DequeuedEffect ==
  ASSUME NEW r \in Round, r.choices # <<>>
  PROVE  /\ Dequeued(r).choices = Tail(r.choices)
         /\ [r EXCEPT !.choices = Tail(@)].choices = Tail(r.choices)
         /\ [r EXCEPT !.choices = Tail(@)].stack = r.stack
         /\ [r EXCEPT !.choices = Tail(@)].target = r.target
         /\ [r EXCEPT !.choices = Tail(@)].held = r.held
<1> DEFINE t == [r EXCEPT !.choices = Tail(@)]
<1>1. t.choices = Tail(r.choices) /\ t.stack = r.stack /\ t.target = r.target /\ t.held = r.held
  BY DEF Round
<1>2. t \in Round
  BY TailType
<1>3. Dequeued(r) = HeadChooser(t)
  BY DEF Dequeued
<1> HIDE DEF t
<1>4. HeadChooser(t).choices = t.choices
  BY <1>2, HeadChooserEffect
<1> QED
  BY <1>1, <1>3, <1>4 DEF t

LEMMA AnswersSound ==
  ASSUME TypeOK, Sound, NEW p \in Player, AnswerResolution(p) \/ AnswerLegend(p)
  PROVE  Sound'
<1>1. CASE AnswerResolution(p)
  <2>1. round \in Round /\ round.choices # <<>> /\ NoSolo(Tail(round.choices))
    BY <1>1, Answering DEF AnswerResolution, SoloKinds
  <2>2. round'.choices = Tail(round.choices)
    <3> DEFINE place == Min(Places(round, Head(round.choices).id))
               r == [round EXCEPT !.told = place]
    <3>1. place \in Nat
      BY <1>1, <2>1, LeastPlace DEF AnswerResolution
    <3>2. round' = Dequeued(r)
      BY <1>1 DEF AnswerResolution
    <3> HIDE DEF place
    <3>3. r \in Round /\ r.choices = round.choices
      BY <2>1, <3>1 DEF Round
    <3> HIDE DEF r
    <3> QED
      BY <2>1, <3>2, <3>3, DequeuedEffect
  <2>3. Begin("sweep", "answer", TRUE) \/ Begin("resolve", "answer", TRUE)
    BY <1>1 DEF AnswerResolution
  <2>4. ctl'.at \in {"sweep", "resolve"}
    BY <2>3, BeginAt
  <2> QED
    BY <2>1, <2>2, <2>4, Working
<1>2. CASE AnswerLegend(p)
  <2>1. round \in Round /\ round.choices # <<>> /\ NoSolo(Tail(round.choices))
    BY <1>2, Answering DEF AnswerLegend, SoloKinds
  <2>2. round'.choices = Tail(round.choices)
    BY <1>2, <2>1, DequeuedEffect DEF AnswerLegend
  <2>3. ctl'.at = "legend"
    BY <1>2, BeginAt DEF AnswerLegend
  <2> QED
    BY <2>1, <2>2, <2>3, Working
<1> QED
  BY <1>1, <1>2

LEMMA AnswerDrawSound ==
  ASSUME TypeOK, Sound, NEW p \in Player, AnswerDraw(p)
  PROVE  Sound'
<1>1. round \in Round /\ round.choices # <<>> /\ NoSolo(Tail(round.choices))
  BY Answering DEF AnswerDraw, SoloKinds
<1> DEFINE t == [round EXCEPT !.choices = Tail(@)]
<1>2. PICK r \in Place("event", t) :
        /\ round' = IF r.choices # <<>> THEN HeadChooser(r) ELSE Grant(r, active)
        /\ Begin(IF r.choices # <<>> THEN "sweep" ELSE "drain", "answer", TRUE)
  BY DEF AnswerDraw
<1>3. t \in Round /\ NoSolo(t.choices)
  BY <1>1, TailType, DequeuedEffect
<1> HIDE DEF t
<1>4. r \in Round /\ NoSolo(r.choices)
  BY <1>2, <1>3, PlaceEffect DEF Source
<1>5. round'.choices = r.choices
  BY <1>2, <1>4, HeadChooserEffect DEF Grant, Round
<1>6. ctl'.at \in {"sweep", "drain"}
  BY <1>2, BeginAt
<1> QED
  BY <1>4, <1>5, <1>6, Working

LEMMA AnswerOrderSound ==
  ASSUME TypeOK, Sound, NEW p \in Player, AnswerOrder(p)
  PROVE  Sound'
<1>1. /\ round \in Round /\ round.choices # <<>> /\ active \in Player
      /\ round.stack \in Seq(Item) /\ round.batch \in Batch
      /\ round.batch.of \in [Player -> Seq(Trigger)] /\ round.batch.lead \in Player
  BY DEF TypeOK, AnswerOrder, Answers, Round, Batch
<1>0. NoSolo(Tail(round.choices))
  BY Answering DEF AnswerOrder, SoloKinds
<1>2. PICK slice \in Orders(round.batch.of[p]) :
        LET b == [round.batch EXCEPT !.of[p] = slice]
            more == Rest(round) # <<>> /\ Head(Rest(round)).kind = "order"
        IN  IF more
            THEN /\ round' = Dequeued([round EXCEPT !.batch = b])
                 /\ Begin("sweep", "answer", TRUE)
            ELSE /\ round' = Land([round EXCEPT
                      !.choices = Tail(@), !.held = FALSE, !.batch = NoBatch(active),
                      !.stack = @ \o b.of[b.lead] \o b.of[Opponent(b.lead)]], active)
                 /\ Begin("recheck", "answer", TRUE)
  BY DEF AnswerOrder
<1> DEFINE b == [round.batch EXCEPT !.of[p] = slice]
           parked == [round EXCEPT !.batch = b]
           landed == [round EXCEPT
             !.choices = Tail(@), !.held = FALSE, !.batch = NoBatch(active),
             !.stack = @ \o b.of[b.lead] \o b.of[Opponent(b.lead)]]
<1>3. slice \in Seq(Trigger)
  BY <1>1, OrdersType
<1>4. b \in Batch /\ b.lead \in Player
  BY <1>1, <1>3 DEF Batch
<1>5. \/ round' = Dequeued(parked) /\ Begin("sweep", "answer", TRUE)
      \/ round' = Land(landed, active) /\ Begin("recheck", "answer", TRUE)
  BY <1>2
<1> HIDE DEF b
<1>6. round.stack \o b.of[b.lead] \o b.of[Opponent(b.lead)] \in Seq(Item)
  BY <1>1, <1>4, OpponentIsOther, StackedType
<1>7. Tail(round.choices) \in Seq(Choice) /\ NoBatch(active) \in Batch
  BY <1>1, HeadTailProperties, NoBatchType DEF Round
<1>8. parked \in Round /\ parked.choices = round.choices
  BY <1>1, <1>4 DEF Round
<1>9. landed \in Round /\ landed.choices = Tail(round.choices)
  BY <1>1, <1>6, <1>7 DEF Round
<1> HIDE DEF parked, landed
<1>10. round'.choices = Tail(round.choices)
  <2>1. CASE round' = Dequeued(parked)
    <3>1. parked.choices # <<>>
      BY <1>1, <1>8
    <3>2. Dequeued(parked).choices = Tail(parked.choices)
      BY <1>8, <3>1, DequeuedEffect
    <3> QED
      BY <1>8, <2>1, <3>2
  <2>2. CASE round' = Land(landed, active)
    BY <1>1, <1>9, <2>2, LandEffect
  <2> QED
    BY <1>5, <2>1, <2>2
<1>11. ctl'.at \in {"sweep", "recheck"}
  BY <1>5, BeginAt
<1> QED
  BY <1>0, <1>10, <1>11, Working

(* The answers that resume a suspended step: nothing else is open, so the  *)
(* step is left on a quiet round.                                          *)
LEMMA Resuming ==
  ASSUME TypeOK, Sound, NEW kind \in SoloKinds, NEW p, Answers(kind, p)
  PROVE  /\ round \in Round /\ round.choices # <<>> /\ Tail(round.choices) = <<>>
         /\ round.stack = <<>> /\ round.target = {}
         /\ phase = IF kind = "cleanup" THEN "CLEANUP" ELSE "UNTAP"
<1>1. /\ round \in Round /\ round.choices \in Seq(Choice) /\ round.choices # <<>>
      /\ Head(round.choices).kind = kind
  BY Answering
<1>2. ~NoSolo(round.choices)
  BY <1>1, HeadKind DEF NoSolo
<1>3. /\ Len(round.choices) = 1 /\ round.stack = <<>> /\ round.target = {}
      /\ phase = IF kind = "cleanup" THEN "CLEANUP" ELSE "UNTAP"
  BY <1>1, <1>2 DEF Sound, SoloOwed
<1>4. Tail(round.choices) \in Seq(Choice) /\ Len(Tail(round.choices)) = 0
  BY <1>1, <1>3, HeadTailProperties
<1>5. Tail(round.choices) = <<>>
  BY <1>4, EmptySeq
<1> QED
  BY <1>1, <1>3, <1>5

LEMMA AnswerUntapSound ==
  ASSUME TypeOK, Sound, NEW p \in Player, AnswerUntap(p)
  PROVE  Sound'
<1>1. /\ round \in Round /\ round.choices # <<>> /\ Tail(round.choices) = <<>>
      /\ round.stack = <<>> /\ round.target = {}
  BY Resuming DEF AnswerUntap, SoloKinds
<1>2. phase' = phase
  BY DEF AnswerUntap
<1> DEFINE rest == [round EXCEPT !.choices = Tail(@)]
<1>3. ASSUME NEW r \in Place("untap", rest), round' = r,
             Begin(IF r.choices # <<>> THEN "sweep" ELSE "advance", "answer", TRUE)
      PROVE  Sound'
  <2>1. rest \in Round /\ NoSolo(rest.choices)
    BY <1>1, DequeuedEffect, TailType, NoSoloEmpty
  <2>2. NoSolo(round'.choices)
    BY <1>3, <2>1, PlaceEffect DEF Source
  <2>3. CASE r.choices # <<>>
    <3>1. ctl'.at = "sweep"
      BY <1>3, <2>3, BeginAt
    <3> QED
      BY <2>2, <3>1, Working
  <2>4. CASE r.choices = <<>>
    <3>1. ctl'.at = "advance" /\ round'.choices = <<>>
      BY <1>3, <2>4, BeginAt
    <3>2. phase = "UNTAP"
      BY Resuming DEF AnswerUntap, SoloKinds
    <3> QED
      BY <1>2, <2>2, <3>1, <3>2 DEF Sound, DrainOwed, SoloOwed, LeavesQuiet
  <2> QED
    BY <2>3, <2>4
<1>4. CASE round' = round /\ Begin("sweep", "answer", TRUE)
  <2>1. ctl.at = "rest" /\ ctl'.at = "sweep"
    BY <1>4, BeginAt
  <2> QED
    BY <1>2, <1>4, <2>1 DEF Sound, DrainOwed, SoloOwed, LeavesQuiet
<1> QED
  BY <1>3, <1>4 DEF AnswerUntap

LEMMA AnswerCleanupSound ==
  ASSUME TypeOK, Sound, NEW p \in Player, AnswerCleanup(p)
  PROVE  Sound'
<1> DEFINE r == [round EXCEPT !.choices = Tail(@)]
           parked(x) == x.held \/ x.target # {}
           window(x) == Len(x.stack) > Len(r.stack) \/ x.held
<1>1. PICK r1 \in Delayed(r) : \E r2 \in Place("event", r1) :
        /\ owed' = [Undelayed EXCEPT !.cleanup = @ \/ window(r2)]
        /\ round' = IF window(r2) /\ ~parked(r2) THEN Grant(r2, active) ELSE r2
        /\ Begin(IF ~window(r2) THEN "advance" ELSE IF parked(r2) THEN "sweep" ELSE "drain",
                 "answer", TRUE)
  BY DEF AnswerCleanup
<1>2. PICK r2 \in Place("event", r1) :
        /\ round' = IF window(r2) /\ ~parked(r2) THEN Grant(r2, active) ELSE r2
        /\ Begin(IF ~window(r2) THEN "advance" ELSE IF parked(r2) THEN "sweep" ELSE "drain",
                 "answer", TRUE)
  BY <1>1
<1>3. /\ round \in Round /\ round.choices # <<>> /\ Tail(round.choices) = <<>>
      /\ round.stack = <<>> /\ round.target = {}
  BY Resuming DEF AnswerCleanup, SoloKinds
<1>4. r \in Round /\ r.choices = <<>> /\ r.stack = <<>> /\ r.target = {}
  BY <1>3, DequeuedEffect, TailType
<1> HIDE DEF r
<1>5. r1 \in Round /\ r1.choices = <<>> /\ (r1 = r \/ Len(r1.stack) > Len(r.stack))
  BY <1>4, DelayedEffect
<1>6. /\ r2 \in Round /\ NoSolo(r2.choices)
      /\ r2 = r1 \/ r2.held \/ Len(r2.stack) > Len(r1.stack)
  BY <1>5, NoSoloEmpty, PlaceEffect DEF Source
<1>7. CASE window(r2)
  <2>1. round'.choices = r2.choices
    BY <1>2, <1>6, <1>7 DEF Grant, Round
  <2>2. Begin("sweep", "answer", TRUE) \/ Begin("drain", "answer", TRUE)
    BY <1>2, <1>7
  <2>3. ctl'.at \in {"sweep", "drain"}
    BY <2>2, BeginAt
  <2> QED
    BY <1>6, <2>1, <2>3, Working
<1>8. CASE ~window(r2)
  <2>1. Len(r.stack) \in Nat /\ Len(r1.stack) \in Nat /\ Len(r2.stack) \in Nat
    BY <1>4, <1>5, <1>6, LenProperties DEF Round
  <2>2. r2 = r
    BY <1>5, <1>6, <1>8, <2>1
  <2>3. round' = r /\ Begin("advance", "answer", TRUE)
    BY <1>2, <1>8, <2>2
  <2>4. ctl'.at = "advance" /\ Quiet' /\ round'.choices = <<>>
    BY <1>4, <2>3, BeginAt DEF Quiet, OwesInput
  <2> QED
    BY <2>4, NoSoloEmpty DEF Sound, DrainOwed, SoloOwed, LeavesQuiet
<1> QED
  BY <1>7, <1>8

LEMMA LandTargetSound ==
  ASSUME TypeOK, NEW r \in Round, NoSolo(r.choices), LandTarget(r)
  PROVE  Sound'
<1>1. Begin("rest", "drain", FALSE) \/ Begin("drain", "drain", FALSE)
  BY DEF LandTarget
<1>2. ctl'.at \in {"rest", "drain"}
  BY <1>1, BeginAt
<1>3. round'.choices = r.choices
  BY LandEffect DEF LandTarget, TypeOK
<1> QED
  BY <1>2, <1>3, Working

LEMMA TargetsSound ==
  ASSUME TypeOK, NEW p \in Player, ChooseTarget(p) \/ DeclineTarget(p) \/ Retarget(p)
  PROVE  Sound'
<1>1. round \in Round /\ active \in Player
  BY DEF TypeOK
<1>2. NoSolo(round.choices)
  BY AwaitsNoChoice DEF ChooseTarget, DeclineTarget, Retarget, Chosen, ChoiceKind
<1>3. CASE ChooseTarget(p)
  <2>1. PICK t \in Chosen("trigger", p) : LandTarget(Announced(round, t.id))
    BY <1>3 DEF ChooseTarget
  <2>2. Announced(round, t.id) \in Round
    BY <1>1, AnnouncedType
  <2>3. Announced(round, t.id).choices = round.choices
    BY <1>1 DEF Announced, Round
  <2> QED
    BY <1>2, <2>1, <2>2, <2>3, LandTargetSound
<1>4. CASE DeclineTarget(p)
  <2>0. PICK t \in Chosen("trigger", p) :
          \E k \in Places(round, t.id) : LandTarget(Withdrawn(round, k))
    BY <1>4 DEF DeclineTarget
  <2>1. PICK k \in Places(round, t.id) : LandTarget(Withdrawn(round, k))
    BY <2>0
  <2>2. Withdrawn(round, k) \in Round
    BY <1>1, WithdrawnType
  <2>3. Withdrawn(round, k).choices = round.choices
    BY <1>1 DEF Withdrawn, Round
  <2> QED
    BY <1>2, <2>1, <2>2, <2>3, LandTargetSound
<1>5. CASE Retarget(p)
  <2>1. [round EXCEPT !.target = {}] \in Round
    BY <1>1 DEF Round
  <2>2. Grant([round EXCEPT !.target = {}], active) \in Round
    BY <1>1, <2>1, GrantType
  <2>3. Grant([round EXCEPT !.target = {}], active).choices = round.choices
    BY <1>1 DEF Grant, Round
  <2>4. NoSolo(round'.choices)
    BY <1>2, <1>5, <2>2, <2>3, PlaceEffect DEF Retarget, Source
  <2>5. ctl'.at = "drain"
    BY <1>5, BeginAt DEF Retarget
  <2> QED
    BY <2>4, <2>5, Working
<1> QED
  BY <1>3, <1>4, <1>5

(* A declaration asks for nothing but orders of triggers.                  *)
LEMMA ChargeTaxesSound ==
  ASSUME TypeOK, NoSolo(round.choices), NEW c, ChargeTaxes(c)
  PROVE  Sound'
<1>1. round \in Round /\ active \in Player
  BY DEF TypeOK
<1>2. CASE FinalizeConfirmAttackers(c)
  <2>1. PICK r \in IF c.attacking THEN Place("attack", round) ELSE {round} :
          round' = Grant(r, active)
    BY <1>2 DEF FinalizeConfirmAttackers
  <2>2. r \in Round /\ NoSolo(r.choices)
    BY <1>1, <2>1, PlaceEffect DEF Source
  <2>3. round'.choices = r.choices
    BY <2>1, <2>2 DEF Grant, Round
  <2>4. ctl'.at = "drain"
    BY <1>2, BeginAt DEF FinalizeConfirmAttackers
  <2> QED
    BY <2>2, <2>3, <2>4, Working
<1>3. CASE \E tax \in Tax : Park(c, tax)
  <2>1. round' = round /\ ctl'.at = "rest"
    BY <1>3, BeginAt DEF Park
  <2> QED
    BY <2>1, Working
<1>4. FinalizeConfirmAttackers(c) \/ Park(c, "mana") \/ Park(c, "sacrifice")
  BY DEF ChargeTaxes
<1> QED
  BY <1>2, <1>3, <1>4 DEF Tax

LEMMA DeclarationsSound ==
  ASSUME TypeOK, NEW p \in Player,
         \/ ToggleAttacker(p) \/ ConfirmAttackers(p) \/ PayAttackTax(p)
         \/ CancelAttackTax(p) \/ ConfirmBlockers(p) \/ ConfirmDamage(p)
  PROVE  Sound'
<1>1. round \in Round /\ active \in Player /\ combat.parked \subseteq Tax
  BY DEF TypeOK, Combat
<1>2. \E kind : kind \notin ChoiceKind /\ \E q : Awaits(kind, q)
  BY <1>1 DEF ToggleAttacker, ConfirmAttackers, PayAttackTax, CancelAttackTax, ConfirmBlockers,
              ConfirmDamage, Declares, ChoiceKind, Tax
<1>3. NoSolo(round.choices)
  BY <1>2, AwaitsNoChoice
<1>4. CASE ToggleAttacker(p)
  <2>1. round' = round /\ ctl'.at = "rest"
    BY <1>4 DEF ToggleAttacker
  <2> QED
    BY <1>3, <2>1, Working
<1>5. CASE ConfirmAttackers(p) \/ PayAttackTax(p)
  <2>1. \E c : ChargeTaxes(c)
    BY <1>5 DEF ConfirmAttackers, PayAttackTax
  <2> QED
    BY <1>3, <2>1, ChargeTaxesSound
<1>6. CASE CancelAttackTax(p)
  <2>1. round' = round /\ ctl'.at = "rest"
    BY <1>6, BeginAt DEF CancelAttackTax
  <2> QED
    BY <1>3, <2>1, Working
<1>7. CASE ConfirmBlockers(p)
  <2>1. PICK r \in Place("block", round) : round' = Grant(r, active)
    BY <1>7 DEF ConfirmBlockers
  <2>2. r \in Round /\ NoSolo(r.choices)
    BY <1>1, <1>3, PlaceEffect DEF Source
  <2>3. round'.choices = r.choices
    BY <2>1, <2>2 DEF Grant, Round
  <2>4. ctl'.at = "drain"
    BY <1>7, BeginAt DEF ConfirmBlockers
  <2> QED
    BY <2>2, <2>3, <2>4, Working
<1>8. CASE ConfirmDamage(p)
  <2>1. \/ Begin("rest", "drain", FALSE) /\ round' = round
        \/ Begin("dealt", "drain", FALSE) /\ round' \in Place("damage", round)
    BY <1>8 DEF ConfirmDamage
  <2>2. ctl'.at \in {"rest", "dealt"}
    BY <2>1, BeginAt
  <2>3. NoSolo(round'.choices)
    BY <1>1, <1>3, <2>1, PlaceEffect DEF Source
  <2> QED
    BY <2>2, <2>3, Working
<1> QED
  BY <1>4, <1>5, <1>6, <1>7, <1>8

LEMMA MutationSound ==
  ASSUME TypeOK, Sound, NEW p \in Player, Mutation(p)
  PROVE  Sound'
BY PassPrioritySound, IntentsSound, CastSound, AnswersSound, AnswerOrderSound,
   AnswerUntapSound, AnswerDrawSound, AnswerCleanupSound, TargetsSound, DeclarationsSound
   DEF Mutation

LEMMA InitSound == Init => Sound
<1> SUFFICES ASSUME Init
             PROVE  Sound
  OBVIOUS
<1>1. round.choices = <<>> /\ ctl.at = "rest"
  BY DEF Init, AtRest
<1> QED
  BY <1>1, NoSoloEmpty DEF Sound, DrainOwed, SoloOwed, LeavesQuiet

(* The invariant the rest follows from.                                    *)
LEMMA OrderInvariant == Spec => []OrderInv
<1>1. Init => OrderInv
  BY InitType, InitSound DEF OrderInv
<1>2. OrderInv /\ [Next]_vars => OrderInv'
  <2> SUFFICES ASSUME OrderInv, [Next]_vars
               PROVE  OrderInv'
    OBVIOUS
  <2>1. CASE EngineStep
    BY <2>1, EngineType, EngineSound DEF OrderInv
  <2>2. CASE \E p \in Player : Mutation(p)
    BY <2>2, MutationType, MutationSound DEF OrderInv
  <2>3. CASE UNCHANGED vars
    BY <2>3 DEF OrderInv, TypeOK, Sound, DrainOwed, SoloOwed, LeavesQuiet, Quiet, vars
  <2> QED
    BY <2>1, <2>2, <2>3 DEF Next
<1> QED
  BY <1>1, <1>2, PTL DEF Spec

(* No turn ends over an object on the stack or an input owed, whatever the *)
(* cards trigger and whichever of the three ways out of the cleanup step   *)
(* ends it (advanceTurn is reached from advancePhase alone).               *)
THEOREM TurnsEndQuiet == Spec => []TurnEndsQuiet
<1>1. OrderInv => TurnEndsQuiet
  BY DEF OrderInv, Sound, LeavesQuiet, Quiet, TurnEndsQuiet
<1> QED
  BY <1>1, OrderInvariant, PTL

-----------------------------------------------------------------------------
(* TurnOrder, step by step.                                                *)
LEMMA Stutters ==
  ASSUME UNCHANGED << active, phase >>, owed'.turns = owed.turns, owed'.skips = owed.skips,
         owed'.combats = owed.combats, owed'.cleanup = owed.cleanup
  PROVE  TurnStructure!OrderNext \/ UNCHANGED TurnStructure!orderVars
BY DEF TurnStructure!orderVars

(* A step is followed by the one the abstract order puts after it.         *)
LEMMA StepAfterFollows ==
  ASSUME NEW p \in Phase, NEW q \in Phase, Follows(p, q)
  PROVE  q = TurnStructure!StepAfter(p)
<1>1. PICK i \in 1..12 : PHASE_ORDER[i] = p /\ PHASE_ORDER[i + 1] = q
  BY DEF Follows
<1>2. DOMAIN PHASE_ORDER = 1..13
  BY DEF PHASE_ORDER
<1>3. \A j \in 1..13 : PHASE_ORDER[j] = p => j = i
  BY <1>1 DEF PHASE_ORDER
<1>4. (CHOOSE j \in DOMAIN PHASE_ORDER : PHASE_ORDER[j] = p) = i
  BY <1>1, <1>2, <1>3
<1>5. TurnStructure!StepAfter(p)
        = PHASE_ORDER[1 + (CHOOSE j \in DOMAIN PHASE_ORDER : PHASE_ORDER[j] = p)]
  BY DEF TurnStructure!StepAfter
<1>6. 1 + i = i + 1
  OBVIOUS
<1> QED
  BY <1>1, <1>4, <1>5, <1>6, Zenon

LEMMA AdvancePhaseInOrder ==
  ASSUME TypeOK, AdvancePhase
  PROVE  TurnStructure!OrderNext \/ UNCHANGED TurnStructure!orderVars
<1> DEFINE again == phase = "CLEANUP" /\ owed.cleanup
           extra == phase = "END_OF_COMBAT" /\ owed.combats > 0
<1>1. /\ owed' = [owed EXCEPT !.cleanup = @ /\ ~again,
                              !.combats = IF extra THEN @ - 1 ELSE @]
      /\ IF phase = "CLEANUP" /\ ~again THEN phase' = phase /\ Goto("turn")
         ELSE /\ IF again THEN phase' = phase
                 ELSE IF extra THEN phase' = "BEGINNING_OF_COMBAT"
                 ELSE phase' \in Phase /\ Follows(phase, phase')
              /\ Goto("enter")
      /\ active' = active
  BY DEF AdvancePhase
<1>2. /\ owed'.turns = owed.turns /\ owed'.skips = owed.skips
      /\ owed'.cleanup = (owed.cleanup /\ ~again)
      /\ owed'.combats = IF extra THEN owed.combats - 1 ELSE owed.combats
  BY <1>1 DEF TypeOK, Owed
<1>3. owed.cleanup \in BOOLEAN /\ phase \in Phase
  BY DEF TypeOK, Owed
<1>4. CASE again
  <2>1. TurnStructure!AnotherCleanup
    BY <1>1, <1>2, <1>4 DEF TurnStructure!AnotherCleanup
  <2> QED
    BY <2>1 DEF TurnStructure!OrderNext
<1>5. CASE ~again /\ phase = "CLEANUP"
  <2>1. phase' = phase /\ owed'.cleanup = owed.cleanup /\ owed'.combats = owed.combats
    BY <1>1, <1>2, <1>3, <1>5
  <2> QED
    BY <1>1, <1>2, <2>1, Stutters
<1>6. CASE extra
  <2>1. phase' = "BEGINNING_OF_COMBAT" /\ owed'.cleanup = owed.cleanup
    BY <1>1, <1>2, <1>3, <1>6
  <2>2. TurnStructure!ExtraCombat
    BY <1>1, <1>2, <1>6, <2>1 DEF TurnStructure!ExtraCombat
  <2> QED
    BY <2>2 DEF TurnStructure!OrderNext
<1>7. CASE ~extra /\ phase # "CLEANUP"
  <2>1. /\ phase' \in Phase /\ Follows(phase, phase')
        /\ owed'.cleanup = owed.cleanup /\ owed'.combats = owed.combats
    BY <1>1, <1>2, <1>3, <1>7
  <2>2. phase' = TurnStructure!StepAfter(phase)
    BY <1>3, <2>1, StepAfterFollows
  <2>3. TurnStructure!NextStep
    BY <1>1, <1>2, <1>7, <2>1, <2>2 DEF TurnStructure!NextStep, TurnStructure!owedVars
  <2> QED
    BY <2>3 DEF TurnStructure!OrderNext
<1> QED
  BY <1>4, <1>5, <1>6, <1>7

LEMMA AdvanceTurnInOrder ==
  ASSUME TypeOK, Sound, AdvanceTurn
  PROVE  TurnStructure!OrderNext
<1> DEFINE n == Len(owed.turns)
           next == IF n > 0 THEN LatestTurn(owed.turns) ELSE Opponent(active)
           left == [owed EXCEPT !.turns = IF n > 0 THEN SubSeq(@, 1, n - 1) ELSE @]
<1>1. phase = "CLEANUP" /\ ~owed.cleanup
  BY DEF AdvanceTurn, Sound, LeavesQuiet
<1>2. next \in Player /\ left \in Owed /\ owed \in Owed
  BY NextPlayerType, TurnsLeftType DEF TypeOK
<1>3. /\ left.turns = IF n > 0 THEN SubSeq(owed.turns, 1, n - 1) ELSE owed.turns
      /\ left.skips = owed.skips /\ left.combats = owed.combats
      /\ left.cleanup = owed.cleanup
  BY <1>2 DEF Owed
<1>4. /\ active' = next
      /\ IF owed.skips[next] > 0
         THEN /\ owed' = [left EXCEPT !.skips[next] = @ - 1]
              /\ UNCHANGED << phase, intent, ctl >>
         ELSE /\ owed' = [left EXCEPT !.combats = 0]
              /\ phase' = "UNTAP" /\ Goto("enter")
              /\ intent' = TurnOver(intent)
  BY DEF AdvanceTurn
<1>5. owed.turns = <<>> <=> ~(n > 0)
  BY <1>2, EmptySeq, LenProperties DEF Owed
<1>6. /\ owed.turns = <<>> => next = TurnStructure!Rival(active) /\ left.turns = owed.turns
      /\ owed.turns # <<>> => /\ next = owed.turns[Len(owed.turns)]
                              /\ left.turns = SubSeq(owed.turns, 1, Len(owed.turns) - 1)
  BY <1>3, <1>5 DEF TurnStructure!Rival, Opponent, LatestTurn
<1> HIDE DEF n, next, left
<1>7. /\ owed'.turns = left.turns /\ owed'.cleanup = left.cleanup
  BY <1>2, <1>4 DEF Owed
<1>8. TurnStructure!Comes(next)
  BY <1>6, <1>7 DEF TurnStructure!Comes
<1>9. TurnStructure!TurnEnds(next)
  BY <1>1, <1>3, <1>4, <1>7, <1>8 DEF TurnStructure!TurnEnds
<1>10. CASE owed.skips[next] > 0
  <2>1. /\ owed'.skips = [owed.skips EXCEPT ![next] = @ - 1] /\ owed'.combats = owed.combats
        /\ phase' = phase
    BY <1>2, <1>3, <1>4, <1>10 DEF Owed
  <2>2. TurnStructure!SkipTurn(next)
    BY <1>9, <1>10, <2>1 DEF TurnStructure!SkipTurn
  <2> QED
    BY <1>2, <2>2 DEF TurnStructure!OrderNext
<1>11. CASE ~(owed.skips[next] > 0)
  <2>1. owed'.skips = owed.skips /\ owed'.combats = 0 /\ phase' = "UNTAP"
    BY <1>2, <1>3, <1>4, <1>11 DEF Owed
  <2>2. owed.skips[next] = 0
    BY <1>2, <1>11 DEF Owed
  <2>3. TurnStructure!NextTurn(next)
    BY <1>9, <2>1, <2>2 DEF TurnStructure!NextTurn
  <2> QED
    BY <1>2, <2>3 DEF TurnStructure!OrderNext
<1> QED
  BY <1>10, <1>11

(* What a resolution grants is one of the abstract grants, or nothing.     *)
LEMMA ResolveInOrder ==
  ASSUME TypeOK, ResolveTopOfStack \/ ResolveWithRetarget
  PROVE  TurnStructure!OrderNext \/ UNCHANGED TurnStructure!orderVars
<1>1. owed \in Owed /\ active' = active /\ phase' = phase
  BY DEF TypeOK, ResolveTopOfStack, ResolveWithRetarget, Resolved
<1>2. \/ owed' = owed
      \/ \E s : owed' = [owed EXCEPT !.delayed = @ \cup {s}]
      \/ \E p \in Player : \/ owed' = [owed EXCEPT !.turns = Append(@, p)]
                           \/ owed' = [owed EXCEPT !.skips[p] = @ + 1]
                           \/ owed' = [owed EXCEPT !.draws = @ \cup {p}]
      \/ owed' = [owed EXCEPT !.combats = @ + 1]
  BY DEF ResolveTopOfStack, ResolveWithRetarget, Resolved
<1>3. CASE \/ owed' = owed
           \/ \E s : owed' = [owed EXCEPT !.delayed = @ \cup {s}]
           \/ \E p \in Player : owed' = [owed EXCEPT !.draws = @ \cup {p}]
  <2>1. /\ owed'.turns = owed.turns /\ owed'.skips = owed.skips
        /\ owed'.combats = owed.combats /\ owed'.cleanup = owed.cleanup
    BY <1>1, <1>3 DEF Owed
  <2> QED
    BY <1>1, <2>1, Stutters
<1>4. ASSUME NEW p \in Player, owed' = [owed EXCEPT !.turns = Append(@, p)]
      PROVE  TurnStructure!OrderNext
  <2>1. TurnStructure!GrantTurn(p)
    BY <1>1, <1>4 DEF TurnStructure!GrantTurn, Owed
  <2> QED
    BY <2>1 DEF TurnStructure!OrderNext
<1>5. ASSUME NEW p \in Player, owed' = [owed EXCEPT !.skips[p] = @ + 1]
      PROVE  TurnStructure!OrderNext
  <2>1. TurnStructure!GrantSkip(p)
    BY <1>1, <1>5 DEF TurnStructure!GrantSkip, Owed
  <2> QED
    BY <2>1 DEF TurnStructure!OrderNext
<1>6. CASE owed' = [owed EXCEPT !.combats = @ + 1]
  <2>1. TurnStructure!GrantCombat
    BY <1>1, <1>6 DEF TurnStructure!GrantCombat, Owed
  <2> QED
    BY <2>1 DEF TurnStructure!OrderNext
<1> QED
  BY <1>2, <1>3, <1>4, <1>5, <1>6

(* A cleanup step that opens a round of priority owes another one.         *)
LEMMA CleanupInOrder ==
  ASSUME TypeOK, phase = "CLEANUP", UNCHANGED << active, phase >>,
         NEW window \in BOOLEAN, owed' = [Undelayed EXCEPT !.cleanup = @ \/ window]
  PROVE  TurnStructure!OrderNext \/ UNCHANGED TurnStructure!orderVars
<1>1. owed \in Owed /\ owed.cleanup \in BOOLEAN
  BY DEF TypeOK, Owed
<1>2. /\ owed'.turns = owed.turns /\ owed'.skips = owed.skips
      /\ owed'.combats = owed.combats /\ owed'.cleanup = (owed.cleanup \/ window)
  BY <1>1 DEF Undelayed, Owed
<1>3. CASE owed.cleanup \/ ~window
  <2>1. owed'.cleanup = owed.cleanup
    BY <1>1, <1>2, <1>3
  <2> QED
    BY <1>2, <2>1, Stutters
<1>4. CASE ~owed.cleanup /\ window
  <2>1. TurnStructure!GrantCleanup
    BY <1>2, <1>4 DEF TurnStructure!GrantCleanup
  <2> QED
    BY <2>1 DEF TurnStructure!OrderNext
<1> QED
  BY <1>3, <1>4

LEMMA EngineInOrder ==
  ASSUME TypeOK, Sound, EngineStep
  PROVE  TurnStructure!OrderNext \/ UNCHANGED TurnStructure!orderVars
<1>1. CASE AdvancePhase
  BY <1>1, AdvancePhaseInOrder
<1>2. CASE AdvanceTurn
  BY <1>2, AdvanceTurnInOrder
<1>3. CASE ResolveTopOfStack \/ ResolveWithRetarget
  BY <1>3, ResolveInOrder
<1>4. CASE EnterCleanup
  <2>1. phase = "CLEANUP" /\ UNCHANGED << active, phase >>
    BY <1>4 DEF EnterCleanup
  <2>2. \/ owed' = owed
        \/ \E window \in BOOLEAN : owed' = [Undelayed EXCEPT !.cleanup = @ \/ window]
    BY <1>4 DEF EnterCleanup
  <2> QED
    BY <2>1, <2>2, CleanupInOrder, Stutters
<1>5. CASE SkipDrawStep \/ EnterStep \/ EnterEndOfCombat
  <2>1. UNCHANGED << active, phase >> /\ owed \in Owed
    BY <1>5 DEF SkipDrawStep, EnterStep, EnterEndOfCombat, TypeOK
  <2>2. (\E d : owed' = [owed EXCEPT !.draws = d]) \/ owed' = Undelayed
    BY <1>5 DEF SkipDrawStep, EnterStep, EnterEndOfCombat
  <2>3. /\ owed'.turns = owed.turns /\ owed'.skips = owed.skips
        /\ owed'.combats = owed.combats /\ owed'.cleanup = owed.cleanup
    BY <2>1, <2>2 DEF Undelayed, Owed
  <2> QED
    BY <2>1, <2>3, Stutters
<1>6. CASE \/ DrainAutoPasses \/ CheckBeforePass
           \/ TakeDeclaring \/ TakeHaltsForBlocks \/ TakeNoBlocks \/ TakeDamaging \/ TakePass
           \/ ResolutionSuspends \/ SettleResolution \/ EnterUntap \/ EnterDeclareAttackers
           \/ EnterDeclareBlockers \/ EnterDamage
           \/ Sweep \/ Recheck \/ LegendSettled \/ DamageDealt
  <2>1. UNCHANGED << active, phase, owed >>
    BY <1>6 DEF DrainAutoPasses, CheckBeforePass, TakeDeclaring, TakeHaltsForBlocks,
       TakeNoBlocks, TakeDamaging, TakePass, ResolutionSuspends, SettleResolution, EnterUntap,
       EnterDeclareAttackers, EnterDeclareBlockers, EnterDamage,
       Sweep, Recheck, LegendSettled, DamageDealt
  <2> QED
    BY <2>1, Stutters
<1> QED
  BY <1>1, <1>2, <1>3, <1>4, <1>5, <1>6 DEF EngineStep

LEMMA MutationInOrder ==
  ASSUME TypeOK, Sound, NEW p \in Player, Mutation(p)
  PROVE  TurnStructure!OrderNext \/ UNCHANGED TurnStructure!orderVars
<1>1. CASE AnswerCleanup(p)
  <2>1. phase = "CLEANUP" /\ UNCHANGED << active, phase >>
    BY <1>1, Resuming DEF AnswerCleanup, SoloKinds
  <2>2. \E window \in BOOLEAN : owed' = [Undelayed EXCEPT !.cleanup = @ \/ window]
    BY <1>1 DEF AnswerCleanup
  <2> QED
    BY <2>1, <2>2, CleanupInOrder
<1>2. CASE ~AnswerCleanup(p)
  <2>1. UNCHANGED << active, phase, owed >>
    BY <1>2 DEF Mutation, PassPriority, EndTurn, PassUntilAction, CancelAutoPass, Concede, Cast,
       AnswerResolution, AnswerOrder, AnswerLegend, AnswerUntap, AnswerDraw, ChooseTarget, DeclineTarget,
       Retarget, ToggleAttacker, ConfirmAttackers, PayAttackTax, CancelAttackTax,
       ConfirmBlockers, ConfirmDamage
  <2> QED
    BY <2>1, Stutters
<1> QED
  BY <1>1, <1>2

(* The engine implements TurnOrder: whatever happens inside a step, turns  *)
(* and steps come in its order, and what effects grant is paid once and at *)
(* its moment (advancePhase and advanceTurn of gre/phases.ts).             *)
THEOREM ImplementsTurnOrder == Spec => TurnsInOrder
<1>1. Init => TurnStructure!OrderInit
  BY DEF Init, TurnStructure!OrderInit
<1>2. OrderInv /\ [Next]_vars => [TurnStructure!OrderNext]_(TurnStructure!orderVars)
  <2> SUFFICES ASSUME OrderInv, [Next]_vars
               PROVE  TurnStructure!OrderNext \/ UNCHANGED TurnStructure!orderVars
    OBVIOUS
  <2>1. CASE EngineStep
    BY <2>1, EngineInOrder DEF OrderInv
  <2>2. CASE \E p \in Player : Mutation(p)
    BY <2>2, MutationInOrder DEF OrderInv
  <2>3. CASE UNCHANGED vars
    BY <2>3, Stutters DEF vars
  <2> QED
    BY <2>1, <2>2, <2>3 DEF Next
<1> QED
  BY <1>1, <1>2, OrderInvariant, PTL DEF Spec, TurnsInOrder, TurnStructure!OrderSpec
=============================================================================
