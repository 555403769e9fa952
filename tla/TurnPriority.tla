---------------------------- MODULE TurnPriority ----------------------------
(***************************************************************************)
(* The turn, priority and stack engine of the game rules (convex/gre) and  *)
(* the mutations of convex/game.ts that drive it.                          *)
(*                                                                         *)
(* A mutation is one serializable transaction: it reads the game, runs the *)
(* engine until it needs a player, and saves.  The engine is a loop        *)
(* (drainAutoPasses, advancePhase and advanceTurn call one another), so a  *)
(* mutation is a run of small steps here: it leaves "rest", engine steps   *)
(* follow one another, and the state it saves is the one in which ctl.at   *)
(* is "rest" again.  No other mutation moves in between.                   *)
(***************************************************************************)
EXTENDS StackRound, SequencesExt

CONSTANTS
  MaxOwed,      \* bound: extra turns, skips or extra combats owed at once
  Asks,         \* whom a resolution may suspend on, in order
  Effects,      \* what a completed resolution may do to the game
  Intents,      \* bound: the intents the seats may register
  AttackTaxes,  \* the taxes a declaration of attackers may owe
  CanAttack,    \* has the active player a creature that can attack
  DelayedSteps, \* bound: the later steps a delayed trigger may be scheduled for
  BeginSteps    \* bound: the steps with a trigger "at the beginning of"

PHASE_ORDER == << "UNTAP", "UPKEEP", "DRAW", "PRECOMBAT_MAIN",
                  "BEGINNING_OF_COMBAT", "DECLARE_ATTACKERS",
                  "DECLARE_BLOCKERS", "FIRST_STRIKE_DAMAGE", "COMBAT_DAMAGE",
                  "END_OF_COMBAT", "POSTCOMBAT_MAIN", "END_STEP", "CLEANUP" >>
Phase == { PHASE_ORDER[i] : i \in 1..13 }
AUTO_PHASES == {"UNTAP", "CLEANUP"}
DamageSteps == {"FIRST_STRIKE_DAMAGE", "COMBAT_DAMAGE"}
CombatSteps == {"DECLARE_BLOCKERS", "END_OF_COMBAT"} \cup DamageSteps
Follows(p, q) == \E i \in 1..12 : PHASE_ORDER[i] = p /\ PHASE_ORDER[i + 1] = q

EffectKind == {"due", "legend", "lose", "cost", "targeted", "retarget",
               "extraTurn", "skipTurn", "skipDraw", "extraCombat",
               "removeAttackers", "discard", "untap", "draw"}
Tax == {"mana", "sacrifice"}

ASSUME OwedAssumption == MaxOwed \in Nat
ASSUME AsksAssumption == Asks \subseteq Seq(Side) \ {<<>>}
ASSUME InputAssumption ==
  /\ Effects \subseteq EffectKind /\ CanAttack \in BOOLEAN
  /\ Intents \subseteq {"end", "until", "cancel", "concede"}
  /\ AttackTaxes \subseteq SUBSET Tax /\ AttackTaxes # {}
  /\ DelayedSteps \subseteq Phase /\ BeginSteps \subseteq Phase \ AUTO_PHASES

VARIABLES
  active,  \* activePlayerId
  phase,
  round,   \* priority, stack, choices, target, held batch: see StackRound
  intent,  \* the standing intents of the seats
  owed,    \* what is owed later: extra turns and combats, skips, delayed triggers
  combat,
  board,   \* what a check of state-based actions would find: nothing, deaths
           \* or triggers waiting ("due"), or a duplicated legend
  over,    \* gameOver
  ctl,     \* where the running mutation stands; "rest" between mutations
  passed   \* ghost: who passed in succession since anything last happened

vars == << active, phase, round, intent, owed, combat, board, over, ctl, passed >>

(* auto: autoPassPlayers.  queued: queuedEndTurn.  once: singleShotAutoPass *)
(* (at most one seat).  armed, waiting: the seats of passUntilAction and of *)
(* queuedPassUntilAction; base, wbase: their ignoredStackIds.  seen: ghost, *)
(* how much of the stack was there when the seat last pressed it.           *)
Intent == [auto : SUBSET Player, queued : SUBSET Player, once : SUBSET Player,
           armed : SUBSET Player, waiting : SUBSET Player,
           base : [Player -> [ObjectId -> Nat]],
           wbase : [Player -> [ObjectId -> Nat]], seen : [Player -> Nat]]
NoIntent == [auto |-> {}, queued |-> {}, once |-> {}, armed |-> {}, waiting |-> {},
             base |-> [p \in Player |-> NoIds], wbase |-> [p \in Player |-> NoIds],
             seen |-> [p \in Player |-> 0]]
Spared == { i \in Id : \E p \in Player : intent.base[p][i] + intent.wbase[p][i] > 0 }

(* The k-th object of the stack leaves it.                                 *)
Leaves(i, k) ==
  [i EXCEPT !.seen = [p \in Player |-> IF @[p] >= k THEN @[p] - 1 ELSE @[p]]]

Owed == [turns : Seq(Player), skips : [Player -> Nat], draws : SUBSET Player,
         combats : Nat, cleanup : BOOLEAN, delayed : SUBSET Phase]

(* tax: what the declaration would cost.  parked: the tax being paid.      *)
(* open: damageConfirmed is false.  owing: the assigners still to confirm. *)
Combat == [attacking : BOOLEAN, confirmed : BOOLEAN, blocked : BOOLEAN,
           tax : SUBSET Tax, parked : SUBSET Tax,
           open : BOOLEAN, owing : SUBSET Player]
NoCombat == [attacking |-> FALSE, confirmed |-> FALSE, blocked |-> FALSE,
             tax |-> {}, parked |-> {}, open |-> FALSE, owing |-> {}]

(* caller: who resolves or advances, passPriority, the drain or an answer. *)
(* sweeps: does the mutation end with sweepUnlessResolutionSuspended.      *)
Engine == {"drain", "check", "take", "resolve", "settle", "advance", "turn",
           "enter", "dealt", "legend", "recheck", "sweep"}
Control == [at : Engine \cup {"rest"}, caller : {"pass", "drain", "answer"},
            sweeps : BOOLEAN]
AtRest == [at |-> "rest", caller |-> "pass", sweeps |-> FALSE]

Boards == {"clean", "due", "legend"}

TypeOK ==
  /\ active \in Player /\ phase \in Phase /\ round \in Round
  /\ intent \in Intent /\ owed \in Owed /\ combat \in Combat
  /\ board \in Boards /\ over \in BOOLEAN /\ ctl \in Control
  /\ passed \in SUBSET Player

Init ==
  /\ active \in Player /\ phase = "UPKEEP"
  /\ round = [holder |-> active, passes |-> 0, stack |-> <<>>, choices |-> <<>>,
              target |-> {}, batch |-> NoBatch(active), held |-> FALSE, told |-> 0]
  /\ intent = NoIntent /\ combat = NoCombat
  /\ owed = [turns |-> <<>>, skips |-> [p \in Player |-> 0], draws |-> {},
             combats |-> 0, cleanup |-> FALSE, delayed |-> {}]
  /\ board = "clean" /\ over = FALSE /\ ctl = AtRest /\ passed = {}

-----------------------------------------------------------------------------
(* Control of the running mutation. *)
Begin(pc, caller, sweeps) ==
  /\ ctl.at = "rest" /\ ~over
  /\ ctl' = IF pc = "rest" THEN AtRest
             ELSE [at |-> pc, caller |-> caller, sweeps |-> sweeps]
Goto(pc) == ctl' = [ctl EXCEPT !.at = pc]
StartPass == ctl' = [ctl EXCEPT !.at = "check", !.caller = "drain"]
Halt == ctl' = IF ctl.sweeps THEN [ctl EXCEPT !.at = "sweep"] ELSE AtRest

(* computeExpectedInput: the one input the game waits for, and from whom.  *)
BlocksOwed == phase = "DECLARE_BLOCKERS" /\ combat.attacking /\ ~combat.blocked
Awaits(kind, p) ==
  IF round.choices # <<>>
  THEN kind = Head(round.choices).kind /\ p = Head(round.choices).by
  ELSE IF round.target # {}
  THEN kind = "target" /\ \E t \in round.target : p = t.by
  ELSE IF BlocksOwed THEN kind = "blockers" /\ p = Opponent(active)
  ELSE IF combat.parked # {} THEN kind \in combat.parked /\ p = active
  ELSE kind = "priority" /\ p = round.holder

(* The declaration a seat must finish before it may pass (passPriority).   *)
OpenBesidesBlocks ==   \* mutant: the declare-blockers guard is dropped
  \/ phase = "DECLARE_ATTACKERS" /\ ~combat.confirmed
  \/ phase \in DamageSteps /\ combat.open
OpenBesidesDamage ==   \* mutant: the damage-assignment guard is dropped
  \/ phase = "DECLARE_ATTACKERS" /\ ~combat.confirmed
  \/ phase = "DECLARE_BLOCKERS" /\ ~combat.blocked
DeclarationOpen ==
  \/ phase = "DECLARE_ATTACKERS" /\ ~combat.confirmed
  \/ phase = "DECLARE_BLOCKERS" /\ ~combat.blocked
  \/ phase \in DamageSteps /\ combat.open

Place(source, r) == Placed(source, r, active, Spared)

(* A permanent that leaves is out of combat: no attacker may be left.      *)
Survivors(c) ==
  {c} \cup { [c EXCEPT !.attacking = FALSE] : e \in Effects \cap {"removeAttackers"} }

-----------------------------------------------------------------------------
(* checkStateBasedActions.  Deaths fire triggers; a duplicated legend asks *)
(* its controller first and leaves the rest of the check to the answer.    *)
AskLegend(r, p) ==
  [r EXCEPT !.choices = << [kind |-> "legend", by |-> p, id |-> 0] >>, !.holder = p]
Outcome == [round : Round, board : Boards, combat : Combat, over : BOOLEAN]
Found(r, b, c) == [round |-> r, board |-> b, combat |-> c, over |-> FALSE]
Lost(r) == [round |-> r, board |-> "clean", combat |-> combat, over |-> TRUE]
Left == IF board = "legend" THEN "legend" ELSE "clean"
CheckStateBasedActions(r) ==
  IF board = "clean" THEN { Found(r, "clean", combat) }
  ELSE IF board = "legend" /\ r.choices = <<>>
  THEN { Found(AskLegend(r, p), "due", combat) : p \in Player }
  ELSE { Found(s, Left, c) : s \in Place("death", r), c \in Survivors(combat) }
       \cup { Lost(r) : e \in Effects \cap {"lose"} }
After(outcome) ==
  /\ round' = outcome.round /\ board' = outcome.board
  /\ combat' = outcome.combat /\ over' = outcome.over

-----------------------------------------------------------------------------
(* drainAutoPasses, one iteration.  The queued intents of the holder are   *)
(* promoted, the baselines pruned to what is still on the stack; a seat    *)
(* that owes input cannot pass; Pass Until Action stops on an object of    *)
(* the opponent that is not in its baseline.                               *)
Promoted ==
  LET p == round.holder
      promotes == p \in intent.waiting
  IN  [ intent EXCEPT
          !.auto = @ \cup ({p} \cap intent.queued), !.queued = @ \ {p},
          !.armed = IF promotes THEN @ \cup {p} ELSE @, !.waiting = @ \ {p},
          !.base = [ q \in Player |->
            Pruned(round, IF q = p /\ promotes THEN intent.wbase[p] ELSE intent.base[q]) ],
          !.wbase = [ q \in Player |->
            IF q = p THEN NoIds ELSE Pruned(round, intent.wbase[q]) ] ]
Stops(i, p) ==
  /\ p \in i.armed
  /\ \E k \in DOMAIN round.stack :
       round.stack[k].by # p /\ k \notin Masked(round, i.base[p])
Disarmed(i, p) == [i EXCEPT !.armed = @ \ {p}, !.base[p] = NoIds, !.seen[p] = 0]
Passes(i, p) == p \in i.auto \cup i.armed \cup i.once

DrainAutoPasses ==
  /\ ctl.at = "drain"
  /\ LET p == round.holder
         stopped == Disarmed(Promoted, p)
     IN  IF OwesInput(round) THEN intent' = Promoted /\ Halt
         ELSE IF Stops(Promoted, p) /\ p \notin Promoted.auto
         THEN intent' = [stopped EXCEPT !.once = @ \ {p}] /\ Halt
         ELSE LET i == IF Stops(Promoted, p) THEN stopped ELSE Promoted
              IN  intent' = i /\ IF Passes(i, p) THEN StartPass ELSE Halt
  /\ UNCHANGED << active, phase, round, owed, combat, board, over, passed >>

(* The check of state-based actions before a pass is taken.  A check that  *)
(* re-seated priority spends the single-shot pass and reads the holder     *)
(* again; otherwise the pass is taken.                                     *)
CheckBeforePass ==
  /\ ctl.at = "check"
  /\ \E s \in CheckStateBasedActions(round) :
       /\ After(s)
       /\ IF s.over \/ OwesInput(s.round) THEN Halt /\ UNCHANGED intent
          ELSE /\ intent' = [intent EXCEPT !.once = @ \ {round.holder}]
               /\ IF s.round.holder = round.holder /\ s.round.passes = round.passes
                  THEN Goto("take") ELSE Goto("drain")
       /\ passed' = IF s.round.stack = round.stack THEN passed ELSE {}
  /\ UNCHANGED << active, phase, owed >>

(* The pass itself: the second one in succession resolves the top of the   *)
(* stack or leaves the step, the first hands priority to the opponent.     *)
CountToAdvance(r) ==   \* mutant: the second pass leaves the step over the stack
  LET n == r.passes + 1
  IN  IF n >= 2 THEN round' = [r EXCEPT !.passes = n] /\ Goto("advance")
      ELSE /\ round' = [r EXCEPT !.passes = n, !.holder = Opponent(@)]
           /\ Goto("drain")
CountPass(r) ==
  LET n == r.passes + 1
  IN  IF n >= 2
      THEN /\ round' = [r EXCEPT !.passes = n]
           /\ Goto(IF r.stack # <<>> THEN "resolve" ELSE "advance")
      ELSE /\ round' = [r EXCEPT !.passes = n, !.holder = Opponent(@)]
           /\ Goto("drain")
PassedBy(p, r) == (IF r.stack = round.stack THEN passed ELSE {}) \cup {p}

(* A standing pass in the declare-attackers step confirms the selection as *)
(* it is: no tax is charged and the holder need not be the attacker.       *)
TakeDeclaring ==
  /\ ctl.at = "take" /\ phase = "DECLARE_ATTACKERS" /\ ~combat.confirmed
  /\ combat' = [combat EXCEPT !.confirmed = TRUE, !.blocked = FALSE]
  /\ \E r \in IF combat.attacking THEN Place("attack", round) ELSE {round} :
       CountPass(r) /\ passed' = PassedBy(round.holder, r)
  /\ UNCHANGED << active, phase, intent, owed, board, over >>

(* A standing pass never skips the defender's blocks: the drain halts when *)
(* a block is legal, and otherwise confirms the blocks there are.          *)
TakeHaltsForBlocks ==
  /\ ctl.at = "take" /\ BlocksOwed
  /\ round' = [round EXCEPT !.holder = Opponent(active)] /\ Halt
  /\ UNCHANGED << active, phase, intent, owed, combat, board, over, passed >>

TakeNoBlocks ==
  /\ ctl.at = "take" /\ phase = "DECLARE_BLOCKERS" /\ ~combat.blocked
  /\ combat' = [combat EXCEPT !.blocked = TRUE]
  /\ \E r \in IF combat.attacking THEN Place("block", round) ELSE {round} :
       CountPass(r) /\ passed' = PassedBy(round.holder, r)
  /\ UNCHANGED << active, phase, intent, owed, board, over >>

(* A standing pass applies the pre-filled combat damage assignment.        *)
TakeDamaging ==
  /\ ctl.at = "take" /\ phase \in DamageSteps /\ combat.open
  /\ combat' \in Survivors([combat EXCEPT !.open = FALSE, !.owing = {}])
  /\ board' = "due"
  /\ \E r \in Place("damage", round) :
       CountPass(r) /\ passed' = PassedBy(round.holder, r)
  /\ UNCHANGED << active, phase, intent, owed, over >>

TakePass ==
  /\ ctl.at = "take" /\ ~DeclarationOpen
  /\ CountPass(round) /\ passed' = passed \cup {round.holder}
  /\ UNCHANGED << active, phase, intent, owed, combat, board, over >>

-----------------------------------------------------------------------------
(* resolveTopOfStack, which throws on an empty stack, and what its caller  *)
(* does next.                                                              *)
Resolving == ctl.at = "resolve" /\ round.stack # <<>>
Top(r) == r.stack[Len(r.stack)]
Popped(r) == [r EXCEPT !.stack = SubSeq(@, 1, Len(@) - 1), !.told = 0]

(* passPriority drains; the drain hands an owed input over and returns, or *)
(* checks state-based actions and goes on; an answer drains or returns.    *)
ThenHandOn(r) ==
  /\ round' = HandPriorityOn(r, active)
  /\ IF ctl.caller = "pass" THEN Goto("drain")
     ELSE IF OwesInput(r) THEN Halt
     ELSE Goto(IF ctl.caller = "drain" THEN "settle" ELSE "drain")

(* A resolution that needs an answer stays on the stack behind its choices,*)
(* with the part of its effect before them done.  It reads the answers     *)
(* from the object itself, and asks again for one it does not find there.  *)
Answered == round.told \in {0, Len(round.stack)}
ResolutionSuspends ==
  /\ Resolving
  /\ \E asked \in Asks :
       ThenHandOn([round EXCEPT !.told = 0, !.choices = [ k \in DOMAIN asked |->
         [kind |-> "resolution", by |-> Seat(active, asked[k]), id |-> Top(round).id] ]])
  /\ board' \in {board} \cup IF board = "clean" THEN Effects \cap {"due"} ELSE {}
  /\ UNCHANGED << active, phase, intent, owed, combat, over, passed >>

(* What a completed resolution leaves behind.                              *)
MayOwe ==
  Len(owed.turns) + owed.skips[active] + owed.skips[Opponent(active)]
    + owed.combats + Cardinality(owed.draws) < MaxOwed
Resolved(r, w, c, b) ==
  /\ \E s \in Place("resolve", r) : ThenHandOn(s)
  /\ owed' = w /\ combat' = c /\ board' = b /\ passed' = {}
  /\ intent' = Leaves(intent, Len(round.stack))
  /\ UNCHANGED << active, phase, over >>
ResolveTopOfStack ==
  /\ Resolving /\ Answered
  /\ LET r == Popped(round)
         Owes(w) == Resolved(r, w, combat, board)
     IN  \/ Resolved(r, owed, combat, board)
         \/ \E b \in Effects \cap {"due", "legend"} : Resolved(r, owed, combat, b)
         \/ \E c \in Survivors(combat) \ {combat} : Resolved(r, owed, c, board)
         \/ \E s \in DelayedSteps \ {phase} :
              Resolved(r, [owed EXCEPT !.delayed = @ \cup {s}], combat, board)
         \/ \E p \in Player :
              \/ /\ "extraTurn" \in Effects /\ MayOwe
                 /\ Owes([owed EXCEPT !.turns = Append(@, p)])
              \/ /\ "skipTurn" \in Effects /\ MayOwe
                 /\ Owes([owed EXCEPT !.skips[p] = @ + 1])
              \/ /\ "skipDraw" \in Effects /\ MayOwe
                 /\ Owes([owed EXCEPT !.draws = @ \cup {p}])
         \/ /\ "extraCombat" \in Effects /\ MayOwe
            /\ Owes([owed EXCEPT !.combats = @ + 1])

(* A spell is copied: the copy goes on the stack and its controller is     *)
(* offered new targets for it.  What triggered is placed after the offer.  *)
ResolveWithRetarget ==
  /\ Resolving /\ Answered /\ "retarget" \in Effects /\ HasRoom(Popped(round), 1)
  /\ \E s \in FreshIds(Id \ (UsedIds(round) \cup Spared), 1) :
       LET by == Top(round).by
           r == [Popped(round) EXCEPT
                   !.stack = Append(@, [id |-> s[1], by |-> by, needs |-> FALSE]),
                   !.target = { [kind |-> "retarget", by |-> by, id |-> s[1]] }]
       IN  Resolved(r, owed, combat, board)

(* The active player would get priority: state-based actions are checked.  *)
SettleResolution ==
  /\ ctl.at = "settle"
  /\ \E s \in CheckStateBasedActions(round) :
       After(s) /\ IF s.over THEN Halt ELSE Goto("drain")
  /\ UNCHANGED << active, phase, intent, owed, passed >>

-----------------------------------------------------------------------------
(* advancePhase: leave the step.  An owed cleanup step or extra combat goes *)
(* before the next step of PHASE_ORDER; the end of combat tears it down.    *)
AdvancePhase ==
  /\ ctl.at = "advance"
  /\ LET again == phase = "CLEANUP" /\ owed.cleanup
         extra == phase = "END_OF_COMBAT" /\ owed.combats > 0
     IN  /\ combat' = IF phase = "END_OF_COMBAT" THEN NoCombat ELSE combat
         /\ owed' = [owed EXCEPT !.cleanup = @ /\ ~again,
                                 !.combats = IF extra THEN @ - 1 ELSE @]
         /\ IF phase = "CLEANUP" /\ ~again THEN phase' = phase /\ Goto("turn")
            ELSE /\ IF again THEN phase' = phase
                    ELSE IF extra THEN phase' = "BEGINNING_OF_COMBAT"
                    ELSE phase' \in Phase /\ Follows(phase, phase')
                 /\ Goto("enter")
  /\ UNCHANGED << active, round, intent, board, over, passed >>

(* advanceTurn: the latest extra turn first, else the opponent's; a player *)
(* owed a skip loses the turn.  The standing passes end with the turn,     *)
(* queued presses do not.                                                  *)
EarliestTurn(turns) == Head(turns)   \* mutant: extra turns in order of grant
LatestTurn(turns) == turns[Len(turns)]
StandsOn(i) == i                     \* mutant: standing passes outlive the turn
TurnOver(i) == [i EXCEPT
  !.auto = {}, !.armed = {}, !.once = {}, !.base = [p \in Player |-> NoIds],
  !.seen = [p \in Player |-> IF p \in i.waiting THEN @[p] ELSE 0]]
AdvanceTurn ==
  /\ ctl.at = "turn"
  /\ LET n == Len(owed.turns)
         next == IF n > 0 THEN LatestTurn(owed.turns) ELSE Opponent(active)
         left == [owed EXCEPT !.turns = IF n > 0 THEN SubSeq(@, 1, n - 1) ELSE @]
     IN  /\ active' = next
         /\ IF owed.skips[next] > 0
            THEN /\ owed' = [left EXCEPT !.skips[next] = @ - 1]
                 /\ UNCHANGED << phase, intent, ctl >>
            ELSE /\ owed' = [left EXCEPT !.combats = 0]
                 /\ phase' = "UNTAP" /\ Goto("enter")
                 /\ intent' = TurnOver(intent)
  /\ UNCHANGED << round, combat, board, over, passed >>

(* The end of advancePhase.  An owed choice suspends the step; a step in   *)
(* which nobody gets priority is left at once; else the active player gets *)
(* it, whoever the entry of the step had parked it on.                     *)
FinishUnlessAuto(r, skipped) ==  \* mutant: an automatic step never opens a round
  IF r.choices # <<>>
  THEN /\ passed' = {}
       /\ IF ctl.caller = "drain" THEN round' = HeadChooser(r) /\ Halt
          ELSE round' = r /\ Goto("drain")
  ELSE IF skipped \/ phase \in AUTO_PHASES
  THEN round' = r /\ Goto("advance") /\ UNCHANGED passed
  ELSE round' = Grant(r, active) /\ Goto("drain") /\ passed' = {}
FinishOverTriggers(r, skipped) ==  \* mutant: triggers placed open a round in any step
  IF r.choices # <<>>
  THEN /\ passed' = {}
       /\ IF ctl.caller = "drain" THEN round' = HeadChooser(r) /\ Halt
          ELSE round' = r /\ Goto("drain")
  ELSE IF skipped /\ r.stack = round.stack
  THEN round' = r /\ Goto("advance") /\ UNCHANGED passed
  ELSE round' = Grant(r, active) /\ Goto("drain") /\ passed' = {}
FinishEntry(r, skipped) ==
  IF r.choices # <<>>
  THEN /\ passed' = {}
       /\ IF ctl.caller = "drain" THEN round' = HeadChooser(r) /\ Halt
          ELSE round' = r /\ Goto("drain")
  ELSE IF skipped THEN round' = r /\ Goto("advance") /\ UNCHANGED passed
  ELSE round' = Grant(r, active) /\ Goto("drain") /\ passed' = {}

(* untapStep asks which permanents to untap, or places what triggers as    *)
(* they untap and opens no round of priority on them.                      *)
AskUntap ==
  [round EXCEPT !.holder = active,
                !.choices = << [kind |-> "untap", by |-> active, id |-> 0] >>]
EnterUntap ==
  /\ ctl.at = "enter" /\ phase = "UNTAP"
  /\ \/ "untap" \in Effects /\ FinishEntry(AskUntap, TRUE)
     \/ \E r \in Place("untap", round) : FinishEntry(r, TRUE)
  /\ UNCHANGED << active, phase, intent, owed, combat, board, over >>

(* A draw step that is skipped happens not at all. *)
SkipDrawStep ==
  /\ ctl.at = "enter" /\ phase = "DRAW" /\ active \in owed.draws
  /\ owed' = [owed EXCEPT !.draws = @ \ {active}]
  /\ FinishEntry(round, TRUE)
  /\ UNCHANGED << active, phase, intent, combat, board, over >>

(* The rounds after the delayed triggers of a step's entry, which fire     *)
(* once, and after its "at the beginning of" triggers.  A skip of the draw *)
(* step lasts until cleanup (finalizeCleanup).                             *)
Undelayed == [owed EXCEPT !.delayed = @ \ {phase},
                          !.draws = IF phase = "CLEANUP" THEN {} ELSE @]
Delayed(r) ==
  IF phase \in owed.delayed
  THEN { FireDelayed(r, BatchOf(b), active) : b \in Firing("delayed", r, active, Spared) }
  ELSE {r}
Begun(r) == IF phase \in BeginSteps THEN Place("begin", r) ELSE {r}

(* drawStep asks which of the cards looked at to draw, or the opponent if  *)
(* the draw is replaced.                                                   *)
AskDraw(r, p) ==
  [r EXCEPT !.holder = p,
            !.choices = Append(@, [kind |-> "draw", by |-> p, id |-> 0])]
Drawn(r) ==
  Place("event", r) \cup { AskDraw(r, p) : p \in IF "draw" \in Effects THEN Player ELSE {} }

(* Upkeep, draw, mains, beginning of combat, end step: the events of the   *)
(* entry (draw and precombat main), then delayed triggers, then beginnings.*)
EnterStep ==
  /\ ctl.at = "enter"
  /\ phase \in {"UPKEEP", "DRAW", "PRECOMBAT_MAIN", "BEGINNING_OF_COMBAT",
                "POSTCOMBAT_MAIN", "END_STEP"}
  /\ ~(phase = "DRAW" /\ active \in owed.draws)
  /\ \E r1 \in IF phase = "DRAW" THEN Drawn(round)
               ELSE IF phase = "PRECOMBAT_MAIN" THEN Place("event", round) ELSE {round} :
       \E r2 \in Delayed(r1) : \E r3 \in Begun(r2) : FinishEntry(r3, FALSE)
  /\ owed' = Undelayed
  /\ UNCHANGED << active, phase, intent, combat, board, over >>

EnterDeclareAttackers ==
  /\ ctl.at = "enter" /\ phase = "DECLARE_ATTACKERS"
  /\ \E tax \in AttackTaxes : combat' = [NoCombat EXCEPT !.tax = tax]
  /\ \E r \in Begun(round) : FinishEntry(r, FALSE)
  /\ UNCHANGED << active, phase, intent, owed, board, over >>

(* The engine confirms the blocks itself when no block is legal; the       *)
(* step's round of priority opens all the same.                            *)
EnterDeclareBlockers ==
  /\ ctl.at = "enter" /\ phase = "DECLARE_BLOCKERS"
  /\ \E noLegalBlock \in {FALSE, combat.attacking} :
       /\ combat' = [combat EXCEPT !.blocked = noLegalBlock]
       /\ \E r1 \in Begun(round) :
            \E r2 \in IF noLegalBlock THEN Place("block", r1) ELSE {r1} :
              FinishEntry(r2, ~combat.attacking)
  /\ UNCHANGED << active, phase, intent, owed, board, over >>

(* Damage that several creatures share waits for its assigners; any other  *)
(* is dealt on entry.  Without first strike that step is skipped.          *)
EnterDamage ==
  /\ ctl.at = "enter" /\ phase \in DamageSteps
  /\ \/ /\ ~combat.attacking \/ phase = "FIRST_STRIKE_DAMAGE"
        /\ \E r \in Begun(round) : FinishEntry(r, TRUE)
        /\ UNCHANGED << combat, board >>
     \/ /\ combat.attacking
        /\ \E assigners \in SUBSET Player \ {{}} :
             combat' = [combat EXCEPT !.open = TRUE, !.owing = assigners]
        /\ \E r \in Begun(round) : FinishEntry(r, FALSE)
        /\ UNCHANGED board
     \/ /\ combat.attacking
        /\ combat' \in Survivors([combat EXCEPT !.owing = {}]) /\ board' = "due"
        /\ \E r1 \in Place("damage", round) : \E r2 \in Begun(r1) : FinishEntry(r2, FALSE)
  /\ UNCHANGED << active, phase, intent, owed, over >>

EnterEndOfCombat ==
  /\ ctl.at = "enter" /\ phase = "END_OF_COMBAT"
  /\ \E r1 \in Delayed(round) : \E r2 \in Begun(r1) : FinishEntry(r2, ~combat.attacking)
  /\ owed' = Undelayed
  /\ UNCHANGED << active, phase, intent, combat, board, over >>

(* Cleanup: the active player discards first; otherwise a trigger of the   *)
(* step opens its one round of priority and owes another cleanup step.     *)
EnterCleanup ==
  /\ ctl.at = "enter" /\ phase = "CLEANUP"
  /\ \/ /\ "discard" \in Effects
        /\ FinishEntry([round EXCEPT !.holder = active,
             !.choices = Append(@, [kind |-> "cleanup", by |-> active, id |-> 0])], FALSE)
        /\ UNCHANGED owed
     \/ \E r \in Delayed(round) :
          LET window == Len(r.stack) > Len(round.stack) \/ r.held
          IN  /\ owed' = [Undelayed EXCEPT !.cleanup = @ \/ window]
              /\ FinishEntry(r, ~window)
  /\ UNCHANGED << active, phase, intent, combat, board, over >>

-----------------------------------------------------------------------------
(* The end of a mutation. *)
Sweep ==
  /\ ctl.at = "sweep" /\ ctl' = AtRest
  /\ IF Suspended(round) \/ over THEN UNCHANGED << round, board, combat, over >>
     ELSE \E s \in CheckStateBasedActions(round) : After(s)
  /\ UNCHANGED << active, phase, intent, owed, passed >>

(* submitTriggerOrder and submitTriggerMode check once more, ungated.      *)
Recheck ==
  /\ ctl.at = "recheck"
  /\ \E s \in CheckStateBasedActions(round) : After(s) /\ Halt
  /\ UNCHANGED << active, phase, intent, owed, passed >>

(* finalizeLegendKeep checks again, then hands priority to the active      *)
(* player; it neither resets the passes nor drains.                        *)
LegendSettled ==
  /\ ctl.at = "legend" /\ Halt
  /\ \E s \in CheckStateBasedActions(round) :
       /\ board' = s.board /\ combat' = s.combat /\ over' = s.over
       /\ round' = IF s.round.choices = <<>> /\ ~s.over
                   THEN [s.round EXCEPT !.holder = active] ELSE s.round
  /\ UNCHANGED << active, phase, intent, owed, passed >>

(* confirmDamage checks once the damage is dealt, then grants priority and *)
(* drains unless the game is over.                                         *)
DamageDealt ==
  /\ ctl.at = "dealt"
  /\ \E s \in CheckStateBasedActions(round) :
       /\ board' = s.board /\ combat' = s.combat /\ over' = s.over
       /\ IF s.over THEN round' = s.round /\ Halt
          ELSE round' = Grant(s.round, active) /\ Goto("drain")
  /\ UNCHANGED << active, phase, intent, owed, passed >>

EngineStep ==
  \/ DrainAutoPasses \/ CheckBeforePass
  \/ TakeDeclaring \/ TakeHaltsForBlocks \/ TakeNoBlocks \/ TakeDamaging \/ TakePass
  \/ ResolutionSuspends \/ ResolveTopOfStack \/ ResolveWithRetarget
  \/ SettleResolution \/ AdvancePhase \/ AdvanceTurn
  \/ EnterUntap \/ SkipDrawStep \/ EnterStep \/ EnterDeclareAttackers
  \/ EnterDeclareBlockers \/ EnterDamage \/ EnterEndOfCombat \/ EnterCleanup
  \/ Sweep \/ Recheck \/ LegendSettled \/ DamageDealt

-----------------------------------------------------------------------------
(* The mutations.  passPriority; a pass without priority is a no-op.       *)
PassPriority(p) ==
  /\ Awaits("priority", p) /\ ~DeclarationOpen
  /\ LET n == round.passes + 1
     IN  IF n >= 2
         THEN /\ Begin(IF round.stack # <<>> THEN "resolve" ELSE "advance", "pass", TRUE)
              /\ round' = [round EXCEPT !.passes = n]
         ELSE /\ Begin("drain", "drain", TRUE)
              /\ round' = [round EXCEPT !.passes = n, !.holder = Opponent(p)]
  /\ passed' = passed \cup {p}
  /\ UNCHANGED << active, phase, intent, owed, combat, board, over >>

(* endTurn and passUntilAction are not gated on the expected input.  A     *)
(* press without priority is queued.                                       *)
Queues(p) == ctl.at = "rest" /\ ~over /\ round.holder # p /\ UNCHANGED ctl
PressesOverTax(p) ==   \* mutant: a press is not gated on the parked sacrifice
  round.holder = p /\ round.choices = <<>> /\ Begin("drain", "drain", TRUE)
Presses(p) ==
  /\ round.holder = p /\ round.choices = <<>> /\ "sacrifice" \notin combat.parked
  /\ Begin("drain", "drain", TRUE)
EndTurn(p) ==
  /\ "end" \in Intents
  /\ \/ Queues(p) /\ intent' = [intent EXCEPT !.queued = @ \cup {p}]
     \/ Presses(p) /\ intent' = [intent EXCEPT !.auto = @ \cup {p}]
  /\ UNCHANGED << active, phase, round, owed, combat, board, over, passed >>
PassUntilAction(p) ==
  /\ "until" \in Intents
  /\ \/ Queues(p) /\ intent' = [intent EXCEPT !.waiting = @ \cup {p},
                                              !.wbase[p] = Snapshot(round),
                                              !.seen[p] = Len(round.stack)]
     \/ Presses(p) /\ intent' = [intent EXCEPT !.armed = @ \cup {p},
                                               !.base[p] = Snapshot(round),
                                               !.seen[p] = Len(round.stack)]
  /\ UNCHANGED << active, phase, round, owed, combat, board, over, passed >>
CancelAutoPass(p) ==
  /\ "cancel" \in Intents /\ ctl.at = "rest" /\ ~over
  /\ intent' = [intent EXCEPT
       !.auto = @ \ {p}, !.queued = @ \ {p}, !.once = @ \ {p}, !.armed = @ \ {p},
       !.waiting = @ \ {p}, !.base[p] = NoIds, !.wbase[p] = NoIds, !.seen[p] = 0]
  /\ UNCHANGED << active, phase, round, owed, combat, board, over, ctl, passed >>
Concede(p) ==
  /\ "concede" \in Intents /\ ctl.at = "rest" /\ ~over /\ over' = TRUE
  /\ UNCHANGED << active, phase, round, intent, owed, combat, board, ctl, passed >>

(* A spell or an activated ability goes on the stack under the id of its   *)
(* card: the opponent gets priority and, unless it is kept, the caster's   *)
(* next pass is given.                                                     *)
Cast(p, keep) ==
  /\ Awaits("priority", p) /\ Begin("drain", "drain", FALSE)
  /\ HasRoom(round, 1)
  /\ \E c \in { d \in Card : d \in Sources \/ d \notin StackIds(round) } :
       LET cast == [ round EXCEPT
             !.stack = Append(@, [id |-> c, by |-> p, needs |-> FALSE]),
             !.passes = 0, !.holder = Opponent(p)]
       IN  round' \in Place("cast", cast)
  /\ intent' = [intent EXCEPT !.once = IF keep THEN {} ELSE {p}]
  /\ board' \in {board, IF "cost" \in Effects /\ board = "clean" THEN "due" ELSE board}
  /\ passed' = {}
  /\ UNCHANGED << active, phase, owed, combat, over >>

-----------------------------------------------------------------------------
(* submitResolutionChoice, by the kind of the head choice.                 *)
Rest(r) == Tail(r.choices)
Dequeued(r) == HeadChooser([r EXCEPT !.choices = Tail(@)])
Answers(kind, p) == ctl.at = "rest" /\ ~over /\ round.choices # <<>> /\ Awaits(kind, p)

(* commitChoiceAnswer writes the answer on the bottom-most object with the *)
(* id the choice carries, and throws if there is none; once no choice is   *)
(* left the top of the stack resumes.                                      *)
Places(r, id) == { k \in DOMAIN r.stack : r.stack[k].id = id }
AnswerResolution(p) ==
  /\ Answers("resolution", p) /\ Head(round.choices).id \in StackIds(round)
  /\ Begin(IF Rest(round) # <<>> THEN "sweep" ELSE "resolve", "answer", TRUE)
  /\ round' = Dequeued([round EXCEPT !.told = Min(Places(round, Head(round.choices).id))])
  /\ passed' = {}
  /\ UNCHANGED << active, phase, intent, owed, combat, board, over >>

(* The slice of one controller, put in the order submitted.                *)
Orders(s) == { [k \in DOMAIN s |-> s[f[k]]] :
  f \in { g \in [DOMAIN s -> DOMAIN s] : \A i, j \in DOMAIN s : g[i] = g[j] => i = j } }

(* submitTriggerOrder: the last order in puts the whole held batch on the  *)
(* stack, in the order of collection.                                      *)
AnswerOrder(p) ==
  /\ Answers("order", p)
  /\ \E slice \in Orders(round.batch.of[p]) :
       LET b == [round.batch EXCEPT !.of[p] = slice]
           more == Rest(round) # <<>> /\ Head(Rest(round)).kind = "order"
       IN  IF more
           THEN /\ round' = Dequeued([round EXCEPT !.batch = b])
                /\ Begin("sweep", "answer", TRUE)
           ELSE /\ round' = Land([round EXCEPT
                     !.choices = Tail(@), !.held = FALSE, !.batch = NoBatch(active),
                     !.stack = @ \o b.of[b.lead] \o b.of[Opponent(b.lead)]], active)
                /\ Begin("recheck", "answer", TRUE)
  /\ passed' = {}
  /\ UNCHANGED << active, phase, intent, owed, combat, board, over >>

AnswerLegend(p) ==
  /\ Answers("legend", p) /\ Begin("legend", "answer", TRUE)
  /\ round' = [round EXCEPT !.choices = Tail(@)]
  /\ board' = "due"
  /\ UNCHANGED << active, phase, intent, owed, combat, over, passed >>

(* finalizeUntapPick: the untap step goes on, to its next question or to   *)
(* its end; what triggered may first be put in order.                      *)
AnswerUntap(p) ==
  /\ Answers("untap", p)
  /\ \/ round' = round /\ Begin("sweep", "answer", TRUE)
     \/ \E r \in Place("untap", [round EXCEPT !.choices = Tail(@)]) :
          /\ round' = r
          /\ Begin(IF r.choices # <<>> THEN "sweep" ELSE "advance", "answer", TRUE)
  /\ passed' = {}
  /\ UNCHANGED << active, phase, intent, owed, combat, board, over >>

(* finalizeDrawLookKeep, finalizeDrawReplacementPay: the card is drawn or  *)
(* not, and the draw step goes on.                                         *)
AnswerDraw(p) ==
  /\ Answers("draw", p)
  /\ \E r \in Place("event", [round EXCEPT !.choices = Tail(@)]) :
       /\ round' = IF r.choices # <<>> THEN HeadChooser(r) ELSE Grant(r, active)
       /\ Begin(IF r.choices # <<>> THEN "sweep" ELSE "drain", "answer", TRUE)
  /\ passed' = {}
  /\ UNCHANGED << active, phase, intent, owed, combat, board, over >>

(* finalizeCleanupDiscard: the rest of the cleanup step.                   *)
AnswerCleanup(p) ==
  /\ Answers("cleanup", p)
  /\ LET r == [round EXCEPT !.choices = Tail(@)]
     IN  \E r1 \in Delayed(r) : \E r2 \in Place("event", r1) :
           LET parked == r2.held \/ r2.target # {}
               window == Len(r2.stack) > Len(r.stack) \/ r2.held
           IN  /\ owed' = [Undelayed EXCEPT !.cleanup = @ \/ window]
               /\ round' = IF window /\ ~parked THEN Grant(r2, active) ELSE r2
               /\ Begin(IF ~window THEN "advance" ELSE IF parked THEN "sweep" ELSE "drain",
                        "answer", TRUE)
  /\ passed' = {}
  /\ UNCHANGED << active, phase, intent, combat, board, over >>

-----------------------------------------------------------------------------
(* Targets.  A trigger's announcement goes on to the next one that needs a *)
(* target; a declined one leaves the stack.  An offer to retarget a copy   *)
(* ends the resolution that made it.                                       *)
Announced(r, id) ==
  [r EXCEPT !.target = {}, !.stack = [ k \in DOMAIN @ |->
     IF @[k].id = id THEN [@[k] EXCEPT !.needs = FALSE] ELSE @[k] ] ]
WithdrawnStillAsked(r, k) ==   \* mutant: pendingTarget outlives its trigger
  [r EXCEPT !.stack = RemoveAt(@, k)]
Withdrawn(r, k) == [r EXCEPT !.target = {}, !.stack = RemoveAt(@, k)]
Chosen(kind, p) == { t \in round.target : t.kind = kind /\ Awaits("target", p) }
LandTarget(r) ==
  /\ round' = Land(r, active) /\ passed' = {}
  /\ Begin(IF Unannounced(r.stack) # {} THEN "rest" ELSE "drain", "drain", FALSE)
ChooseTarget(p) ==
  /\ \E t \in Chosen("trigger", p) : LandTarget(Announced(round, t.id))
  /\ board' \in {board, IF "targeted" \in Effects /\ board = "clean" THEN "due" ELSE board}
  /\ UNCHANGED << active, phase, intent, owed, combat, over >>
DeclineTarget(p) ==
  /\ \E t \in Chosen("trigger", p) : \E k \in Places(round, t.id) :
       LandTarget(Withdrawn(round, k)) /\ intent' = Leaves(intent, k)
  /\ UNCHANGED << active, phase, owed, combat, board, over >>
Retarget(p) ==
  /\ Chosen("retarget", p) # {} /\ Begin("drain", "drain", FALSE) /\ passed' = {}
  /\ round' \in Place("resolve", Grant([round EXCEPT !.target = {}], active))
  /\ UNCHANGED << active, phase, intent, owed, combat, board, over >>

-----------------------------------------------------------------------------
(* The declaration of attackers: toggleAttacker selects, confirmAttackers  *)
(* charges the taxes one after the other and then finalizes.               *)
Declares(p) ==
  /\ Awaits("priority", p) /\ p = active
  /\ phase = "DECLARE_ATTACKERS" /\ ~combat.confirmed
ToggleAttacker(p) ==
  /\ Declares(p) /\ CanAttack /\ ctl.at = "rest" /\ ~over
  /\ combat' = [combat EXCEPT !.attacking = ~@]
  /\ UNCHANGED << active, phase, round, intent, owed, board, over, ctl, passed >>

FinalizeConfirmAttackers(c) ==
  /\ combat' = [c EXCEPT !.confirmed = TRUE, !.blocked = FALSE, !.parked = {}]
  /\ \E r \in IF c.attacking THEN Place("attack", round) ELSE {round} :
       round' = Grant(r, active)
  /\ Begin("drain", "drain", FALSE)
Park(c, tax) ==
  /\ combat' = [c EXCEPT !.parked = {tax}] /\ Begin("rest", "drain", FALSE)
  /\ UNCHANGED round
ChargeTaxes(c) ==
  IF ~c.attacking \/ c.tax = {} THEN FinalizeConfirmAttackers(c)
  ELSE Park(c, IF "mana" \in c.tax THEN "mana" ELSE "sacrifice")
Paid(tax) == [combat EXCEPT !.tax = @ \ {tax}, !.parked = {}]

ConfirmAttackers(p) ==
  /\ Declares(p) /\ ChargeTaxes(combat) /\ passed' = {}
  /\ UNCHANGED << active, phase, intent, owed, board, over >>
PayAttackTax(p) ==
  /\ \E tax \in combat.parked : Awaits(tax, p) /\ ChargeTaxes(Paid(tax))
  /\ passed' = {}
  /\ UNCHANGED << active, phase, intent, owed, board, over >>
CancelAttackTax(p) ==
  /\ Awaits("mana", p) /\ Begin("rest", "drain", FALSE)
  /\ combat' = [combat EXCEPT !.parked = {}, !.attacking = FALSE]
  /\ UNCHANGED << active, phase, round, intent, owed, board, over, passed >>

ConfirmBlockers(p) ==
  /\ Awaits("blockers", p) /\ Begin("drain", "drain", FALSE) /\ passed' = {}
  /\ combat' = [combat EXCEPT !.blocked = TRUE]
  /\ \E r \in Place("block", round) : round' = Grant(r, active)
  /\ UNCHANGED << active, phase, intent, owed, board, over >>

(* Either assigner may confirm, whoever holds priority; the damage is      *)
(* dealt when the last one has.                                            *)
ConfirmDamage(p) ==
  /\ Awaits("priority", round.holder) /\ phase \in DamageSteps
  /\ combat.open /\ p \in combat.owing
  /\ LET left == combat.owing \ {p}
         c == [combat EXCEPT !.owing = left, !.open = left # {}]
     IN  /\ combat' \in IF left # {} THEN {c} ELSE Survivors(c)
         /\ IF left # {} THEN Begin("rest", "drain", FALSE) /\ UNCHANGED << round, board >>
            ELSE /\ Begin("dealt", "drain", FALSE) /\ board' = "due"
                 /\ round' \in Place("damage", round)
  /\ passed' = {}
  /\ UNCHANGED << active, phase, intent, owed, over >>

Mutation(p) ==
  \/ PassPriority(p) \/ EndTurn(p) \/ PassUntilAction(p) \/ CancelAutoPass(p)
  \/ Concede(p) \/ \E keep \in BOOLEAN : Cast(p, keep)
  \/ AnswerResolution(p) \/ AnswerOrder(p) \/ AnswerLegend(p)
  \/ AnswerUntap(p) \/ AnswerDraw(p) \/ AnswerCleanup(p)
  \/ ChooseTarget(p) \/ DeclineTarget(p) \/ Retarget(p)
  \/ ToggleAttacker(p) \/ ConfirmAttackers(p) \/ PayAttackTax(p)
  \/ CancelAttackTax(p) \/ ConfirmBlockers(p) \/ ConfirmDamage(p)

Next == EngineStep \/ \E p \in Player : Mutation(p)
Spec == Init /\ [][Next]_vars
(* A mutation that started runs to its end.                                *)
FairSpec == Spec /\ WF_vars(EngineStep)

-----------------------------------------------------------------------------
(* Properties.                                                             *)

(* A resolution or the end of a step takes a pass of each seat in          *)
(* succession, with nothing put on the stack, answered or declared between *)
(* (passPriority and drainAutoPasses count to two in passCount).           *)
TwoPasses ==
  ctl.at \in {"resolve", "advance"} /\ ctl.caller # "answer" => passed = Player

(* The answer to a suspended resolution is written on the very object that *)
(* then resumes, whatever was put on the stack since it was asked (the     *)
(* stack item commitChoiceAnswer finds).                                   *)
AnswerRead == ctl.at = "resolve" => Answered

(* A target is only ever asked for an object that is on the stack, of its  *)
(* controller, and a trigger's only while it is unannounced (pendingTarget *)
(* against the pops, pushes and withdrawals between raise and answer).     *)
TargetAlive ==
  \A t \in round.target : \E k \in DOMAIN round.stack :
    /\ round.stack[k].id = t.id /\ round.stack[k].by = t.by
    /\ round.stack[k].needs <=> t.kind = "trigger"

(* No trigger resolves before its controller announced its target, however *)
(* it reached the stack (the owesInput guard of drainAutoPasses).          *)
AnnouncedFirst == ctl.at = "resolve" => round.stack # <<>> /\ ~Top(round).needs

(* Held triggers are asked for: a batch off the stack has its order choice *)
(* in the queue, or the game would wait on nobody with triggers lost.      *)
HeldIsAsked ==
  round.held => \E k \in DOMAIN round.choices : round.choices[k].kind = "order"

(* Every trigger held for its order reaches the stack, whatever else is    *)
(* triggered while its controller orders it (pendingTriggerBatch).         *)
BatchLands ==
  [][BatchIds(round.batch) \subseteq BatchIds(round'.batch) \cup StackIds(round')]_vars

(* No standing pass and no late payment takes the defender's blocks away:  *)
(* the declare-blockers step of a live attack ends with blocks declared.   *)
BlocksDeclared ==
  ctl.at = "advance" /\ phase = "DECLARE_BLOCKERS" /\ combat.attacking => combat.blocked

(* Nor does a damage step end with its damage still to be assigned, though *)
(* the assigners are not the holders of priority (damageConfirmed).        *)
DamageAssigned == ctl.at = "advance" /\ phase \in DamageSteps => ~combat.open

(* A tax parked on a declaration of attackers is paid or cancelled before  *)
(* the declaration is confirmed (pendingAttackManaTax).                    *)
TaxClears == combat.parked # {} => phase = "DECLARE_ATTACKERS" /\ ~combat.confirmed

(* No turn ends over an object on the stack or an input owed, however the  *)
(* cleanup step was suspended or resumed (drainAutoPasses after advancePhase).*)
TurnEndsQuiet == ctl.at = "turn" => round.stack = <<>> /\ ~OwesInput(round)

(* In the untap step nobody receives priority: the engine comes to rest    *)
(* there only for an input it owes (AUTO_PHASES).                          *)
UntapWithoutPriority ==
  phase = "UNTAP" /\ ctl.at = "rest" => over \/ OwesInput(round)

(* A step ends only on an empty stack (advancePhase and its skipped steps).*)
EndsOnEmptyStack == [][phase' # phase => round.stack = <<>>]_vars

(* A seat that passes until an action never passes over an object its      *)
(* opponent put on the stack since the seat last pressed, though the id of *)
(* that object may have been there before (prunePassUntilActionBaselines). *)
StopsOnAction ==
  ctl.at = "take" /\ round.holder \in intent.armed \ intent.auto =>
    \A k \in DOMAIN round.stack :
      k > intent.seen[round.holder] => round.stack[k].by = round.holder

(* Turns and steps come in the order TurnOrder promises, whatever happens  *)
(* inside a step (advancePhase and advanceTurn against everything that     *)
(* suspends, repeats or skips them).                                       *)
TurnStructure == INSTANCE TurnOrder WITH
  Steps <- PHASE_ORDER, step <- phase, extra <- owed.turns,
  skips <- owed.skips, combats <- owed.combats, again <- owed.cleanup
TurnsInOrder == TurnStructure!OrderSpec

(* A mutation that started ends: the standing passes of both seats, the    *)
(* skipped steps and the triggers they meet never keep the drain running.  *)
EngineSettles == ctl.at # "rest" ~> ctl.at = "rest"
=============================================================================
