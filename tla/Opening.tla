------------------------------ MODULE Opening ------------------------------
(***************************************************************************)
(* A game from the play/draw choice on (chooseFirstPlayer, the London      *)
(* mulligan of gre/mulligan.ts), and the engine of TurnPriority after it.  *)
(*                                                                         *)
(* Seats declare one after another; once all that have not kept declared,  *)
(* those who mulligan redraw together, until each seat kept; then each     *)
(* puts a card on the bottom for every mulligan it took.  While that lasts *)
(* the variables of TurnPriority hold what finalizeMulligan leaves in them *)
(* (it walks to the upkeep of turn 1): the priority and the choices of the *)
(* opening are `declaring` and `bottoms`.                                  *)
(***************************************************************************)
EXTENDS TurnPriority

CONSTANT HandSize   \* STARTING_HAND_SIZE

ASSUME HandAssumption == HandSize \in Nat \ {0}

VARIABLES
  stage,      \* "declaring" or "bottoming" while mulligan is set, "playing"
  seats,      \* state.players: the order of the seats, not that of the turns
  declaring,  \* declaringPlayerId
  declared,   \* declarations: who declared what in this round
  locked,     \* the seats that may not mulligan any more
  taken,      \* mulligansTaken
  hand,       \* the number of cards in each opening hand
  bottoms     \* mulligan-bottom choices, queued in seat order: who owes one

openingVars == << stage, seats, declaring, declared, locked, taken, hand, bottoms >>
gameVars == << vars, openingVars >>

Decision == {"keep", "mull"}
Seats == { s \in [1..2 -> Player] : s[1] # s[2] }
Nobody == [p \in Player |-> "none"]
None == [p \in Player |-> 0]

OpeningType ==
  /\ stage \in {"declaring", "bottoming", "playing"}
  /\ seats \in Seats /\ declaring \in Player
  /\ declared \in [Player -> Decision \cup {"none"}]
  /\ locked \subseteq Player
  /\ taken \in [Player -> 0..HandSize] /\ hand \in [Player -> 0..HandSize]
  /\ bottoms \subseteq Player

(* nextGameActivePlayerId: who plays first.  The chooser won the toss or   *)
(* lost the last game; a bot, the second seat, always plays; without a     *)
(* chooser (the last game had no loser) it is the first seat.              *)
StartingPlayer(order, chooser, choice, vsAi) ==
  IF chooser = {} THEN order[1]
  ELSE LET c == CHOOSE p \in chooser : TRUE
           play == choice = "play" \/ (vsAi /\ c = order[2])
       IN IF play THEN c ELSE Opponent(c)

(* Who moves next of those that are left: they go in seat order.           *)
FirstSeat(left) == seats[1]   \* mutant: nobody is skipped
NextOf(left) == IF seats[1] \in left THEN seats[1] ELSE seats[2]

(* buildInitialGameState: hands are drawn, the first seat declares first.  *)
GameInit ==
  /\ Init
  /\ seats \in Seats
  /\ \E chooser \in {{}} \cup { {p} : p \in Player },
        choice \in {"play", "draw"}, vsAi \in BOOLEAN :
       active = StartingPlayer(seats, chooser, choice, vsAi)
  /\ stage = "declaring" /\ declaring = seats[1] /\ declared = Nobody
  /\ locked = {} /\ taken = None /\ hand = [p \in Player |-> HandSize]
  /\ bottoms = {}

-----------------------------------------------------------------------------
(* finalizeMulligan: the mulligan state is dropped and the game begins.    *)
FinalizeMulligan ==
  /\ stage' = "playing" /\ declaring' = seats[1] /\ declared' = Nobody
  /\ locked' = {} /\ taken' = None /\ bottoms' = {}
  /\ UNCHANGED seats

(* enterBottomingPhase, once everybody is locked after t mulligans.        *)
EnterBottomingPhase(t, l) ==
  LET owing == { p \in Player : t[p] > 0 } IN
  IF owing = {} THEN FinalizeMulligan
  ELSE /\ stage' = "bottoming" /\ bottoms' = owing
       /\ taken' = t /\ locked' = l /\ declared' = Nobody
       /\ UNCHANGED << seats, declaring >>

(* executeMulliganRound: those who mulligan shuffle their hand into their  *)
(* library and redraw it whole; a hand that would lose every card is kept. *)
RoundWithoutEnd(d) ==   \* mutant: the forced lock is dropped
  LET redraw == { p \in Player \ locked : d[p] = "mull" }
      t == [p \in Player |-> IF p \in redraw THEN taken[p] + 1 ELSE taken[p]]
  IN /\ hand' = [p \in Player |-> IF p \in redraw THEN HandSize ELSE hand[p]]
     /\ IF redraw = {} THEN EnterBottomingPhase(t, Player)
        ELSE /\ declaring' = NextOf(redraw) /\ declared' = Nobody
             /\ taken' = t /\ locked' = Player \ redraw
             /\ UNCHANGED << stage, seats, bottoms >>
ExecuteMulliganRound(d) ==
  LET redraw == { p \in Player \ locked : d[p] = "mull" }
      t == [p \in Player |-> IF p \in redraw THEN taken[p] + 1 ELSE taken[p]]
      l == { p \in Player : p \in redraw => t[p] >= HandSize }
  IN /\ hand' = [p \in Player |-> IF p \in redraw THEN HandSize ELSE hand[p]]
     /\ IF l = Player THEN EnterBottomingPhase(t, l)
        ELSE /\ declaring' = NextOf(Player \ l)
             /\ taken' = t /\ locked' = l /\ declared' = Nobody
             /\ UNCHANGED << stage, seats, bottoms >>

(* declareMulligan.                                                        *)
DeclareMulligan(p, decision) ==
  /\ stage = "declaring" /\ ~over /\ declaring = p /\ p \notin locked
  /\ LET d == [declared EXCEPT ![p] = decision]
         left == { q \in Player \ locked : d[q] = "none" }
     IN IF left = {} THEN ExecuteMulliganRound(d)
        ELSE /\ declared' = d /\ declaring' = NextOf(left)
             /\ UNCHANGED << stage, seats, locked, taken, hand, bottoms >>
  /\ UNCHANGED vars

(* submitMulliganBottom; with no standing pass its drain does nothing.     *)
BottomAndBegin(p) ==   \* mutant: the game begins with choices in the queue
  /\ stage = "bottoming" /\ ~over /\ p = NextOf(bottoms)
  /\ hand' = [hand EXCEPT ![p] = @ - taken[p]]
  /\ FinalizeMulligan /\ UNCHANGED vars
SubmitMulliganBottom(p) ==
  /\ stage = "bottoming" /\ ~over /\ p = NextOf(bottoms)
  /\ hand' = [hand EXCEPT ![p] = @ - taken[p]]
  /\ IF bottoms = {p} THEN FinalizeMulligan
     ELSE bottoms' = bottoms \ {p}
          /\ UNCHANGED << stage, seats, declaring, declared, locked, taken >>
  /\ UNCHANGED vars

(* concede, while the opening lasts.                                       *)
ConcedeOpening(p) == stage # "playing" /\ Concede(p) /\ UNCHANGED openingVars

(* Turns begin.  What becomes of the hands is not followed any further.    *)
Play ==
  /\ stage = "playing" /\ Next
  /\ hand' = None /\ UNCHANGED << stage, seats, declaring, declared, locked, taken, bottoms >>

OpeningStep(p) ==
  \/ \E decision \in Decision : DeclareMulligan(p, decision)
  \/ SubmitMulliganBottom(p) \/ ConcedeOpening(p)
GameNext == Play \/ \E p \in Player : OpeningStep(p)
GameSpec == GameInit /\ [][GameNext]_gameVars

-----------------------------------------------------------------------------
(* Properties.                                                             *)

(* The game waits on a seat that can declare, and nobody is a mulligan     *)
(* ahead: seats that have not kept have taken as many, and those that kept *)
(* no more (executeMulliganRound against declarations one at a time).      *)
RoundsInStep ==
  stage = "declaring" =>
    /\ declaring \notin locked /\ declared[declaring] = "none"
    /\ \A p \in Player, q \in Player \ locked : taken[p] <= taken[q]

(* Turns begin with a card less in each hand for every mulligan its seat   *)
(* took, in whatever round it kept (the bottom choices against the rounds).*)
HandsAsKept ==
  [][stage # "playing" /\ stage' = "playing" =>
       hand' = [p \in Player |-> HandSize - taken[p]]]_gameVars
=============================================================================
