--------------------------- MODULE OpeningProofs ---------------------------
(***************************************************************************)
(* That a game from its play/draw choice on is a game of TurnPriority, so  *)
(* that what is proved of the engine holds of it, and that the opening     *)
(* keeps the seats in step and deals the hands they kept, for every value  *)
(* of the constants.                                                       *)
(***************************************************************************)
EXTENDS Opening, TurnOrderProofs

-----------------------------------------------------------------------------
(* The opening leaves the engine alone, up to a concession.                *)
LEMMA OpeningStutters ==
  ASSUME NEW p \in Player, OpeningStep(p)
  PROVE  Next \/ UNCHANGED vars
<1>1. CASE ConcedeOpening(p)
  BY <1>1 DEF ConcedeOpening, Next, Mutation
<1>2. CASE \E decision \in Decision : DeclareMulligan(p, decision)
  BY <1>2 DEF DeclareMulligan
<1>3. CASE SubmitMulliganBottom(p)
  BY <1>3 DEF SubmitMulliganBottom
<1> QED
  BY <1>1, <1>2, <1>3 DEF OpeningStep

(* A game with its opening implements the engine alone: chooseFirstPlayer  *)
(* and finalizeMulligan hand it a state it starts in.                      *)
THEOREM GameImplementsEngine == GameSpec => Spec
<1>1. GameInit => Init
  BY DEF GameInit
<1>2. [GameNext]_gameVars => [Next]_vars
  <2> SUFFICES ASSUME [GameNext]_gameVars
               PROVE  Next \/ UNCHANGED vars
    OBVIOUS
  <2>1. CASE Play
    BY <2>1 DEF Play
  <2>2. CASE \E p \in Player : OpeningStep(p)
    BY <2>2, OpeningStutters
  <2>3. CASE UNCHANGED gameVars
    BY <2>3 DEF gameVars
  <2> QED
    BY <2>1, <2>2, <2>3 DEF GameNext
<1> QED
  BY <1>1, <1>2, PTL DEF GameSpec, Spec

(* So the turns of a game come in order from its opening on.               *)
THEOREM GameTurnsInOrder == GameSpec => TurnsInOrder
BY GameImplementsEngine, ImplementsTurnOrder, PTL

(* And they end quiet.                                                     *)
THEOREM GameTurnsEndQuiet == GameSpec => []TurnEndsQuiet
BY GameImplementsEngine, TurnsEndQuiet, PTL

-----------------------------------------------------------------------------
(* The inductive invariant of the opening.                                 *)

(* Nobody that has not kept is ahead or out of cards to keep; the declarer *)
(* still has to declare; hands are whole until the bottom choices.         *)
StillDeclaring ==
  stage = "declaring" =>
    /\ declaring \notin locked /\ declared[declaring] = "none"
    /\ \A p \in locked : declared[p] = "none"
    /\ \A p \in Player, q \in Player \ locked : taken[p] <= taken[q]
    /\ \A q \in Player \ locked : taken[q] < HandSize
    /\ \A p \in Player : hand[p] = HandSize

(* A seat that answered its bottom choice holds what it is to begin with;  *)
(* nobody else is to lose a card.                                          *)
StillBottoming ==
  stage = "bottoming" =>
    /\ bottoms # {}
    /\ \A p \in Player : hand[p] = IF p \in bottoms THEN HandSize ELSE HandSize - taken[p]

OpeningInv == OpeningType /\ StillDeclaring /\ StillBottoming

LEMMA NextOfLeft ==
  ASSUME seats \in Seats, NEW left \in SUBSET Player, left # {}
  PROVE  NextOf(left) \in left
<1>1. seats[1] \in Player /\ seats[2] \in Player /\ seats[1] # seats[2]
  BY DEF Seats
<1>2. Player = {seats[1], seats[2]}
  BY <1>1, PlayerAssumption
<1> QED
  BY <1>2 DEF NextOf

LEMMA FinalizeKeeps ==
  ASSUME OpeningType, FinalizeMulligan, hand' \in [Player -> 0..HandSize]
  PROVE  OpeningInv'
<1>1. seats' \in Seats /\ seats'[1] \in Player
  BY DEF OpeningType, FinalizeMulligan, Seats
<1>2. taken' \in [Player -> 0..HandSize]
  BY HandAssumption DEF FinalizeMulligan, None
<1>3. declared' \in [Player -> Decision \cup {"none"}]
  BY DEF FinalizeMulligan, Nobody
<1> QED
  BY <1>1, <1>2, <1>3 DEF OpeningInv, OpeningType, StillDeclaring, StillBottoming, FinalizeMulligan

LEMMA RoundKeeps ==
  ASSUME OpeningInv, stage = "declaring",
         NEW d \in [Player -> Decision \cup {"none"}],
         \A p \in Player \ locked : d[p] \in Decision, \A p \in locked : d[p] = "none",
         ExecuteMulliganRound(d)
  PROVE  /\ OpeningInv'
         /\ stage' = "playing" => \A p \in Player : hand'[p] = HandSize /\ taken[p] = 0
<1> DEFINE redraw == { p \in Player \ locked : d[p] = "mull" }
           t == [p \in Player |-> IF p \in redraw THEN taken[p] + 1 ELSE taken[p]]
           l == { p \in Player : p \in redraw => t[p] >= HandSize }
<1>1. /\ \A p \in Player : taken[p] \in Nat /\ hand[p] = HandSize
      /\ \A q \in Player \ locked : taken[q] < HandSize
      /\ \A p \in Player, q \in Player \ locked : taken[p] <= taken[q]
      /\ taken \in [Player -> 0..HandSize] /\ hand \in [Player -> 0..HandSize]
      /\ HandSize \in Nat /\ HandSize > 0
  BY HandAssumption DEF OpeningInv, OpeningType, StillDeclaring
<1>2. hand' = [p \in Player |-> HandSize]
  BY <1>1 DEF ExecuteMulliganRound
<1>3. hand' \in [Player -> 0..HandSize] /\ \A p \in Player : hand'[p] = HandSize
  BY <1>1, <1>2
<1>4. t \in [Player -> 0..HandSize] /\ l \in SUBSET Player
  BY <1>1
<1>5. \A p \in Player : t[p] = IF p \in redraw THEN taken[p] + 1 ELSE taken[p]
  OBVIOUS
<1>6. \A p \in Player : t[p] \in Nat /\ t[p] <= HandSize
  BY <1>1, <1>4
<1>7. \A p \in Player : p \notin l => p \in redraw /\ ~(t[p] >= HandSize)
  OBVIOUS
<1> HIDE DEF t, l, redraw
<1>8. \A p \in Player : t[p] = 0 => taken[p] = 0
  BY <1>1, <1>5
<1>9. Nobody \in [Player -> Decision \cup {"none"}] /\ \A p \in Player : Nobody[p] = "none"
  BY DEF Nobody
<1>10. CASE l = Player
  <2>1. EnterBottomingPhase(t, l)
    BY <1>10 DEF ExecuteMulliganRound, t, l, redraw
  <2> DEFINE owing == { p \in Player : t[p] > 0 }
  <2>2. CASE owing = {}
    <3>1. FinalizeMulligan
      BY <2>1, <2>2 DEF EnterBottomingPhase
    <3>2. \A p \in Player : t[p] = 0
      BY <1>6, <2>2
    <3>3. \A p \in Player : taken[p] = 0
      BY <1>8, <3>2
    <3> QED
      BY <1>3, <3>1, <3>3, FinalizeKeeps DEF OpeningInv
  <2>3. CASE owing # {}
    <3>1. /\ stage' = "bottoming" /\ bottoms' = owing /\ taken' = t
          /\ locked' = l /\ declared' = Nobody /\ UNCHANGED << seats, declaring >>
      BY <2>1, <2>3 DEF EnterBottomingPhase
    <3>2. \A p \in Player : p \notin owing => t[p] = 0
      BY <1>6
    <3> HIDE DEF owing
    <3>3. StillBottoming'
      BY <1>1, <1>3, <2>3, <3>1, <3>2 DEF StillBottoming
    <3>4. OpeningType'
      <4>1. owing \in SUBSET Player
        BY DEF owing
      <4> QED
      BY <1>3, <1>4, <1>9, <3>1, <4>1 DEF OpeningType, OpeningInv
    <3> QED
      BY <3>1, <3>3, <3>4 DEF OpeningInv, StillDeclaring
  <2> QED
    BY <2>2, <2>3
<1>11. CASE l # Player
  <2>1. /\ declaring' = NextOf(Player \ l) /\ taken' = t /\ locked' = l
        /\ declared' = Nobody /\ UNCHANGED << stage, seats, bottoms >>
    BY <1>11 DEF ExecuteMulliganRound, t, l, redraw
  <2>2. Player \ l \in SUBSET Player /\ Player \ l # {}
    BY <1>4, <1>11
  <2>3. declaring' \in Player \ l
    BY <2>1, <2>2, NextOfLeft DEF OpeningInv, OpeningType
  <2>4. \A q \in Player \ l : q \in redraw /\ t[q] < HandSize /\ q \in Player \ locked
    BY <1>1, <1>6, <1>7 DEF redraw
  <2>5. \A p \in Player, q \in Player \ l : t[p] <= t[q]
    <3> TAKE p \in Player, q \in Player \ l
    <3>1. taken[p] <= taken[q] /\ t[q] = taken[q] + 1
      BY <1>1, <1>5, <2>4
    <3> QED
      BY <1>1, <1>5, <3>1
  <2>6. StillDeclaring'
    BY <1>3, <1>4, <1>9, <2>1, <2>3, <2>4, <2>5 DEF StillDeclaring
  <2>7. OpeningType'
    BY <1>3, <1>4, <1>9, <2>1, <2>3 DEF OpeningType, OpeningInv
  <2> QED
    BY <2>1, <2>6, <2>7 DEF OpeningInv, StillBottoming
<1> QED
  BY <1>10, <1>11

LEMMA DeclareKeeps ==
  ASSUME OpeningInv, NEW p \in Player, NEW decision \in Decision, DeclareMulligan(p, decision)
  PROVE  /\ OpeningInv'
         /\ stage' = "playing" => \A q \in Player : hand'[q] = HandSize /\ taken[q] = 0
<1> DEFINE d == [declared EXCEPT ![p] = decision]
           left == { q \in Player \ locked : d[q] = "none" }
<1>1. /\ stage = "declaring" /\ p \notin locked
      /\ IF left = {} THEN ExecuteMulliganRound(d)
         ELSE /\ declared' = d /\ declaring' = NextOf(left)
              /\ UNCHANGED << stage, seats, locked, taken, hand, bottoms >>
  BY DEF DeclareMulligan
<1>2. d \in [Player -> Decision \cup {"none"}] /\ \A q \in locked : d[q] = "none"
  BY <1>1 DEF OpeningInv, OpeningType, StillDeclaring
<1>3. CASE left = {}
  <2>1. \A q \in Player \ locked : d[q] \in Decision
    BY <1>2, <1>3
  <2> HIDE DEF d
  <2> QED
    BY <1>1, <1>2, <1>3, <2>1, RoundKeeps
<1>4. CASE left # {}
  <2>1. declaring' \in left
    BY <1>1, <1>4, NextOfLeft DEF OpeningInv, OpeningType
  <2> QED
    BY <1>1, <1>2, <1>4, <2>1 DEF OpeningInv, OpeningType, StillDeclaring, StillBottoming
<1> QED
  BY <1>3, <1>4

LEMMA BottomKeeps ==
  ASSUME OpeningInv, NEW p \in Player, SubmitMulliganBottom(p)
  PROVE  /\ OpeningInv'
         /\ stage' = "playing" => \A q \in Player : hand'[q] = HandSize - taken[q]
<1>1. /\ stage = "bottoming" /\ hand' = [hand EXCEPT ![p] = @ - taken[p]]
      /\ IF bottoms = {p} THEN FinalizeMulligan
         ELSE bottoms' = bottoms \ {p}
              /\ UNCHANGED << stage, seats, declaring, declared, locked, taken >>
  BY DEF SubmitMulliganBottom
<1>2. p \in bottoms
  <2>1. bottoms \in SUBSET Player /\ bottoms # {} /\ seats \in Seats
    BY <1>1 DEF OpeningInv, OpeningType, StillBottoming
  <2> QED
    BY <2>1, NextOfLeft DEF SubmitMulliganBottom
<1>3. /\ hand \in [Player -> 0..HandSize] /\ taken \in [Player -> 0..HandSize]
      /\ HandSize \in Nat
      /\ \A q \in Player : hand[q] = IF q \in bottoms THEN HandSize ELSE HandSize - taken[q]
  BY <1>1, HandAssumption DEF OpeningInv, OpeningType, StillBottoming
<1>4. /\ hand' \in [Player -> 0..HandSize] /\ hand'[p] = HandSize - taken[p]
      /\ \A q \in Player \ {p} : hand'[q] = hand[q]
  BY <1>1, <1>2, <1>3
<1>5. CASE bottoms = {p}
  <2>1. OpeningInv'
    BY <1>1, <1>4, <1>5, FinalizeKeeps DEF OpeningInv
  <2> QED
    BY <1>3, <1>4, <1>5, <2>1
<1>6. CASE bottoms # {p}
  <2>1. /\ bottoms' = bottoms \ {p}
        /\ UNCHANGED << stage, seats, declaring, declared, locked, taken >>
    BY <1>1, <1>6
  <2>2. bottoms' # {} /\ bottoms' \in SUBSET Player
    BY <1>2, <1>6, <2>1 DEF OpeningInv, OpeningType
  <2>3. \A q \in Player : hand'[q] = IF q \in bottoms' THEN HandSize ELSE HandSize - taken[q]
    BY <1>3, <1>4, <2>1
  <2>4. StillBottoming' /\ StillDeclaring'
    BY <1>1, <2>1, <2>2, <2>3 DEF StillBottoming, StillDeclaring
  <2>5. OpeningType'
    BY <1>4, <2>1, <2>2 DEF OpeningInv, OpeningType
  <2> QED
    BY <1>1, <2>1, <2>4, <2>5 DEF OpeningInv
<1> QED
  BY <1>5, <1>6

(* A seat that has put its cards down once playing is the concern of the   *)
(* turns: a step of theirs keeps the opening as it was left.               *)
LEMMA PlayKeeps ==
  ASSUME OpeningInv, Play
  PROVE  OpeningInv' /\ stage = "playing"
<1>1. None \in [Player -> 0..HandSize]
  BY HandAssumption DEF None
<1>2. /\ stage = "playing" /\ hand' = None
      /\ UNCHANGED << stage, seats, declaring, declared, locked, taken, bottoms >>
  BY DEF Play
<1> QED
  BY <1>1, <1>2 DEF OpeningInv, OpeningType, StillDeclaring, StillBottoming

LEMMA OpeningStepKeeps ==
  ASSUME OpeningInv, NEW p \in Player, OpeningStep(p)
  PROVE  /\ OpeningInv'
         /\ stage # "playing" /\ stage' = "playing" =>
              \A q \in Player : hand'[q] = HandSize - taken[q]
<1>1. CASE \E decision \in Decision : DeclareMulligan(p, decision)
  <2>1. PICK decision \in Decision : DeclareMulligan(p, decision)
    BY <1>1
  <2>2. /\ OpeningInv'
        /\ stage' = "playing" => \A q \in Player : hand'[q] = HandSize /\ taken[q] = 0
    BY <2>1, DeclareKeeps
  <2> QED
    BY <2>2, HandAssumption
<1>2. CASE SubmitMulliganBottom(p)
  BY <1>2, BottomKeeps
<1>3. CASE ConcedeOpening(p)
  BY <1>3 DEF ConcedeOpening, openingVars, OpeningInv, OpeningType, StillDeclaring, StillBottoming
<1> QED
  BY <1>1, <1>2, <1>3 DEF OpeningStep

LEMMA OpeningInit == GameInit => OpeningInv
<1> SUFFICES ASSUME GameInit
             PROVE  OpeningInv
  OBVIOUS
<1>1. seats \in Seats /\ seats[1] \in Player
  BY DEF GameInit, Seats
<1>2. /\ None \in [Player -> 0..HandSize] /\ \A p \in Player : None[p] = 0
      /\ Nobody \in [Player -> Decision \cup {"none"}] /\ \A p \in Player : Nobody[p] = "none"
      /\ HandSize \in 0..HandSize /\ 0 < HandSize
  BY HandAssumption DEF None, Nobody
<1>3. hand \in [Player -> 0..HandSize] /\ \A p \in Player : hand[p] = HandSize
  BY <1>2 DEF GameInit
<1> QED
  BY <1>1, <1>2, <1>3 DEF GameInit, OpeningInv, OpeningType, StillDeclaring, StillBottoming

LEMMA OpeningInvariant == GameSpec => []OpeningInv
<1>1. OpeningInv /\ [GameNext]_gameVars => OpeningInv'
  <2> SUFFICES ASSUME OpeningInv, [GameNext]_gameVars
               PROVE  OpeningInv'
    OBVIOUS
  <2>1. CASE Play
    BY <2>1, PlayKeeps
  <2>2. CASE \E p \in Player : OpeningStep(p)
    BY <2>2, OpeningStepKeeps
  <2>3. CASE UNCHANGED gameVars
    BY <2>3 DEF gameVars, openingVars, OpeningInv, OpeningType, StillDeclaring, StillBottoming
  <2> QED
    BY <2>1, <2>2, <2>3 DEF GameNext
<1> QED
  BY <1>1, OpeningInit, PTL DEF GameSpec

(* The state of an opening is well formed: a seat that has mulliganed      *)
(* HandSize times is locked (the forced lock of executeMulliganRound).     *)
THEOREM OpeningTypeCorrect == GameSpec => []OpeningType
<1>1. OpeningInv => OpeningType
  BY DEF OpeningInv
<1> QED
  BY <1>1, OpeningInvariant, PTL

(* The opening waits on a seat that can declare, and no seat is a mulligan *)
(* ahead of one that has not kept (executeMulliganRound).                  *)
THEOREM KeptInStep == GameSpec => []RoundsInStep
<1>1. OpeningInv => RoundsInStep
  BY DEF OpeningInv, StillDeclaring, RoundsInStep
<1> QED
  BY <1>1, OpeningInvariant, PTL

(* The turns begin with the hands that were kept, less a card for every    *)
(* mulligan (enterBottomingPhase, applyMulliganBottomChoice).              *)
THEOREM BeginsAsKept == GameSpec => HandsAsKept
<1>1. OpeningInv /\ OpeningInv' /\ [GameNext]_gameVars =>
        [stage # "playing" /\ stage' = "playing" =>
           hand' = [p \in Player |-> HandSize - taken[p]]]_gameVars
  <2> SUFFICES ASSUME OpeningInv, OpeningInv', GameNext,
                      stage # "playing", stage' = "playing"
               PROVE  hand' = [p \in Player |-> HandSize - taken[p]]
    BY DEF gameVars
  <2>1. PICK p \in Player : OpeningStep(p)
    BY PlayKeeps DEF GameNext
  <2>2. \A q \in Player : hand'[q] = HandSize - taken[q]
    BY <2>1, OpeningStepKeeps
  <2>3. hand' \in [Player -> 0..HandSize]
    BY DEF OpeningInv, OpeningType
  <2> QED
    BY <2>2, <2>3
<1> QED
  BY <1>1, OpeningInvariant, PTL DEF GameSpec, HandsAsKept
=============================================================================
