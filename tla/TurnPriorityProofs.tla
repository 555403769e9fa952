------------------------- MODULE TurnPriorityProofs -------------------------
(***************************************************************************)
(* Theorems about TurnPriority and about the functions of StackRound it is *)
(* built from, for every value of the constants: any two seats, any table  *)
(* of triggers, any bound on the stack, any effects of resolutions.        *)
(***************************************************************************)
EXTENDS TurnPriority, TLAPS, SequenceTheorems, FiniteSetTheorems, WellFoundedInduction

-----------------------------------------------------------------------------
(* What the functions of StackRound return: rounds of the right type.      *)

(* Only triggers announce a target, and their ids were allocated. *)
LEMMA ItemFields ==
  \A x \in Item : /\ x.id \in ObjectId /\ x.by \in Player /\ x.needs \in BOOLEAN
                  /\ x.needs => x.id \in Id
BY DEF Item, Trigger, ObjectId

(* Triggers are objects of the stack. *)
LEMMA TriggersAreItems == Seq(Trigger) \subseteq Seq(Item)
<1> SUFFICES ASSUME NEW s \in Seq(Trigger)
             PROVE  s \in Seq(Item)
  OBVIOUS
<1>1. /\ Len(s) \in Nat /\ DOMAIN s = 1..Len(s)
      /\ \A k \in 1..Len(s) : s[k] \in Trigger
  BY ElementOfSeq, LenProperties
<1>2. Trigger \subseteq Item
  BY DEF Item
<1>3. [k \in 1..Len(s) |-> s[k]] \in Seq(Item)
  BY <1>1, <1>2, IsASeq
<1>4. s = [k \in 1..Len(s) |-> s[k]]
  BY <1>1, LenProperties
<1> QED
  BY <1>3, <1>4

(* The two seats are each other's opponents (getOpponentId). *)
LEMMA OpponentIsOther ==
  \A p \in Player : Opponent(p) \in Player /\ Opponent(p) # p
<1> TAKE p \in Player
<1>1. \E q \in Player : q # p
  BY PlayerAssumption
<1> QED
  BY <1>1 DEF Opponent

(* Either side of a scan for triggers is a seat. *)
LEMMA SeatIsPlayer ==
  ASSUME NEW ap \in Player, NEW side
  PROVE  Seat(ap, side) \in Player
BY OpponentIsOther DEF Seat

(* The empty batch is a batch. *)
LEMMA NoBatchType ==
  ASSUME NEW ap \in Player
  PROVE  NoBatch(ap) \in Batch
BY DEF NoBatch, Batch

(* A grant of priority leaves a round; HeadChooser seats its head chooser. *)
LEMMA GrantType ==
  ASSUME NEW r \in Round, NEW p \in Player
  PROVE  Grant(r, p) \in Round
BY DEF Grant, Round

LEMMA HeadChooserType ==
  ASSUME NEW r \in Round
  PROVE  HeadChooser(r) \in Round
<1>1. CASE r.choices = <<>>
  BY <1>1 DEF HeadChooser
<1>2. CASE r.choices # <<>>
  <2>1. r.choices \in Seq(Choice)
    BY DEF Round
  <2>2. Head(r.choices) \in Choice
    BY <1>2, <2>1, HeadTailProperties
  <2>3. Head(r.choices).by \in Player
    BY <2>2 DEF Choice
  <2> QED
    BY <1>2, <2>3 DEF HeadChooser, Round
<1> QED
  BY <1>1, <1>2

(* Priority is handed on to a seat. *)
LEMMA HandPriorityOnType ==
  ASSUME NEW r \in Round, NEW ap \in Player
  PROVE  HandPriorityOn(r, ap) \in Round
<1>1. CASE r.choices # <<>>
  BY <1>1, HeadChooserType DEF HandPriorityOn
<1>2. CASE r.choices = <<>> /\ r.target # {}
  <2>1. (CHOOSE t \in r.target : TRUE) \in r.target
    BY <1>2
  <2>2. (CHOOSE t \in r.target : TRUE).by \in Player
    BY <2>1 DEF Round, Target
  <2> QED
    BY <1>2, <2>2 DEF HandPriorityOn, Round
<1>3. CASE r.choices = <<>> /\ r.target = {}
  BY <1>3, GrantType DEF HandPriorityOn
<1> QED
  BY <1>1, <1>2, <1>3

(* The announcement of a target and the grant when there is none to make. *)
LEMMA RaiseTargetType ==
  ASSUME NEW r \in Round, Unannounced(r.stack) # {}
  PROVE  RaiseTarget(r) \in Round
<1> DEFINE raised == { [kind |-> "trigger", by |-> r.stack[i].by, id |-> r.stack[i].id]
                       : i \in Unannounced(r.stack) }
<1>1. r.stack \in Seq(Item)
  BY DEF Round
<1>2. \A i \in DOMAIN r.stack : r.stack[i] \in Item
  BY <1>1, ElementOfSeq, LenProperties
<1>3. raised \subseteq Target
  BY <1>2, ItemFields DEF Unannounced, Target
<1>4. raised # {}
  OBVIOUS
<1>5. (CHOOSE t \in raised : TRUE) \in raised
  BY <1>4
<1>6. (CHOOSE t \in raised : TRUE).by \in Player
  BY <1>3, <1>5 DEF Target
<1>7. raised \in SUBSET Target
  BY <1>3
<1> HIDE DEF raised
<1>8. [r EXCEPT !.target = raised, !.passes = 0,
                !.holder = (CHOOSE t \in raised : TRUE).by] \in Round
  BY <1>6, <1>7 DEF Round
<1> QED
  BY <1>8 DEF RaiseTarget, raised

LEMMA LandType ==
  ASSUME NEW r \in Round, NEW ap \in Player
  PROVE  Land(r, ap) \in Round
BY RaiseTargetType, GrantType DEF Land
(* Who is asked for an order: seats, each for its own slice. *)
LEMMA OrderChoicesType ==
  ASSUME NEW ordered, NEW ap \in Player
  PROVE  OrderChoices(ordered, ap) \in Seq(Choice)
<1> DEFINE mine == IF ap \in ordered THEN << Order(ap) >> ELSE <<>>
           theirs == IF Opponent(ap) \in ordered THEN << Order(Opponent(ap)) >> ELSE <<>>
<1>1. Order(ap) \in Choice /\ Order(Opponent(ap)) \in Choice
  BY OpponentIsOther DEF Order, Choice, ChoiceKind
<1>2. mine \in Seq(Choice) /\ theirs \in Seq(Choice)
  BY <1>1
<1>3. mine \o theirs \in Seq(Choice)
  BY <1>2, ConcatProperties
<1> QED
  BY <1>3 DEF OrderChoices

(* The slices of a batch go on top of a stack. *)
LEMMA StackedType ==
  ASSUME NEW s \in Seq(Item), NEW b \in Batch, NEW p \in Player, NEW q \in Player
  PROVE  s \o b.of[p] \o b.of[q] \in Seq(Item)
<1>1. b.of[p] \in Seq(Item) /\ b.of[q] \in Seq(Item)
  BY TriggersAreItems DEF Batch
<1>2. s \o b.of[p] \in Seq(Item)
  BY <1>1, ConcatProperties
<1> QED
  BY <1>1, <1>2, ConcatProperties

(* placeTriggersOnStack: landed, held for its order, or nothing to place.  *)
LEMMA PlaceTriggersOnStackType ==
  ASSUME NEW r \in Round, NEW b \in Batch, NEW ordered, NEW ap \in Player
  PROVE  PlaceTriggersOnStack(r, b, ordered, ap) \in Round
<1> DEFINE placed == [r EXCEPT !.stack = @ \o b.of[ap] \o b.of[Opponent(ap)]]
           parked == [r EXCEPT !.batch = b, !.held = TRUE, !.passes = 0,
                               !.choices = @ \o OrderChoices(ordered, ap)]
<1>1. CASE \A p \in Player : b.of[p] = <<>>
  BY <1>1 DEF PlaceTriggersOnStack
<1>2. CASE ~(\A p \in Player : b.of[p] = <<>>) /\ ordered = {}
  <2>1. r.stack \o b.of[ap] \o b.of[Opponent(ap)] \in Seq(Item)
    BY OpponentIsOther, StackedType DEF Round
  <2>2. placed \in Round
    BY <2>1 DEF Round
  <2>3. Land(placed, ap) \in Round
    BY <2>2, LandType
  <2> QED
    BY <1>2, <2>3 DEF PlaceTriggersOnStack
<1>3. CASE ~(\A p \in Player : b.of[p] = <<>>) /\ ordered # {}
  <2>1. r.choices \o OrderChoices(ordered, ap) \in Seq(Choice)
    BY OrderChoicesType, ConcatProperties DEF Round
  <2>2. parked \in Round
    BY <2>1 DEF Round
  <2>3. HeadChooser(parked) \in Round
    BY <2>2, HeadChooserType
  <2> QED
    BY <1>3, <2>3 DEF PlaceTriggersOnStack
<1> QED
  BY <1>1, <1>2, <1>3

LEMMA FireDelayedType ==
  ASSUME NEW r \in Round, NEW b \in Batch, NEW ap \in Player
  PROVE  FireDelayed(r, b, ap) \in Round
<1>1. b.lead \in Player /\ Opponent(b.lead) \in Player
  BY OpponentIsOther DEF Batch
<1>2. r.stack \o b.of[b.lead] \o b.of[Opponent(b.lead)] \in Seq(Item)
  BY <1>1, StackedType DEF Round
<1>3. [r EXCEPT !.stack = @ \o b.of[b.lead] \o b.of[Opponent(b.lead)]] \in Round
  BY <1>2 DEF Round
<1>4. Grant([r EXCEPT !.stack = @ \o b.of[b.lead] \o b.of[Opponent(b.lead)]], ap) \in Round
  BY <1>3, GrantType
<1> QED
  BY <1>4 DEF FireDelayed

(* Two runs of indices, one after the other.                               *)
LEMMA Offsets ==
  ASSUME NEW m \in Nat, NEW n \in Nat
  PROVE  /\ \A k \in 1..m : 0 + k \in 1..(m + n)
         /\ \A k \in 1..n : m + k \in 1..(m + n)
OBVIOUS

(* The slice of a seat: its triggers, with the ids handed out.             *)
LEMMA SliceType ==
  ASSUME NEW shape \in Shape, NEW ids \in [1..Size(shape) -> Id],
         NEW ap \in Player, NEW p \in Player
  PROVE  Slice(shape, ids, ap, p) \in Seq(Trigger)
<1> DEFINE mine == shape.of["active"]
           theirs == shape.of["other"]
<1>1. mine \in Seq(BOOLEAN) /\ theirs \in Seq(BOOLEAN)
  BY DEF Shape, Side
<1>2. /\ Len(mine) \in Nat /\ Len(theirs) \in Nat
      /\ \A k \in 1..Len(mine) : mine[k] \in BOOLEAN
      /\ \A k \in 1..Len(theirs) : theirs[k] \in BOOLEAN
  BY <1>1, ElementOfSeq, LenProperties
<1>3. ids \in [1..(Len(mine) + Len(theirs)) -> Id]
  BY DEF Size
<1>4. \A k \in 1..(Len(mine) + Len(theirs)) : ids[k] \in Id
  BY <1>3
<1>5. CASE p = ap
  <2>1. \A k \in 1..Len(mine) : 0 + k \in 1..(Len(mine) + Len(theirs))
    BY <1>2, Offsets
  <2>2. \A k \in 1..Len(mine) :
          [id |-> ids[0 + k], by |-> p, needs |-> mine[k]] \in Trigger
    BY <1>2, <1>4, <2>1 DEF Trigger
  <2>3. [k \in 1..Len(mine) |-> [id |-> ids[0 + k], by |-> p, needs |-> mine[k]]]
          \in Seq(Trigger)
    BY <1>2, <2>2, IsASeq
  <2> QED
    BY <1>5, <2>3 DEF Slice
<1>6. CASE p # ap
  <2>1. \A k \in 1..Len(theirs) : Len(mine) + k \in 1..(Len(mine) + Len(theirs))
    BY <1>2, Offsets
  <2>2. \A k \in 1..Len(theirs) :
          [id |-> ids[Len(mine) + k], by |-> p, needs |-> theirs[k]] \in Trigger
    BY <1>2, <1>4, <2>1 DEF Trigger
  <2>3. [k \in 1..Len(theirs) |->
           [id |-> ids[Len(mine) + k], by |-> p, needs |-> theirs[k]]] \in Seq(Trigger)
    BY <1>2, <2>2, IsASeq
  <2> QED
    BY <1>6, <2>3 DEF Slice
<1> QED
  BY <1>5, <1>6

(* A source fires batches whose triggers are controlled by their seats and *)
(* carry ids of the game.                                                  *)
LEMMA FiringType ==
  ASSUME NEW source \in Source, NEW r \in Round, NEW ap \in Player, NEW spared,
         NEW b \in Firing(source, r, ap, spared)
  PROVE  BatchOf(b) \in Batch
<1>1. PICK shape \in Fires[source] :
        \E ids \in FreshIds(Id \ (UsedIds(r) \cup spared), Size(shape)) :
          b = Built(shape, ids, ap)
  BY DEF Firing
<1>2. PICK ids \in FreshIds(Id \ (UsedIds(r) \cup spared), Size(shape)) :
        b = Built(shape, ids, ap)
  BY <1>1
<1>3. shape \in Shape
  BY FiresAssumption
<1>4. ids \in [1..Size(shape) -> Id]
  BY DEF FreshIds
<1>5. [p \in Player |-> Slice(shape, ids, ap, p)] \in [Player -> Seq(Trigger)]
  BY <1>3, <1>4, SliceType
<1>6. Seat(ap, shape.lead) \in Player
  BY SeatIsPlayer
<1> QED
  BY <1>2, <1>5, <1>6 DEF Built, BatchOf, Batch

(* The rounds that follow when the triggers of a source are placed. *)
LEMMA PlacedType ==
  ASSUME NEW source \in Source, NEW r \in Round, NEW ap \in Player, NEW spared
  PROVE  Placed(source, r, ap, spared) \subseteq Round
<1> SUFFICES ASSUME NEW s \in Placed(source, r, ap, spared)
             PROVE  s \in Round
  OBVIOUS
<1>1. PICK b \in Firing(source, r, ap, spared) :
        s = PlaceTriggersOnStack(r, BatchOf(b), b.ordered, ap)
  BY DEF Placed
<1> QED
  BY <1>1, FiringType, PlaceTriggersOnStackType
-----------------------------------------------------------------------------
(* What placing triggers does to the rest of a round, for proofs that need *)
(* more than its type.                                                     *)

(* The kinds of the choices a queue holds.                                 *)
KindsOf(choices) == { choices[k].kind : k \in DOMAIN choices }

LEMMA KindsOfEmpty == KindsOf(<<>>) = {}
BY DEF KindsOf

LEMMA KindsOfConcat ==
  ASSUME NEW s \in Seq(Choice), NEW t \in Seq(Choice)
  PROVE  KindsOf(s \o t) \subseteq KindsOf(s) \cup KindsOf(t)
<1>1. /\ s \o t \in Seq(Choice) /\ Len(s) \in Nat /\ Len(t) \in Nat
      /\ Len(s \o t) = Len(s) + Len(t)
      /\ \A i \in 1..(Len(s) + Len(t)) :
           (s \o t)[i] = IF i <= Len(s) THEN s[i] ELSE t[i - Len(s)]
  BY ConcatProperties, LenProperties
<1>2. DOMAIN (s \o t) = 1..(Len(s) + Len(t)) /\ DOMAIN s = 1..Len(s) /\ DOMAIN t = 1..Len(t)
  BY <1>1, LenProperties
<1> SUFFICES ASSUME NEW i \in 1..(Len(s) + Len(t))
             PROVE  (s \o t)[i].kind \in KindsOf(s) \cup KindsOf(t)
  BY <1>2 DEF KindsOf
<1>3. CASE i <= Len(s)
  BY <1>1, <1>2, <1>3 DEF KindsOf
<1>4. CASE ~(i <= Len(s))
  <2>1. i - Len(s) \in 1..Len(t)
    BY <1>1, <1>4
  <2> QED
    BY <1>1, <1>2, <1>4, <2>1 DEF KindsOf
<1> QED
  BY <1>3, <1>4

LEMMA KindsOfTail ==
  ASSUME NEW s \in Seq(Choice), s # <<>>
  PROVE  KindsOf(Tail(s)) \subseteq KindsOf(s) /\ Len(Tail(s)) = Len(s) - 1
<1>1. /\ Tail(s) \in Seq(Choice) /\ Len(Tail(s)) = Len(s) - 1 /\ Len(s) \in Nat
      /\ \A i \in 1..Len(Tail(s)) : Tail(s)[i] = s[i + 1]
  BY HeadTailProperties, LenProperties
<1>2. DOMAIN Tail(s) = 1..(Len(s) - 1) /\ DOMAIN s = 1..Len(s)
  BY <1>1, LenProperties
<1>3. \A i \in 1..(Len(s) - 1) : i + 1 \in 1..Len(s)
  BY <1>1
<1> QED
  BY <1>1, <1>2, <1>3 DEF KindsOf

(* Only orders of triggers are asked for when triggers are placed.         *)
LEMMA OrderChoicesKinds ==
  ASSUME NEW ordered, NEW ap \in Player
  PROVE  KindsOf(OrderChoices(ordered, ap)) \subseteq {"order"}
<1> DEFINE mine == IF ap \in ordered THEN << Order(ap) >> ELSE <<>>
           theirs == IF Opponent(ap) \in ordered THEN << Order(Opponent(ap)) >> ELSE <<>>
<1>1. Order(ap) \in Choice /\ Order(Opponent(ap)) \in Choice
  BY OpponentIsOther DEF Order, Choice, ChoiceKind
<1>2. mine \in Seq(Choice) /\ theirs \in Seq(Choice)
  BY <1>1
<1>3. KindsOf(mine) \subseteq {"order"} /\ KindsOf(theirs) \subseteq {"order"}
  BY DEF KindsOf, Order
<1>4. KindsOf(mine \o theirs) \subseteq {"order"}
  BY <1>2, <1>3, KindsOfConcat
<1> QED
  BY <1>4 DEF OrderChoices

LEMMA LandEffect ==
  ASSUME NEW r \in Round, NEW ap \in Player
  PROVE  /\ Land(r, ap).stack = r.stack /\ Land(r, ap).choices = r.choices
         /\ Land(r, ap).passes = 0 /\ Land(r, ap).held = r.held
BY DEF Land, RaiseTarget, Grant, Round

LEMMA HeadChooserEffect ==
  ASSUME NEW r \in Round
  PROVE  /\ HeadChooser(r).stack = r.stack /\ HeadChooser(r).choices = r.choices
         /\ HeadChooser(r).passes = r.passes /\ HeadChooser(r).held = r.held
         /\ HeadChooser(r).target = r.target
BY DEF HeadChooser, Round

LEMMA Grows ==
  ASSUME NEW a \in Nat, NEW m \in Nat, NEW n \in Nat, m > 0 \/ n > 0
  PROVE  a + m + n > a
OBVIOUS

(* The stack with the slices of a batch on it is higher.                   *)
LEMMA StackedHigher ==
  ASSUME NEW s \in Seq(Item), NEW b \in Batch, NEW p \in Player,
         ~(\A q \in Player : b.of[q] = <<>>)
  PROVE  Len(s \o b.of[p] \o b.of[Opponent(p)]) > Len(s)
<1>1. (\A q \in Player : b.of[q] \in Seq(Item)) /\ Opponent(p) \in Player /\ Opponent(p) # p
  BY OpponentIsOther, TriggersAreItems DEF Batch
<1>2. \A q \in Player : q = p \/ q = Opponent(p)
  BY <1>1, PlayerAssumption
<1>3. b.of[p] # <<>> \/ b.of[Opponent(p)] # <<>>
  BY <1>2
<1>4. b.of[p] \in Seq(Item) /\ b.of[Opponent(p)] \in Seq(Item)
  BY <1>1
<1>5. Len(b.of[p]) > 0 \/ Len(b.of[Opponent(p)]) > 0
  BY <1>3, <1>4, LenProperties, EmptySeq
<1>6. /\ s \o b.of[p] \in Seq(Item) /\ Len(s \o b.of[p]) = Len(s) + Len(b.of[p])
      /\ Len(s) \in Nat /\ Len(b.of[p]) \in Nat /\ Len(b.of[Opponent(p)]) \in Nat
  BY <1>4, ConcatProperties, LenProperties
<1>7. Len(s \o b.of[p] \o b.of[Opponent(p)]) = Len(s) + Len(b.of[p]) + Len(b.of[Opponent(p)])
  BY <1>4, <1>6, ConcatProperties
<1>8. Len(s) + Len(b.of[p]) + Len(b.of[Opponent(p)]) > Len(s)
  BY <1>5, <1>6, Grows
<1> QED
  BY <1>7, <1>8

(* Placing triggers changes nothing, or starts the passes over and leaves  *)
(* a higher stack or a held batch; it asks for nothing but orders.         *)
LEMMA PlacedEffect ==
  ASSUME NEW source \in Source, NEW r \in Round, NEW ap \in Player, NEW spared,
         NEW s \in Placed(source, r, ap, spared)
  PROVE  /\ s = r \/ (s.passes = 0 /\ (s.held \/ Len(s.stack) > Len(r.stack)))
         /\ KindsOf(s.choices) \subseteq KindsOf(r.choices) \cup {"order"}
<1>1. PICK f \in Firing(source, r, ap, spared) :
        s = PlaceTriggersOnStack(r, BatchOf(f), f.ordered, ap)
  BY DEF Placed
<1> DEFINE b == BatchOf(f)
           placed == [r EXCEPT !.stack = @ \o b.of[ap] \o b.of[Opponent(ap)]]
           parked == [r EXCEPT !.batch = b, !.held = TRUE, !.passes = 0,
                               !.choices = @ \o OrderChoices(f.ordered, ap)]
<1>2. b \in Batch
  BY FiringType
<1> HIDE DEF b
<1>3. r.stack \in Seq(Item) /\ r.choices \in Seq(Choice)
  BY DEF Round
<1>4. CASE \A p \in Player : b.of[p] = <<>>
  <2>1. s = PlaceTriggersOnStack(r, b, f.ordered, ap)
    BY <1>1 DEF b
  <2>2. PlaceTriggersOnStack(r, b, f.ordered, ap) = r
    BY <1>4 DEF PlaceTriggersOnStack
  <2> QED
    BY <2>1, <2>2
<1>5. CASE ~(\A p \in Player : b.of[p] = <<>>) /\ f.ordered = {}
  <2>1. s = Land(placed, ap)
    BY <1>1, <1>5 DEF PlaceTriggersOnStack, b
  <2>2. r.stack \o b.of[ap] \o b.of[Opponent(ap)] \in Seq(Item)
    BY <1>2, <1>3, OpponentIsOther, StackedType
  <2>3. placed \in Round
    BY <2>2 DEF Round
  <2>4. Len(placed.stack) > Len(r.stack)
    BY <1>2, <1>3, <1>5, StackedHigher DEF Round
  <2>5. placed.choices = r.choices
    BY DEF Round
  <2> QED
    BY <2>1, <2>3, <2>4, <2>5, LandEffect
<1>6. CASE ~(\A p \in Player : b.of[p] = <<>>) /\ f.ordered # {}
  <2>1. s = HeadChooser(parked)
    BY <1>1, <1>6 DEF PlaceTriggersOnStack, b
  <2>2. OrderChoices(f.ordered, ap) \in Seq(Choice)
    BY OrderChoicesType
  <2>3. r.choices \o OrderChoices(f.ordered, ap) \in Seq(Choice)
    BY <1>3, <2>2, ConcatProperties
  <2>4. parked \in Round
    BY <1>2, <2>3 DEF Round
  <2>5. /\ parked.choices = r.choices \o OrderChoices(f.ordered, ap)
        /\ parked.passes = 0 /\ parked.held
    BY DEF Round
  <2>6. KindsOf(parked.choices) \subseteq KindsOf(r.choices) \cup {"order"}
    BY <1>3, <2>2, <2>5, KindsOfConcat, OrderChoicesKinds
  <2> QED
    BY <2>1, <2>4, <2>5, <2>6, HeadChooserEffect
<1> QED
  BY <1>4, <1>5, <1>6

(* The same of the delayed triggers of a step.                             *)
LEMMA FireDelayedEffect ==
  ASSUME NEW r \in Round, NEW b \in Batch, NEW ap \in Player
  PROVE  /\ \/ FireDelayed(r, b, ap) = r
            \/ Len(FireDelayed(r, b, ap).stack) > Len(r.stack)
         /\ FireDelayed(r, b, ap).choices = r.choices
         /\ FireDelayed(r, b, ap).held = r.held
<1> DEFINE fired == [r EXCEPT !.stack = @ \o b.of[b.lead] \o b.of[Opponent(b.lead)]]
<1>1. CASE \A p \in Player : b.of[p] = <<>>
  BY <1>1 DEF FireDelayed
<1>2. CASE ~(\A p \in Player : b.of[p] = <<>>)
  <2>1. b.lead \in Player /\ r.stack \in Seq(Item)
    BY DEF Batch, Round
  <2>2. Len(fired.stack) > Len(r.stack)
    BY <1>2, <2>1, StackedHigher DEF Round
  <2>3. FireDelayed(r, b, ap) = Grant(fired, ap)
    BY <1>2 DEF FireDelayed
  <2>4. fired.choices = r.choices /\ fired.held = r.held
    BY DEF Round
  <2>5. /\ Grant(fired, ap).stack = fired.stack /\ Grant(fired, ap).choices = fired.choices
        /\ Grant(fired, ap).held = fired.held
    BY DEF Grant, Round
  <2> QED
    BY <2>2, <2>3, <2>4, <2>5
<1> QED
  BY <1>1, <1>2

-----------------------------------------------------------------------------
(* The control of a mutation.                                              *)
LEMMA GotoType ==
  ASSUME TypeOK, NEW pc \in Engine, Goto(pc)
  PROVE  ctl' \in Control
BY DEF TypeOK, Goto, Control

LEMMA HaltType ==
  ASSUME TypeOK, Halt
  PROVE  ctl' \in Control
BY DEF TypeOK, Halt, Control, Engine, AtRest

LEMMA BeginType ==
  ASSUME TypeOK, NEW pc \in Engine \cup {"rest"},
         NEW caller \in {"pass", "drain", "answer"}, NEW sweeps \in BOOLEAN,
         Begin(pc, caller, sweeps)
  PROVE  ctl' \in Control
BY DEF TypeOK, Begin, Control, AtRest

(* What lands on the round, what leaves combat, what a check leaves.       *)
LEMMA PlaceType ==
  ASSUME TypeOK, NEW source \in Source, NEW r \in Round
  PROVE  Place(source, r) \subseteq Round
BY PlacedType DEF TypeOK, Place

LEMMA SurvivorsType ==
  ASSUME NEW c \in Combat
  PROVE  Survivors(c) \subseteq Combat
BY DEF Survivors, Combat

LEMMA AskLegendType ==
  ASSUME NEW r \in Round, NEW p \in Player
  PROVE  AskLegend(r, p) \in Round
<1>1. [kind |-> "legend", by |-> p, id |-> 0] \in Choice
  BY DEF Choice, ChoiceKind
<1>2. << [kind |-> "legend", by |-> p, id |-> 0] >> \in Seq(Choice)
  BY <1>1
<1> QED
  BY <1>2 DEF AskLegend, Round

LEMMA CheckType ==
  ASSUME TypeOK, NEW r \in Round
  PROVE  CheckStateBasedActions(r) \subseteq Outcome
<1> SUFFICES ASSUME NEW s \in CheckStateBasedActions(r)
             PROVE  s \in Outcome
  OBVIOUS
<1>1. combat \in Combat /\ "clean" \in Boards /\ "due" \in Boards /\ "legend" \in Boards
  BY DEF TypeOK, Boards
<1>2. CASE board = "clean"
  <2>1. s = Found(r, "clean", combat)
    BY <1>2 DEF CheckStateBasedActions
  <2> QED
    BY <1>1, <2>1 DEF Found, Outcome
<1>3. CASE board = "legend" /\ r.choices = <<>>
  <2>1. s \in { Found(AskLegend(r, p), "due", combat) : p \in Player }
    BY <1>3 DEF CheckStateBasedActions
  <2>2. PICK p \in Player : s = Found(AskLegend(r, p), "due", combat)
    BY <2>1
  <2> QED
    BY <1>1, <2>2, AskLegendType DEF Found, Outcome
<1>4. CASE board # "clean" /\ ~(board = "legend" /\ r.choices = <<>>)
  <2>1. \/ s \in { Found(x, Left, c) : x \in Place("death", r), c \in Survivors(combat) }
        \/ s \in { Lost(r) : e \in Effects \cap {"lose"} }
    BY <1>4 DEF CheckStateBasedActions
  <2>2. CASE s \in { Found(x, Left, c) : x \in Place("death", r), c \in Survivors(combat) }
    <3>1. PICK x \in Place("death", r), c \in Survivors(combat) : s = Found(x, Left, c)
      BY <2>2
    <3>2. x \in Round /\ c \in Combat /\ Left \in Boards
      BY <1>1, PlaceType, SurvivorsType DEF Source, Left
    <3> QED
      BY <3>1, <3>2 DEF Found, Outcome
  <2>3. CASE s \in { Lost(r) : e \in Effects \cap {"lose"} }
    <3>1. s = Lost(r)
      BY <2>3
    <3> QED
      BY <1>1, <3>1 DEF Lost, Outcome
  <2> QED
    BY <2>1, <2>2, <2>3
<1> QED
  BY <1>2, <1>3, <1>4

-----------------------------------------------------------------------------
(* The drain and the pass.  A baseline is a multiset of ids.               *)
LEMMA TimesType ==
  ASSUME NEW r \in Round, NEW n \in Nat, NEW i
  PROVE  Times(r, n, i) \in Nat
<1>1. IsFiniteSet(1..n)
  BY FS_Interval
<1> QED
  BY <1>1, FS_Subset, FS_CardinalityType DEF Times

LEMMA BaselineType ==
  ASSUME NEW r \in Round
  PROVE  /\ NoIds \in [ObjectId -> Nat] /\ Snapshot(r) \in [ObjectId -> Nat]
         /\ \A ids \in [ObjectId -> Nat] : Pruned(r, ids) \in [ObjectId -> Nat]
<1>1. Len(r.stack) \in Nat
  BY LenProperties DEF Round
<1>2. \A i : Times(r, Len(r.stack), i) \in Nat
  BY <1>1, TimesType
<1> QED
  BY <1>2 DEF NoIds, Snapshot, Pruned

(* An object that leaves the stack is none of those at place 0.            *)
LEMMA LeavesType ==
  ASSUME NEW i \in Intent, NEW k \in Nat \ {0}
  PROVE  Leaves(i, k) \in Intent
<1> DEFINE seen == [p \in Player |-> IF i.seen[p] >= k THEN i.seen[p] - 1 ELSE i.seen[p]]
<1>1. \A p \in Player : i.seen[p] \in Nat
  BY DEF Intent
<1>2. seen \in [Player -> Nat]
  BY <1>1
<1>3. Leaves(i, k) = [i EXCEPT !.seen = seen]
  BY DEF Leaves
<1> HIDE DEF seen
<1> QED
  BY <1>2, <1>3 DEF Intent

LEMMA PromotedType ==
  ASSUME TypeOK
  PROVE  Promoted \in Intent
<1> DEFINE p == round.holder
           base == [ q \in Player |->
             Pruned(round, IF q = p /\ p \in intent.waiting THEN intent.wbase[p] ELSE intent.base[q]) ]
           wbase == [ q \in Player |-> IF q = p THEN NoIds ELSE Pruned(round, intent.wbase[q]) ]
           armed == IF p \in intent.waiting THEN intent.armed \cup {p} ELSE intent.armed
<1>1. round \in Round /\ intent \in Intent /\ p \in Player
  BY DEF TypeOK, Round
<1>2. intent.base \in [Player -> [ObjectId -> Nat]] /\ intent.wbase \in [Player -> [ObjectId -> Nat]]
  BY <1>1 DEF Intent
<1>3. \A q \in Player : intent.base[q] \in [ObjectId -> Nat] /\ intent.wbase[q] \in [ObjectId -> Nat]
  BY <1>2
<1>4. base \in [Player -> [ObjectId -> Nat]] /\ wbase \in [Player -> [ObjectId -> Nat]]
  BY <1>1, <1>3, BaselineType
<1>5. armed \in SUBSET Player
  BY <1>1 DEF Intent
<1>6. Promoted = [intent EXCEPT !.auto = @ \cup ({p} \cap intent.queued), !.queued = @ \ {p},
                    !.armed = armed, !.waiting = @ \ {p}, !.base = base, !.wbase = wbase]
  BY DEF Promoted
<1> HIDE DEF base, wbase, armed, p
<1> QED
  BY <1>1, <1>4, <1>5, <1>6 DEF Intent

LEMMA DisarmedType ==
  ASSUME TypeOK, NEW i \in Intent, NEW p \in Player
  PROVE  Disarmed(i, p) \in Intent
<1>1. NoIds \in [ObjectId -> Nat] /\ 0 \in Nat
  BY BaselineType DEF TypeOK
<1>2. i.base \in [Player -> [ObjectId -> Nat]] /\ i.seen \in [Player -> Nat]
  BY DEF Intent
<1>3. /\ [i.base EXCEPT ![p] = NoIds] \in [Player -> [ObjectId -> Nat]]
      /\ [i.seen EXCEPT ![p] = 0] \in [Player -> Nat]
  BY <1>1, <1>2
<1>4. Disarmed(i, p) = [i EXCEPT !.armed = @ \ {p}, !.base = [i.base EXCEPT ![p] = NoIds],
                                 !.seen = [i.seen EXCEPT ![p] = 0]]
  BY DEF Disarmed
<1> QED
  BY <1>3, <1>4 DEF Intent

LEMMA CountPassType ==
  ASSUME TypeOK, NEW r \in Round, CountPass(r)
  PROVE  round' \in Round /\ ctl' \in Control
<1>1. Opponent(r.holder) \in Player /\ r.passes + 1 \in Nat
  BY OpponentIsOther DEF Round
<1>2. CASE r.passes + 1 >= 2
  <2>1. round' = [r EXCEPT !.passes = r.passes + 1]
    BY <1>2 DEF CountPass
  <2>2. \E pc \in Engine : Goto(pc)
    BY <1>2 DEF CountPass, Engine
  <2> QED
    BY <1>1, <2>1, <2>2, GotoType DEF Round
<1>3. CASE ~(r.passes + 1 >= 2)
  <2>1. round' = [r EXCEPT !.passes = r.passes + 1, !.holder = Opponent(@)]
    BY <1>3 DEF CountPass
  <2>2. Goto("drain")
    BY <1>3 DEF CountPass
  <2> QED
    BY <1>1, <2>1, <2>2, GotoType DEF Round, Engine
<1> QED
  BY <1>2, <1>3

LEMMA DrainType ==
  ASSUME TypeOK, DrainAutoPasses
  PROVE  TypeOK'
<1>1. Promoted \in Intent /\ round.holder \in Player
  BY PromotedType DEF TypeOK, Round
<1>2. Disarmed(Promoted, round.holder) \in Intent
  BY <1>1, DisarmedType
<1>3. [Disarmed(Promoted, round.holder) EXCEPT !.once = @ \ {round.holder}] \in Intent
  BY <1>2 DEF Intent
<1>4. intent' \in Intent
  BY <1>1, <1>2, <1>3 DEF DrainAutoPasses
<1>5. Halt \/ StartPass
  BY DEF DrainAutoPasses
<1>6. ctl' \in Control
  BY <1>5, HaltType DEF StartPass, TypeOK, Control, Engine
<1> QED
  BY <1>4, <1>6 DEF DrainAutoPasses, TypeOK

LEMMA CheckBeforePassType ==
  ASSUME TypeOK, CheckBeforePass
  PROVE  TypeOK'
<1>1. PICK s \in CheckStateBasedActions(round) :
        /\ After(s)
        /\ IF s.over \/ OwesInput(s.round) THEN Halt /\ UNCHANGED intent
           ELSE /\ intent' = [intent EXCEPT !.once = @ \ {round.holder}]
                /\ IF s.round.holder = round.holder /\ s.round.passes = round.passes
                   THEN Goto("take") ELSE Goto("drain")
        /\ passed' = IF s.round.stack = round.stack THEN passed ELSE {}
  BY DEF CheckBeforePass
<1>2. s \in Outcome
  BY CheckType DEF TypeOK
<1>3. round' \in Round /\ board' \in Boards /\ combat' \in Combat /\ over' \in BOOLEAN
  BY <1>1, <1>2 DEF After, Outcome
<1>4. intent' = intent \/ intent' = [intent EXCEPT !.once = @ \ {round.holder}]
  BY <1>1
<1>5. intent' \in Intent
  BY <1>4 DEF TypeOK, Intent
<1>6. Halt \/ Goto("take") \/ Goto("drain")
  BY <1>1
<1>7. ctl' \in Control
  BY <1>6, HaltType, GotoType DEF Engine
<1>8. passed' \in SUBSET Player
  BY <1>1 DEF TypeOK
<1> QED
  BY <1>3, <1>5, <1>7, <1>8 DEF CheckBeforePass, TypeOK

(* A pass that is counted: the holder joins those who passed.              *)
LEMMA PassedByType ==
  ASSUME TypeOK, NEW r
  PROVE  PassedBy(round.holder, r) \in SUBSET Player
BY DEF TypeOK, PassedBy, Round

LEMMA TakeType ==
  ASSUME TypeOK,
         TakeDeclaring \/ TakeHaltsForBlocks \/ TakeNoBlocks \/ TakeDamaging \/ TakePass
  PROVE  TypeOK'
<1>1. round \in Round /\ combat \in Combat /\ round.holder \in Player
  BY DEF TypeOK, Round
<1>2. CASE TakeDeclaring
  <2>1. PICK r \in IF combat.attacking THEN Place("attack", round) ELSE {round} :
          CountPass(r) /\ passed' = PassedBy(round.holder, r)
    BY <1>2 DEF TakeDeclaring
  <2>2. r \in Round
    BY <1>1, PlaceType DEF Source
  <2>3. round' \in Round /\ ctl' \in Control /\ passed' \in SUBSET Player
    BY <2>1, <2>2, CountPassType, PassedByType
  <2>4. combat' \in Combat
    BY <1>1, <1>2 DEF TakeDeclaring, Combat
  <2> QED
    BY <1>2, <2>3, <2>4 DEF TakeDeclaring, TypeOK
<1>3. CASE TakeHaltsForBlocks
  <2>1. Opponent(active) \in Player
    BY OpponentIsOther DEF TypeOK
  <2>2. round' \in Round
    BY <1>1, <1>3, <2>1 DEF TakeHaltsForBlocks, Round
  <2>3. ctl' \in Control
    BY <1>3, HaltType DEF TakeHaltsForBlocks
  <2> QED
    BY <1>3, <2>2, <2>3 DEF TakeHaltsForBlocks, TypeOK
<1>4. CASE TakeNoBlocks
  <2>1. PICK r \in IF combat.attacking THEN Place("block", round) ELSE {round} :
          CountPass(r) /\ passed' = PassedBy(round.holder, r)
    BY <1>4 DEF TakeNoBlocks
  <2>2. r \in Round
    BY <1>1, PlaceType DEF Source
  <2>3. round' \in Round /\ ctl' \in Control /\ passed' \in SUBSET Player
    BY <2>1, <2>2, CountPassType, PassedByType
  <2>4. combat' \in Combat
    BY <1>1, <1>4 DEF TakeNoBlocks, Combat
  <2> QED
    BY <1>4, <2>3, <2>4 DEF TakeNoBlocks, TypeOK
<1>5. CASE TakeDamaging
  <2>1. PICK r \in Place("damage", round) :
          CountPass(r) /\ passed' = PassedBy(round.holder, r)
    BY <1>5 DEF TakeDamaging
  <2>2. r \in Round
    BY <1>1, PlaceType DEF Source
  <2>3. round' \in Round /\ ctl' \in Control /\ passed' \in SUBSET Player
    BY <2>1, <2>2, CountPassType, PassedByType
  <2>4. [combat EXCEPT !.open = FALSE, !.owing = {}] \in Combat
    BY <1>1 DEF Combat
  <2>5. combat' \in Combat
    BY <1>5, <2>4, SurvivorsType DEF TakeDamaging
  <2>6. board' \in Boards
    BY <1>5 DEF TakeDamaging, Boards
  <2> QED
    BY <1>5, <2>3, <2>5, <2>6 DEF TakeDamaging, TypeOK
<1>6. CASE TakePass
  <2>1. round' \in Round /\ ctl' \in Control
    BY <1>1, <1>6, CountPassType DEF TakePass
  <2>2. passed' \in SUBSET Player
    BY <1>1, <1>6 DEF TakePass, TypeOK
  <2> QED
    BY <1>6, <2>1, <2>2 DEF TakePass, TypeOK
<1> QED
  BY <1>2, <1>3, <1>4, <1>5, <1>6

-----------------------------------------------------------------------------
(* The resolution of the top of the stack.                                 *)
LEMMA ThenHandOnType ==
  ASSUME TypeOK, NEW r \in Round, ThenHandOn(r)
  PROVE  round' \in Round /\ ctl' \in Control
<1>1. round' \in Round
  BY HandPriorityOnType DEF TypeOK, ThenHandOn
<1>2. Goto("drain") \/ Halt \/ Goto("settle")
  BY DEF ThenHandOn
<1>3. ctl' \in Control
  BY <1>2, GotoType, HaltType DEF Engine
<1> QED
  BY <1>1, <1>3

LEMMA PoppedType ==
  ASSUME NEW r \in Round
  PROVE  Popped(r) \in Round
<1>1. r.stack \in Seq(Item)
  BY DEF Round
<1>2. Len(r.stack) - 1 \in Int /\ 1 \in Int
  BY <1>1, LenProperties
<1>3. \A i \in 1..(Len(r.stack) - 1) : r.stack[i] \in Item
  BY <1>1, ElementOfSeq, LenProperties
<1>4. SubSeq(r.stack, 1, Len(r.stack) - 1) \in Seq(Item)
  BY <1>2, <1>3, SubSeqProperties
<1> QED
  BY <1>4 DEF Popped, Round

LEMMA TopType ==
  ASSUME NEW r \in Round, r.stack # <<>>
  PROVE  Top(r) \in Item
<1>1. r.stack \in Seq(Item) /\ Len(r.stack) \in Nat /\ Len(r.stack) # 0
  BY LenProperties, EmptySeq DEF Round
<1>2. Len(r.stack) \in 1..Len(r.stack)
  BY <1>1
<1> QED
  BY <1>1, <1>2, ElementOfSeq DEF Top

(* The round behind the choices of a suspended resolution.                 *)
LEMMA AskedType ==
  ASSUME TypeOK, Resolving, NEW asked \in Asks
  PROVE  [round EXCEPT !.told = 0, !.choices = [ k \in DOMAIN asked |->
           [kind |-> "resolution", by |-> Seat(active, asked[k]), id |-> Top(round).id] ]]
         \in Round
<1>2. asked \in Seq(Side)
  BY AsksAssumption
<1>3. Top(round).id \in ObjectId
  BY TopType, ItemFields DEF Resolving, TypeOK
<1>4. \A k \in 1..Len(asked) :
        [kind |-> "resolution", by |-> Seat(active, asked[k]), id |-> Top(round).id] \in Choice
  BY <1>3, SeatIsPlayer DEF TypeOK, Choice, ChoiceKind
<1>5. DOMAIN asked = 1..Len(asked) /\ Len(asked) \in Nat
  BY <1>2, LenProperties
<1>6. [ k \in DOMAIN asked |->
        [kind |-> "resolution", by |-> Seat(active, asked[k]), id |-> Top(round).id] ] \in Seq(Choice)
  BY <1>4, <1>5, IsASeq
<1> QED
  BY <1>6 DEF TypeOK, Round

LEMMA SuspendsType ==
  ASSUME TypeOK, ResolutionSuspends
  PROVE  TypeOK'
<1>1. PICK asked \in Asks :
        ThenHandOn([round EXCEPT !.told = 0, !.choices = [ k \in DOMAIN asked |->
          [kind |-> "resolution", by |-> Seat(active, asked[k]), id |-> Top(round).id] ]])
  BY DEF ResolutionSuspends
<1>2. round' \in Round /\ ctl' \in Control
  BY <1>1, AskedType, ThenHandOnType DEF ResolutionSuspends
<1>3. board' \in Boards
  BY DEF ResolutionSuspends, TypeOK, Boards
<1> QED
  BY <1>2, <1>3 DEF ResolutionSuspends, TypeOK

(* What a resolution grants keeps the record of what is owed later.        *)
LEMMA GrantsType ==
  ASSUME TypeOK, NEW p \in Player, NEW s \in Phase
  PROVE  /\ [owed EXCEPT !.turns = Append(@, p)] \in Owed
         /\ [owed EXCEPT !.skips[p] = @ + 1] \in Owed
         /\ [owed EXCEPT !.draws = @ \cup {p}] \in Owed
         /\ [owed EXCEPT !.combats = @ + 1] \in Owed
         /\ [owed EXCEPT !.delayed = @ \cup {s}] \in Owed
<1>1. owed.turns \in Seq(Player) /\ owed.skips \in [Player -> Nat] /\ owed.combats \in Nat
  BY DEF TypeOK, Owed
<1>2. Append(owed.turns, p) \in Seq(Player)
  BY <1>1, AppendProperties
<1>3. [owed.skips EXCEPT ![p] = @ + 1] \in [Player -> Nat]
  BY <1>1
<1>4. owed.combats + 1 \in Nat
  BY <1>1
<1> QED
  BY <1>2, <1>3, <1>4 DEF TypeOK, Owed

LEMMA TopLeavesType ==
  ASSUME TypeOK, Resolving
  PROVE  Leaves(intent, Len(round.stack)) \in Intent
<1>1. Len(round.stack) \in Nat \ {0}
  BY LenProperties, EmptySeq DEF Resolving, TypeOK, Round
<1> QED
  BY <1>1, LeavesType DEF TypeOK

LEMMA ResolvedType ==
  ASSUME TypeOK, Resolving, NEW r \in Round, NEW w \in Owed, NEW c \in Combat, NEW b \in Boards,
         Resolved(r, w, c, b)
  PROVE  TypeOK'
<1>1. PICK s \in Place("resolve", r) : ThenHandOn(s)
  BY DEF Resolved
<1>2. s \in Round
  BY PlaceType DEF Source
<1>3. round' \in Round /\ ctl' \in Control
  BY <1>1, <1>2, ThenHandOnType
<1> QED
  BY <1>3, TopLeavesType DEF Resolved, TypeOK

LEMMA ResolveType ==
  ASSUME TypeOK, ResolveTopOfStack
  PROVE  TypeOK'
<1> DEFINE r == Popped(round)
<1>1. r \in Round /\ owed \in Owed /\ combat \in Combat /\ board \in Boards /\ Resolving
  BY PoppedType DEF TypeOK, ResolveTopOfStack
<1>2. CASE \E b \in Boards : Resolved(r, owed, combat, b)
  BY <1>1, <1>2, ResolvedType
<1>3. CASE \E c \in Survivors(combat) : Resolved(r, owed, c, board)
  BY <1>1, <1>3, SurvivorsType, ResolvedType
<1>4. CASE \E s \in Phase : Resolved(r, [owed EXCEPT !.delayed = @ \cup {s}], combat, board)
  BY <1>1, <1>4, PlayerAssumption, GrantsType, ResolvedType
<1>5. CASE \E p \in Player :
             \/ Resolved(r, [owed EXCEPT !.turns = Append(@, p)], combat, board)
             \/ Resolved(r, [owed EXCEPT !.skips[p] = @ + 1], combat, board)
             \/ Resolved(r, [owed EXCEPT !.draws = @ \cup {p}], combat, board)
  <2>1. phase \in Phase
    BY DEF TypeOK
  <2> QED
    BY <1>1, <1>5, <2>1, GrantsType, ResolvedType
<1>6. CASE Resolved(r, [owed EXCEPT !.combats = @ + 1], combat, board)
  <2>1. active \in Player /\ phase \in Phase
    BY DEF TypeOK
  <2> QED
    BY <1>1, <1>6, <2>1, GrantsType, ResolvedType
<1>7. DelayedSteps \subseteq Phase /\ {"due", "legend"} \subseteq Boards
  BY InputAssumption DEF Boards
<1>8. \/ \E b \in Boards : Resolved(r, owed, combat, b)
      \/ \E c \in Survivors(combat) : Resolved(r, owed, c, board)
      \/ \E s \in Phase : Resolved(r, [owed EXCEPT !.delayed = @ \cup {s}], combat, board)
      \/ \E p \in Player :
           \/ Resolved(r, [owed EXCEPT !.turns = Append(@, p)], combat, board)
           \/ Resolved(r, [owed EXCEPT !.skips[p] = @ + 1], combat, board)
           \/ Resolved(r, [owed EXCEPT !.draws = @ \cup {p}], combat, board)
      \/ Resolved(r, [owed EXCEPT !.combats = @ + 1], combat, board)
  BY <1>1, <1>7 DEF ResolveTopOfStack
<1> QED
  BY <1>2, <1>3, <1>4, <1>5, <1>6, <1>8

(* An instance id handed out is one of the game's.                         *)
LEMMA FreshIdType ==
  ASSUME NEW used, NEW s \in FreshIds(Id \ used, 1)
  PROVE  s[1] \in Id
BY DEF FreshIds

(* The round with a copy on the stack and its new targets on offer.        *)
LEMMA OfferType ==
  ASSUME TypeOK, Resolving, NEW s \in FreshIds(Id \ (UsedIds(round) \cup Spared), 1)
  PROVE  [Popped(round) EXCEPT
            !.stack = Append(@, [id |-> s[1], by |-> Top(round).by, needs |-> FALSE]),
            !.target = { [kind |-> "retarget", by |-> Top(round).by, id |-> s[1]] }]
         \in Round
<1> DEFINE item == [id |-> s[1], by |-> Top(round).by, needs |-> FALSE]
           target == { [kind |-> "retarget", by |-> Top(round).by, id |-> s[1]] }
<1>2. s[1] \in Id /\ Top(round).by \in Player
  BY FreshIdType, TopType, ItemFields DEF Resolving, TypeOK
<1>3. item \in Item /\ target \in SUBSET Target
  BY <1>2 DEF Item, Trigger, Target
<1>4. Popped(round) \in Round /\ Popped(round).stack \in Seq(Item)
  BY PoppedType DEF TypeOK, Round
<1> HIDE DEF item, target
<1>5. Append(Popped(round).stack, item) \in Seq(Item)
  BY <1>3, <1>4, AppendProperties
<1>6. [Popped(round) EXCEPT !.stack = Append(@, item), !.target = target] \in Round
  BY <1>3, <1>4, <1>5 DEF Round
<1> QED
  BY <1>6 DEF item, target

LEMMA RetargetOfferType ==
  ASSUME TypeOK, ResolveWithRetarget
  PROVE  TypeOK'
<1>1. PICK s \in FreshIds(Id \ (UsedIds(round) \cup Spared), 1) :
        Resolved([Popped(round) EXCEPT
                    !.stack = Append(@, [id |-> s[1], by |-> Top(round).by, needs |-> FALSE]),
                    !.target = { [kind |-> "retarget", by |-> Top(round).by, id |-> s[1]] }],
                 owed, combat, board)
  BY DEF ResolveWithRetarget
<1> QED
  BY <1>1, OfferType, ResolvedType DEF ResolveWithRetarget, TypeOK

LEMMA AfterType ==
  ASSUME TypeOK, NEW s \in Outcome, After(s)
  PROVE  round' \in Round /\ board' \in Boards /\ combat' \in Combat /\ over' \in BOOLEAN
BY DEF After, Outcome

LEMMA SettleType ==
  ASSUME TypeOK, SettleResolution
  PROVE  TypeOK'
<1>1. PICK s \in CheckStateBasedActions(round) :
        After(s) /\ IF s.over THEN Halt ELSE Goto("drain")
  BY DEF SettleResolution
<1>2. s \in Outcome
  BY CheckType DEF TypeOK
<1>3. Halt \/ Goto("drain")
  BY <1>1
<1>4. ctl' \in Control
  BY <1>3, HaltType, GotoType DEF Engine
<1> QED
  BY <1>1, <1>2, <1>4, AfterType DEF SettleResolution, TypeOK

-----------------------------------------------------------------------------
(* The steps and the turns.                                                *)
LEMMA AdvancePhaseType ==
  ASSUME TypeOK, AdvancePhase
  PROVE  TypeOK'
<1>1. NoCombat \in Combat
  BY DEF NoCombat, Combat
<1>2. combat' \in Combat
  BY <1>1 DEF AdvancePhase, TypeOK
<1>3. phase' \in Phase
  BY DEF AdvancePhase, TypeOK, Phase, PHASE_ORDER
<1>4. Goto("turn") \/ Goto("enter")
  BY DEF AdvancePhase
<1>5. ctl' \in Control
  BY <1>4, GotoType DEF Engine
<1> DEFINE again == phase = "CLEANUP" /\ owed.cleanup
           extra == phase = "END_OF_COMBAT" /\ owed.combats > 0
<1>6. owed.cleanup \in BOOLEAN /\ owed.combats \in Nat /\ owed \in Owed
  BY DEF TypeOK, Owed
<1>7. (IF extra THEN owed.combats - 1 ELSE owed.combats) \in Nat
  BY <1>6
<1>8. (owed.cleanup /\ ~again) \in BOOLEAN
  OBVIOUS
<1>9. owed' = [owed EXCEPT !.cleanup = @ /\ ~again,
                           !.combats = IF extra THEN @ - 1 ELSE @]
  BY DEF AdvancePhase
<1> HIDE DEF again, extra
<1>10. owed' \in Owed
  BY <1>6, <1>7, <1>8, <1>9 DEF Owed
<1> QED
  BY <1>2, <1>3, <1>5, <1>10 DEF AdvancePhase, TypeOK

LEMMA TurnOverType ==
  ASSUME NEW i \in Intent
  PROVE  TurnOver(i) \in Intent
<1>1. NoIds \in [ObjectId -> Nat]
  BY DEF NoIds
<1>2. [p \in Player |-> NoIds] \in [Player -> [ObjectId -> Nat]]
  BY <1>1
<1>3. [p \in Player |-> IF p \in i.waiting THEN i.seen[p] ELSE 0] \in [Player -> Nat]
  BY DEF Intent
<1> QED
  BY <1>2, <1>3 DEF TurnOver, Intent

(* The record left once the next turn is taken from the extra turns.       *)
LEMMA TurnsLeftType ==
  ASSUME TypeOK
  PROVE  [owed EXCEPT !.turns = IF Len(owed.turns) > 0
            THEN SubSeq(@, 1, Len(owed.turns) - 1) ELSE @] \in Owed
<1>1. owed \in Owed /\ owed.turns \in Seq(Player)
  BY DEF TypeOK, Owed
<1>2. Len(owed.turns) - 1 \in Int /\ 1 \in Int
  BY <1>1, LenProperties
<1>3. \A i \in 1..(Len(owed.turns) - 1) : owed.turns[i] \in Player
  BY <1>1, ElementOfSeq, LenProperties
<1>4. SubSeq(owed.turns, 1, Len(owed.turns) - 1) \in Seq(Player)
  BY <1>2, <1>3, SubSeqProperties
<1> QED
  BY <1>1, <1>4 DEF Owed

(* Whose turn comes next is a seat.                                        *)
LEMMA NextPlayerType ==
  ASSUME TypeOK
  PROVE  (IF Len(owed.turns) > 0 THEN LatestTurn(owed.turns) ELSE Opponent(active)) \in Player
<1>1. owed.turns \in Seq(Player) /\ Len(owed.turns) \in Nat
  BY LenProperties DEF TypeOK, Owed
<1>2. Len(owed.turns) > 0 => LatestTurn(owed.turns) \in Player
  BY <1>1, ElementOfSeq DEF LatestTurn
<1>3. Opponent(active) \in Player
  BY OpponentIsOther DEF TypeOK
<1> QED
  BY <1>2, <1>3

LEMMA AdvanceTurnType ==
  ASSUME TypeOK, AdvanceTurn
  PROVE  TypeOK'
<1> DEFINE n == Len(owed.turns)
           next == IF n > 0 THEN LatestTurn(owed.turns) ELSE Opponent(active)
           left == [owed EXCEPT !.turns = IF n > 0 THEN SubSeq(@, 1, n - 1) ELSE @]
<1>1. next \in Player
  BY NextPlayerType
<1>2. left \in Owed
  BY TurnsLeftType
<1>3. left.skips = owed.skips /\ owed.skips \in [Player -> Nat]
  BY DEF TypeOK, Owed
<1>4. /\ active' = next
      /\ IF owed.skips[next] > 0
         THEN /\ owed' = [left EXCEPT !.skips[next] = @ - 1]
              /\ UNCHANGED << phase, intent, ctl >>
         ELSE /\ owed' = [left EXCEPT !.combats = 0]
              /\ phase' = "UNTAP" /\ Goto("enter")
              /\ intent' = TurnOver(intent)
  BY DEF AdvanceTurn
<1> HIDE DEF n, next, left
<1>5. CASE owed.skips[next] > 0
  <2>1. [left.skips EXCEPT ![next] = @ - 1] \in [Player -> Nat]
    BY <1>1, <1>3, <1>5
  <2>2. owed' \in Owed
    BY <1>2, <1>4, <1>5, <2>1 DEF Owed
  <2> QED
    BY <1>1, <1>4, <1>5, <2>2 DEF AdvanceTurn, TypeOK
<1>6. CASE ~(owed.skips[next] > 0)
  <2>1. owed' \in Owed
    BY <1>2, <1>4, <1>6 DEF Owed
  <2>2. ctl' \in Control
    BY <1>4, <1>6, GotoType DEF Engine
  <2>3. intent' \in Intent
    BY <1>4, <1>6, TurnOverType DEF TypeOK
  <2>4. phase' \in Phase
    BY <1>4, <1>6 DEF Phase, PHASE_ORDER
  <2> QED
    BY <1>1, <1>4, <2>1, <2>2, <2>3, <2>4 DEF AdvanceTurn, TypeOK
<1> QED
  BY <1>5, <1>6

-----------------------------------------------------------------------------
(* The entries of the steps.                                               *)
LEMMA FinishEntryType ==
  ASSUME TypeOK, NEW r \in Round, NEW skipped \in BOOLEAN, FinishEntry(r, skipped)
  PROVE  round' \in Round /\ ctl' \in Control /\ passed' \in SUBSET Player
<1>1. HeadChooser(r) \in Round /\ Grant(r, active) \in Round
  BY HeadChooserType, GrantType DEF TypeOK
<1>2. round' \in Round
  BY <1>1 DEF FinishEntry
<1>3. Halt \/ Goto("drain") \/ Goto("advance")
  BY DEF FinishEntry
<1>4. ctl' \in Control
  BY <1>3, HaltType, GotoType DEF Engine
<1>5. passed' \in SUBSET Player
  BY DEF FinishEntry, TypeOK
<1> QED
  BY <1>2, <1>4, <1>5

(* The draw step may ask a seat about its draw.                            *)
LEMMA AskDrawType ==
  ASSUME NEW r \in Round, NEW p \in Player
  PROVE  AskDraw(r, p) \in Round
<1>1. [kind |-> "draw", by |-> p, id |-> 0] \in Choice
  BY DEF Choice, ChoiceKind
<1>2. Append(r.choices, [kind |-> "draw", by |-> p, id |-> 0]) \in Seq(Choice)
  BY <1>1, AppendProperties DEF Round
<1> QED
  BY <1>2 DEF AskDraw, Round

LEMMA DrawnType ==
  ASSUME TypeOK, NEW r \in Round
  PROVE  Drawn(r) \subseteq Round
<1>1. Place("event", r) \subseteq Round
  BY PlaceType DEF Source
<1>2. \A p \in Player : AskDraw(r, p) \in Round
  BY AskDrawType
<1> QED
  BY <1>1, <1>2 DEF Drawn

LEMMA DelayedType ==
  ASSUME TypeOK, NEW r \in Round
  PROVE  Delayed(r) \subseteq Round
<1> SUFFICES ASSUME NEW s \in Delayed(r)
             PROVE  s \in Round
  OBVIOUS
<1>1. CASE phase \in owed.delayed
  <2>1. PICK b \in Firing("delayed", r, active, Spared) :
          s = FireDelayed(r, BatchOf(b), active)
    BY <1>1 DEF Delayed
  <2>2. BatchOf(b) \in Batch
    BY FiringType DEF TypeOK, Source
  <2> QED
    BY <2>1, <2>2, FireDelayedType DEF TypeOK
<1>2. CASE phase \notin owed.delayed
  BY <1>2 DEF Delayed
<1> QED
  BY <1>1, <1>2

LEMMA BegunType ==
  ASSUME TypeOK, NEW r \in Round
  PROVE  Begun(r) \subseteq Round
BY PlaceType DEF Begun, Source

LEMMA UndelayedType ==
  ASSUME TypeOK
  PROVE  Undelayed \in Owed
BY DEF TypeOK, Undelayed, Owed

LEMMA EnterUntapType ==
  ASSUME TypeOK, EnterUntap
  PROVE  TypeOK'
<1>1. FinishEntry(AskUntap, TRUE) \/ \E r \in Place("untap", round) : FinishEntry(r, TRUE)
  BY DEF EnterUntap
<1>2. [kind |-> "untap", by |-> active, id |-> 0] \in Choice
  BY DEF TypeOK, Choice, ChoiceKind
<1>3. << [kind |-> "untap", by |-> active, id |-> 0] >> \in Seq(Choice)
  BY <1>2
<1>4. AskUntap \in Round /\ Place("untap", round) \subseteq Round
  BY <1>3, PlaceType DEF TypeOK, AskUntap, Round, Source
<1>5. round' \in Round /\ ctl' \in Control /\ passed' \in SUBSET Player
  BY <1>1, <1>4, FinishEntryType
<1> QED
  BY <1>5 DEF EnterUntap, TypeOK

LEMMA EnterStepType ==
  ASSUME TypeOK, SkipDrawStep \/ EnterStep \/ EnterEndOfCombat
  PROVE  TypeOK'
<1>1. round \in Round
  BY DEF TypeOK
<1>2. CASE SkipDrawStep
  <2>1. round' \in Round /\ ctl' \in Control /\ passed' \in SUBSET Player
    BY <1>1, <1>2, FinishEntryType DEF SkipDrawStep
  <2>2. owed' \in Owed
    BY <1>2 DEF SkipDrawStep, TypeOK, Owed
  <2> QED
    BY <1>2, <2>1, <2>2 DEF SkipDrawStep, TypeOK
<1>3. CASE EnterStep
  <2>1. PICK r1 \in IF phase = "DRAW" THEN Drawn(round)
                    ELSE IF phase = "PRECOMBAT_MAIN" THEN Place("event", round) ELSE {round} :
          \E r2 \in Delayed(r1) : \E r3 \in Begun(r2) : FinishEntry(r3, FALSE)
    BY <1>3 DEF EnterStep
  <2>2. r1 \in Round
    BY <1>1, DrawnType, PlaceType DEF Source
  <2>3. PICK r2 \in Delayed(r1) : \E r3 \in Begun(r2) : FinishEntry(r3, FALSE)
    BY <2>1
  <2>4. r2 \in Round
    BY <2>2, DelayedType
  <2>5. round' \in Round /\ ctl' \in Control /\ passed' \in SUBSET Player
    BY <2>3, <2>4, BegunType, FinishEntryType
  <2> QED
    BY <1>3, <2>5, UndelayedType DEF EnterStep, TypeOK
<1>4. CASE EnterEndOfCombat
  <2>1. PICK r1 \in Delayed(round) : \E r2 \in Begun(r1) : FinishEntry(r2, ~combat.attacking)
    BY <1>4 DEF EnterEndOfCombat
  <2>2. r1 \in Round
    BY <1>1, DelayedType
  <2>3. PICK r2 \in Begun(r1) : FinishEntry(r2, ~combat.attacking)
    BY <2>1
  <2>4. r2 \in Round /\ (~combat.attacking) \in BOOLEAN
    BY <2>2, BegunType
  <2>5. round' \in Round /\ ctl' \in Control /\ passed' \in SUBSET Player
    BY <2>3, <2>4, FinishEntryType
  <2> QED
    BY <1>4, <2>5, UndelayedType DEF EnterEndOfCombat, TypeOK
<1> QED
  BY <1>2, <1>3, <1>4

LEMMA EnterDeclareAttackersType ==
  ASSUME TypeOK, EnterDeclareAttackers
  PROVE  TypeOK'
<1>1. PICK tax \in AttackTaxes : combat' = [NoCombat EXCEPT !.tax = tax]
  BY DEF EnterDeclareAttackers
<1>2. tax \in SUBSET Tax
  BY InputAssumption
<1>3. combat' \in Combat
  BY <1>1, <1>2 DEF NoCombat, Combat
<1>4. PICK r \in Begun(round) : FinishEntry(r, FALSE)
  BY DEF EnterDeclareAttackers
<1>5. round' \in Round /\ ctl' \in Control /\ passed' \in SUBSET Player
  BY <1>4, BegunType, FinishEntryType DEF TypeOK
<1> QED
  BY <1>3, <1>5 DEF EnterDeclareAttackers, TypeOK

LEMMA EnterDeclareBlockersType ==
  ASSUME TypeOK, EnterDeclareBlockers
  PROVE  TypeOK'
<1>1. PICK noLegalBlock \in {FALSE, combat.attacking} :
        /\ combat' = [combat EXCEPT !.blocked = noLegalBlock]
        /\ \E r1 \in Begun(round) :
             \E r2 \in IF noLegalBlock THEN Place("block", r1) ELSE {r1} :
               FinishEntry(r2, ~combat.attacking)
  BY DEF EnterDeclareBlockers
<1>2. combat' \in Combat
  BY <1>1 DEF TypeOK, Combat
<1>3. PICK r1 \in Begun(round) :
        \E r2 \in IF noLegalBlock THEN Place("block", r1) ELSE {r1} :
          FinishEntry(r2, ~combat.attacking)
  BY <1>1
<1>4. r1 \in Round
  BY BegunType DEF TypeOK
<1>5. PICK r2 \in IF noLegalBlock THEN Place("block", r1) ELSE {r1} :
        FinishEntry(r2, ~combat.attacking)
  BY <1>3
<1>6. r2 \in Round
  BY <1>4, PlaceType DEF Source
<1>7. (~combat.attacking) \in BOOLEAN
  OBVIOUS
<1>8. round' \in Round /\ ctl' \in Control /\ passed' \in SUBSET Player
  BY <1>5, <1>6, <1>7, FinishEntryType
<1> QED
  BY <1>2, <1>8 DEF EnterDeclareBlockers, TypeOK

LEMMA EnterDamageType ==
  ASSUME TypeOK, EnterDamage
  PROVE  TypeOK'
<1>1. round \in Round /\ combat \in Combat
  BY DEF TypeOK
<1>2. CASE (\E r \in Begun(round) : FinishEntry(r, TRUE)) /\ UNCHANGED << combat, board >>
  <2>1. round' \in Round /\ ctl' \in Control /\ passed' \in SUBSET Player
    BY <1>1, <1>2, BegunType, FinishEntryType
  <2> QED
    BY <1>2, <2>1 DEF EnterDamage, TypeOK
<1>3. CASE /\ \E assigners \in SUBSET Player \ {{}} :
                combat' = [combat EXCEPT !.open = TRUE, !.owing = assigners]
           /\ \E r \in Begun(round) : FinishEntry(r, FALSE)
           /\ UNCHANGED board
  <2>1. round' \in Round /\ ctl' \in Control /\ passed' \in SUBSET Player
    BY <1>1, <1>3, BegunType, FinishEntryType
  <2>2. combat' \in Combat
    BY <1>1, <1>3 DEF Combat
  <2> QED
    BY <1>3, <2>1, <2>2 DEF EnterDamage, TypeOK
<1>4. CASE /\ combat' \in Survivors([combat EXCEPT !.owing = {}]) /\ board' = "due"
           /\ \E r1 \in Place("damage", round) : \E r2 \in Begun(r1) : FinishEntry(r2, FALSE)
  <2>1. PICK r1 \in Place("damage", round) : \E r2 \in Begun(r1) : FinishEntry(r2, FALSE)
    BY <1>4
  <2>2. r1 \in Round
    BY <1>1, PlaceType DEF Source
  <2>3. round' \in Round /\ ctl' \in Control /\ passed' \in SUBSET Player
    BY <2>1, <2>2, BegunType, FinishEntryType
  <2>4. [combat EXCEPT !.owing = {}] \in Combat
    BY <1>1 DEF Combat
  <2>5. combat' \in Combat /\ board' \in Boards
    BY <1>4, <2>4, SurvivorsType DEF Boards
  <2> QED
    BY <2>3, <2>5 DEF EnterDamage, TypeOK
<1> QED
  BY <1>2, <1>3, <1>4 DEF EnterDamage

LEMMA EnterCleanupType ==
  ASSUME TypeOK, EnterCleanup
  PROVE  TypeOK'
<1> DEFINE ask == [kind |-> "cleanup", by |-> active, id |-> 0]
<1>1. round \in Round /\ round.choices \in Seq(Choice)
  BY DEF TypeOK, Round
<1>2. CASE FinishEntry([round EXCEPT !.holder = active, !.choices = Append(@, ask)], FALSE)
           /\ UNCHANGED owed
  <2>1. ask \in Choice
    BY DEF TypeOK, Choice, ChoiceKind
  <2>2. Append(round.choices, ask) \in Seq(Choice)
    BY <1>1, <2>1, AppendProperties
  <2>3. [round EXCEPT !.holder = active, !.choices = Append(@, ask)] \in Round
    BY <1>1, <2>2 DEF TypeOK, Round
  <2>4. round' \in Round /\ ctl' \in Control /\ passed' \in SUBSET Player
    BY <1>2, <2>3, FinishEntryType
  <2> QED
    BY <1>2, <2>4 DEF EnterCleanup, TypeOK
<1>3. CASE \E r \in Delayed(round) :
             LET window == Len(r.stack) > Len(round.stack) \/ r.held
             IN  /\ owed' = [Undelayed EXCEPT !.cleanup = @ \/ window]
                 /\ FinishEntry(r, ~window)
  <2>1. PICK r \in Delayed(round) :
          /\ owed' = [Undelayed EXCEPT
                        !.cleanup = @ \/ (Len(r.stack) > Len(round.stack) \/ r.held)]
          /\ FinishEntry(r, ~(Len(r.stack) > Len(round.stack) \/ r.held))
    BY <1>3
  <2>2. r \in Round
    BY <1>1, DelayedType
  <2>3. (~(Len(r.stack) > Len(round.stack) \/ r.held)) \in BOOLEAN
    OBVIOUS
  <2>4. round' \in Round /\ ctl' \in Control /\ passed' \in SUBSET Player
    BY <2>1, <2>2, <2>3, FinishEntryType
  <2>5. owed' \in Owed
    BY <2>1, UndelayedType DEF Owed
  <2> QED
    BY <2>4, <2>5 DEF EnterCleanup, TypeOK
<1> QED
  BY <1>2, <1>3 DEF EnterCleanup

-----------------------------------------------------------------------------
(* The end of a mutation.                                                  *)
LEMMA ClosingType ==
  ASSUME TypeOK, Sweep \/ Recheck \/ LegendSettled \/ DamageDealt
  PROVE  TypeOK'
<1>1. round \in Round /\ active \in Player
  BY DEF TypeOK
<1>2. CASE Sweep
  <2>1. ctl' \in Control
    BY <1>2 DEF Sweep, AtRest, Control
  <2>2. \/ UNCHANGED << round, board, combat, over >>
        \/ \E s \in CheckStateBasedActions(round) : After(s)
    BY <1>2 DEF Sweep
  <2>3. round' \in Round /\ board' \in Boards /\ combat' \in Combat /\ over' \in BOOLEAN
    BY <1>1, <2>2, CheckType, AfterType DEF TypeOK
  <2> QED
    BY <1>2, <2>1, <2>3 DEF Sweep, TypeOK
<1>3. CASE Recheck
  <2>1. PICK s \in CheckStateBasedActions(round) : After(s) /\ Halt
    BY <1>3 DEF Recheck
  <2>2. s \in Outcome
    BY <1>1, CheckType
  <2> QED
    BY <1>3, <2>1, <2>2, AfterType, HaltType DEF Recheck, TypeOK
<1>4. CASE LegendSettled
  <2>1. PICK s \in CheckStateBasedActions(round) :
          /\ board' = s.board /\ combat' = s.combat /\ over' = s.over
          /\ round' = IF s.round.choices = <<>> /\ ~s.over
                      THEN [s.round EXCEPT !.holder = active] ELSE s.round
    BY <1>4 DEF LegendSettled
  <2>2. s \in Outcome
    BY <1>1, CheckType
  <2>3. board' \in Boards /\ combat' \in Combat /\ over' \in BOOLEAN /\ s.round \in Round
    BY <2>1, <2>2 DEF Outcome
  <2>4. round' \in Round
    BY <1>1, <2>1, <2>3 DEF Round
  <2> QED
    BY <1>4, <2>3, <2>4, HaltType DEF LegendSettled, TypeOK
<1>5. CASE DamageDealt
  <2>1. PICK s \in CheckStateBasedActions(round) :
          /\ board' = s.board /\ combat' = s.combat /\ over' = s.over
          /\ round' = IF s.over THEN s.round ELSE Grant(s.round, active)
    BY <1>5 DEF DamageDealt
  <2>2. s \in Outcome
    BY <1>1, CheckType
  <2>3. board' \in Boards /\ combat' \in Combat /\ over' \in BOOLEAN /\ s.round \in Round
    BY <2>1, <2>2 DEF Outcome
  <2>4. round' \in Round
    BY <1>1, <2>1, <2>3, GrantType
  <2>5. ctl' \in Control
    BY <1>5, GotoType, HaltType DEF DamageDealt, Engine
  <2> QED
    BY <1>5, <2>3, <2>4, <2>5 DEF DamageDealt, TypeOK
<1> QED
  BY <1>2, <1>3, <1>4, <1>5

-----------------------------------------------------------------------------
(* The mutations.                                                          *)
LEMMA PassPriorityType ==
  ASSUME TypeOK, NEW p \in Player, PassPriority(p)
  PROVE  TypeOK'
<1> DEFINE n == round.passes + 1
<1>1. round \in Round /\ n \in Nat /\ Opponent(p) \in Player
  BY OpponentIsOther DEF TypeOK, Round
<1>2. \/ /\ Begin(IF round.stack # <<>> THEN "resolve" ELSE "advance", "pass", TRUE)
         /\ round' = [round EXCEPT !.passes = n]
      \/ /\ Begin("drain", "drain", TRUE)
         /\ round' = [round EXCEPT !.passes = n, !.holder = Opponent(p)]
  BY DEF PassPriority
<1> HIDE DEF n
<1>3. round' \in Round
  BY <1>1, <1>2 DEF Round
<1>4. \/ Begin("resolve", "pass", TRUE) \/ Begin("advance", "pass", TRUE)
      \/ Begin("drain", "drain", TRUE)
  BY <1>2
<1>5. ctl' \in Control
  BY <1>4, BeginType DEF Engine
<1>6. passed' \in SUBSET Player
  BY DEF PassPriority, TypeOK
<1> QED
  BY <1>3, <1>5, <1>6 DEF PassPriority, TypeOK

(* A function with one of its values replaced.                             *)
LEMMA ReplacedType ==
  ASSUME NEW S, NEW f \in [Player -> S], NEW p \in Player, NEW x \in S
  PROVE  [f EXCEPT ![p] = x] \in [Player -> S]
OBVIOUS

LEMMA IntentsType ==
  ASSUME TypeOK, NEW p \in Player,
         EndTurn(p) \/ PassUntilAction(p) \/ CancelAutoPass(p) \/ Concede(p)
  PROVE  TypeOK'
<1>1. /\ intent \in Intent /\ ctl \in Control /\ Len(round.stack) \in Nat
      /\ NoIds \in [ObjectId -> Nat] /\ Snapshot(round) \in [ObjectId -> Nat]
  BY BaselineType, LenProperties DEF TypeOK, Round
<1>2. ASSUME Queues(p) \/ Presses(p)
      PROVE  ctl' \in Control
  BY <1>1, <1>2, BeginType DEF Queues, Presses, Engine
<1>3. CASE EndTurn(p)
  <2> DEFINE queued == intent.queued \cup {p}
             auto == intent.auto \cup {p}
  <2>1. queued \in SUBSET Player /\ auto \in SUBSET Player
    BY <1>1 DEF Intent
  <2>2. \/ intent' = [intent EXCEPT !.queued = queued]
        \/ intent' = [intent EXCEPT !.auto = auto]
    BY <1>3 DEF EndTurn
  <2> HIDE DEF queued, auto
  <2>3. intent' \in Intent
    BY <1>1, <2>1, <2>2 DEF Intent
  <2> QED
    BY <1>2, <1>3, <2>3 DEF EndTurn, TypeOK
<1> DEFINE with(b, ids) == [b EXCEPT ![p] = ids]
<1>6. /\ \A ids \in [ObjectId -> Nat] :
           /\ with(intent.base, ids) \in [Player -> [ObjectId -> Nat]]
           /\ with(intent.wbase, ids) \in [Player -> [ObjectId -> Nat]]
      /\ \A n \in Nat : [intent.seen EXCEPT ![p] = n] \in [Player -> Nat]
  <2>1. /\ intent.base \in [Player -> [ObjectId -> Nat]]
        /\ intent.wbase \in [Player -> [ObjectId -> Nat]] /\ intent.seen \in [Player -> Nat]
    BY <1>1 DEF Intent
  <2> QED
    BY <2>1, ReplacedType, Zenon
<1>4. CASE PassUntilAction(p)
  <2> DEFINE waits == [intent.wbase EXCEPT ![p] = Snapshot(round)]
             arms == [intent.base EXCEPT ![p] = Snapshot(round)]
             seen == [intent.seen EXCEPT ![p] = Len(round.stack)]
             waiting == intent.waiting \cup {p}
             armed == intent.armed \cup {p}
  <2>0. waiting \in SUBSET Player /\ armed \in SUBSET Player
    BY <1>1 DEF Intent
  <2>1. /\ waits \in [Player -> [ObjectId -> Nat]] /\ arms \in [Player -> [ObjectId -> Nat]]
        /\ seen \in [Player -> Nat]
    BY <1>1, <1>6
  <2>3. \/ intent' = [intent EXCEPT !.waiting = waiting, !.wbase = waits, !.seen = seen]
        \/ intent' = [intent EXCEPT !.armed = armed, !.base = arms, !.seen = seen]
    BY <1>4 DEF PassUntilAction
  <2> HIDE DEF waits, arms, seen, waiting, armed
  <2>4. intent' \in Intent
    BY <1>1, <2>0, <2>1, <2>3 DEF Intent
  <2> QED
    BY <1>2, <1>4, <2>4 DEF PassUntilAction, TypeOK
<1>5. CASE CancelAutoPass(p)
  <2> DEFINE base == [intent.base EXCEPT ![p] = NoIds]
             wbase == [intent.wbase EXCEPT ![p] = NoIds]
             seen == [intent.seen EXCEPT ![p] = 0]
  <2>1. /\ base \in [Player -> [ObjectId -> Nat]] /\ wbase \in [Player -> [ObjectId -> Nat]]
        /\ seen \in [Player -> Nat]
    BY <1>1, <1>6
  <2>2. intent' = [intent EXCEPT
       !.auto = @ \ {p}, !.queued = @ \ {p}, !.once = @ \ {p}, !.armed = @ \ {p},
       !.waiting = @ \ {p}, !.base = base, !.wbase = wbase, !.seen = seen]
    BY <1>5 DEF CancelAutoPass
  <2> HIDE DEF base, wbase, seen
  <2>3. intent' \in Intent
    BY <1>1, <2>1, <2>2 DEF Intent
  <2> QED
    BY <1>5, <2>3 DEF CancelAutoPass, TypeOK
<1>7. CASE Concede(p)
  BY <1>7 DEF Concede, TypeOK
<1> QED
  BY <1>3, <1>4, <1>5, <1>7

LEMMA CastType ==
  ASSUME TypeOK, NEW p \in Player, NEW keep \in BOOLEAN, Cast(p, keep)
  PROVE  TypeOK'
<1>1. PICK c \in Card :
        round' \in Place("cast",
          [round EXCEPT !.stack = Append(@, [id |-> c, by |-> p, needs |-> FALSE]),
                        !.passes = 0, !.holder = Opponent(p)])
  BY DEF Cast
<1> DEFINE item == [id |-> c, by |-> p, needs |-> FALSE]
<1>2. item \in Item
  BY DEF Item
<1>3. round \in Round /\ round.stack \in Seq(Item) /\ Opponent(p) \in Player
  BY OpponentIsOther DEF TypeOK, Round
<1>4. round' \in Place("cast", [round EXCEPT !.stack = Append(@, item),
                                             !.passes = 0, !.holder = Opponent(p)])
  BY <1>1
<1> HIDE DEF item
<1>5. Append(round.stack, item) \in Seq(Item)
  BY <1>2, <1>3, AppendProperties
<1>6. [round EXCEPT !.stack = Append(@, item), !.passes = 0, !.holder = Opponent(p)] \in Round
  BY <1>3, <1>5 DEF Round
<1>7. round' \in Round
  BY <1>4, <1>6, PlaceType DEF Source
<1>8. ctl' \in Control
  BY BeginType DEF Cast, Engine
<1>9. intent' \in Intent
  BY DEF Cast, TypeOK, Intent
<1>10. board' \in Boards /\ passed' \in SUBSET Player
  BY DEF Cast, TypeOK, Boards
<1> QED
  BY <1>7, <1>8, <1>9, <1>10 DEF Cast, TypeOK

(* A queue of choices without its head.                                    *)
LEMMA TailType ==
  ASSUME NEW r \in Round, r.choices # <<>>
  PROVE  [r EXCEPT !.choices = Tail(@)] \in Round
<1>1. Tail(r.choices) \in Seq(Choice)
  BY HeadTailProperties DEF Round
<1> QED
  BY <1>1 DEF Round

LEMMA DequeuedType ==
  ASSUME NEW r \in Round, r.choices # <<>>
  PROVE  Dequeued(r) \in Round
BY TailType, HeadChooserType DEF Dequeued

(* The bottom-most object with an id that is on the stack.                 *)
LEMMA LeastPlace ==
  ASSUME NEW r \in Round, NEW id \in StackIds(r)
  PROVE  /\ Min(Places(r, id)) \in Places(r, id) /\ Places(r, id) \subseteq Nat
         /\ \A k \in Places(r, id) : Min(Places(r, id)) <= k
<1>1. DOMAIN r.stack \subseteq Nat
  BY LenProperties DEF Round
<1>2. Places(r, id) \subseteq Nat /\ Places(r, id) # {}
  BY <1>1 DEF Places, StackIds
<1> HIDE DEF Places
<1>3. PICK d \in Places(r, id) : \A e \in Places(r, id) : ~(<<e, d>> \in OpToRel(<, Nat))
  BY <1>2, NatLessThanWellFounded, WFMin
<1>4. ASSUME NEW e \in Places(r, id)
      PROVE  d <= e
  <2>1. d \in Nat /\ e \in Nat /\ ~(<<e, d>> \in OpToRel(<, Nat))
    BY <1>2, <1>3
  <2> QED
    BY <2>1 DEF OpToRel
<1> QED
  BY <1>2, <1>4 DEF Min

LEMMA AnswersType ==
  ASSUME TypeOK, NEW p \in Player,
         AnswerResolution(p) \/ AnswerLegend(p) \/ AnswerUntap(p) \/ AnswerDraw(p)
  PROVE  TypeOK'
<1>1. round \in Round /\ round.choices # <<>>
  BY DEF TypeOK, AnswerResolution, AnswerLegend, AnswerUntap, AnswerDraw, Answers
<1>2. [round EXCEPT !.choices = Tail(@)] \in Round
  BY <1>1, TailType
<1>3. CASE AnswerResolution(p)
  <2> DEFINE place == Min(Places(round, Head(round.choices).id))
  <2>1. Begin("sweep", "answer", TRUE) \/ Begin("resolve", "answer", TRUE)
    BY <1>3 DEF AnswerResolution
  <2>2. ctl' \in Control
    BY <2>1, BeginType DEF Engine
  <2>3. place \in Nat /\ round' = Dequeued([round EXCEPT !.told = place])
    BY <1>1, <1>3, LeastPlace DEF AnswerResolution
  <2> HIDE DEF place
  <2>4. [round EXCEPT !.told = place] \in Round /\ [round EXCEPT !.told = place].choices # <<>>
    BY <1>1, <2>3 DEF Round
  <2>5. round' \in Round
    BY <2>3, <2>4, DequeuedType
  <2> QED
    BY <1>3, <2>2, <2>5 DEF AnswerResolution, TypeOK
<1>4. CASE AnswerLegend(p)
  <2>1. ctl' \in Control /\ board' \in Boards
    BY <1>4, BeginType DEF AnswerLegend, Engine, Boards
  <2> QED
    BY <1>2, <1>4, <2>1 DEF AnswerLegend, TypeOK
<1>5. CASE AnswerUntap(p)
  <2>1. Begin("sweep", "answer", TRUE) \/ Begin("advance", "answer", TRUE)
    BY <1>5 DEF AnswerUntap
  <2>2. ctl' \in Control
    BY <2>1, BeginType DEF Engine
  <2>3. round' \in Round
    BY <1>1, <1>2, <1>5, PlaceType DEF AnswerUntap, Source
  <2> QED
    BY <1>5, <2>2, <2>3 DEF AnswerUntap, TypeOK
<1>6. CASE AnswerDraw(p)
  <2>1. PICK r \in Place("event", [round EXCEPT !.choices = Tail(@)]) :
          /\ round' = IF r.choices # <<>> THEN HeadChooser(r) ELSE Grant(r, active)
          /\ Begin(IF r.choices # <<>> THEN "sweep" ELSE "drain", "answer", TRUE)
    BY <1>6 DEF AnswerDraw
  <2>2. r \in Round
    BY <1>2, PlaceType DEF Source
  <2>3. Begin("sweep", "answer", TRUE) \/ Begin("drain", "answer", TRUE)
    BY <2>1
  <2>4. ctl' \in Control /\ round' \in Round
    BY <2>1, <2>2, <2>3, BeginType, HeadChooserType, GrantType DEF Engine, TypeOK
  <2> QED
    BY <1>6, <2>4 DEF AnswerDraw, TypeOK
<1> QED
  BY <1>3, <1>4, <1>5, <1>6

(* The slice of a controller in the order submitted is still one.          *)
LEMMA OrdersType ==
  ASSUME NEW s \in Seq(Trigger)
  PROVE  Orders(s) \subseteq Seq(Trigger)
<1> SUFFICES ASSUME NEW o \in Orders(s)
             PROVE  o \in Seq(Trigger)
  OBVIOUS
<1>1. PICK f \in [DOMAIN s -> DOMAIN s] : o = [k \in DOMAIN s |-> s[f[k]]]
  BY DEF Orders
<1>2. DOMAIN s = 1..Len(s) /\ Len(s) \in Nat /\ \A k \in 1..Len(s) : s[k] \in Trigger
  BY ElementOfSeq, LenProperties
<1>3. \A k \in 1..Len(s) : s[f[k]] \in Trigger
  BY <1>1, <1>2
<1> QED
  BY <1>1, <1>2, <1>3, IsASeq

LEMMA AnswerOrderType ==
  ASSUME TypeOK, NEW p \in Player, AnswerOrder(p)
  PROVE  TypeOK'
<1>1. /\ round \in Round /\ round.choices # <<>> /\ active \in Player
      /\ round.stack \in Seq(Item) /\ round.batch \in Batch
      /\ round.batch.of \in [Player -> Seq(Trigger)] /\ round.batch.lead \in Player
  BY DEF TypeOK, AnswerOrder, Answers, Round, Batch
<1>2. PICK slice \in Orders(round.batch.of[p]) :
        LET b == [round.batch EXCEPT !.of[p] = slice]
            more == Rest(round) # <<>> /\ Head(Rest(round)).kind = "order"
        IN  IF more
            THEN /\ round' = Dequeued([round EXCEPT !.batch = b])
                 /\ Begin("sweep", "answer", TRUE)
            ELSE /\ round' = Land([round EXCEPT
                      !.choices = Tail(@), !.held = FALSE, !.batch = NoBatch(active),
                      !.stack = @ \o b.of[b.lead] \o b.of[Opponent(b.lead)]], active)
                 /\ Begin("recheck", "answer", TRUE)
  BY DEF AnswerOrder
<1> DEFINE b == [round.batch EXCEPT !.of[p] = slice]
           parked == [round EXCEPT !.batch = b]
           landed == [round EXCEPT
             !.choices = Tail(@), !.held = FALSE, !.batch = NoBatch(active),
             !.stack = @ \o b.of[b.lead] \o b.of[Opponent(b.lead)]]
<1>3. slice \in Seq(Trigger)
  BY <1>1, OrdersType
<1>4. b \in Batch /\ b.lead \in Player
  BY <1>1, <1>3 DEF Batch
<1>5. \/ round' = Dequeued(parked) /\ Begin("sweep", "answer", TRUE)
      \/ round' = Land(landed, active) /\ Begin("recheck", "answer", TRUE)
  BY <1>2
<1> HIDE DEF b
<1>6. round.stack \o b.of[b.lead] \o b.of[Opponent(b.lead)] \in Seq(Item)
  BY <1>1, <1>4, OpponentIsOther, StackedType
<1>7. Tail(round.choices) \in Seq(Choice) /\ NoBatch(active) \in Batch
  BY <1>1, HeadTailProperties, NoBatchType DEF Round
<1>8. parked \in Round /\ parked.choices # <<>>
  BY <1>1, <1>4 DEF Round
<1>9. landed \in Round
  BY <1>1, <1>6, <1>7 DEF Round
<1> HIDE DEF parked, landed
<1>10. round' \in Round
  BY <1>1, <1>5, <1>8, <1>9, DequeuedType, LandType
<1>11. ctl' \in Control
  BY <1>5, BeginType DEF Engine
<1> QED
  BY <1>10, <1>11 DEF AnswerOrder, TypeOK

LEMMA AnswerCleanupType ==
  ASSUME TypeOK, NEW p \in Player, AnswerCleanup(p)
  PROVE  TypeOK'
<1> DEFINE r == [round EXCEPT !.choices = Tail(@)]
           parked(x) == x.held \/ x.target # {}
           window(x) == Len(x.stack) > Len(r.stack) \/ x.held
<1>1. r \in Round
  BY TailType DEF TypeOK, AnswerCleanup, Answers
<1>2. PICK r1 \in Delayed(r) : \E r2 \in Place("event", r1) :
        /\ owed' = [Undelayed EXCEPT !.cleanup = @ \/ window(r2)]
        /\ round' = IF window(r2) /\ ~parked(r2) THEN Grant(r2, active) ELSE r2
        /\ Begin(IF ~window(r2) THEN "advance" ELSE IF parked(r2) THEN "sweep" ELSE "drain",
                 "answer", TRUE)
  BY DEF AnswerCleanup
<1>3. r1 \in Round
  BY <1>1, DelayedType
<1>4. PICK r2 \in Place("event", r1) :
        /\ owed' = [Undelayed EXCEPT !.cleanup = @ \/ window(r2)]
        /\ round' = IF window(r2) /\ ~parked(r2) THEN Grant(r2, active) ELSE r2
        /\ Begin(IF ~window(r2) THEN "advance" ELSE IF parked(r2) THEN "sweep" ELSE "drain",
                 "answer", TRUE)
  BY <1>2
<1>5. r2 \in Round
  BY <1>3, PlaceType DEF Source
<1>6. round' \in Round
  BY <1>4, <1>5, GrantType DEF TypeOK
<1>7. owed' \in Owed
  BY <1>4, UndelayedType DEF Owed
<1>8. \E pc \in Engine : Begin(pc, "answer", TRUE)
  BY <1>4 DEF Engine
<1>9. ctl' \in Control
  BY <1>8, BeginType
<1> QED
  BY <1>6, <1>7, <1>9 DEF AnswerCleanup, TypeOK

(* Targets: announced, withdrawn, offered.                                 *)
LEMMA AnnouncedType ==
  ASSUME NEW r \in Round, NEW id
  PROVE  Announced(r, id) \in Round
<1> DEFINE stack == [ k \in DOMAIN r.stack |->
             IF r.stack[k].id = id THEN [r.stack[k] EXCEPT !.needs = FALSE] ELSE r.stack[k] ]
<1>1. DOMAIN r.stack = 1..Len(r.stack) /\ Len(r.stack) \in Nat
  BY LenProperties DEF Round
<1>2. \A k \in 1..Len(r.stack) : r.stack[k] \in Item
  BY ElementOfSeq DEF Round
<1>3. \A k \in 1..Len(r.stack) : [r.stack[k] EXCEPT !.needs = FALSE] \in Item
  BY <1>2 DEF Item, Trigger
<1>4. stack \in Seq(Item)
  BY <1>1, <1>2, <1>3, IsASeq
<1>5. Announced(r, id) = [r EXCEPT !.target = {}, !.stack = stack]
  BY DEF Announced
<1> HIDE DEF stack
<1> QED
  BY <1>4, <1>5 DEF Round

LEMMA WithdrawnType ==
  ASSUME NEW r \in Round, NEW id, NEW k \in Places(r, id)
  PROVE  Withdrawn(r, k) \in Round
<1>1. r.stack \in Seq(Item) /\ Len(r.stack) \in Nat /\ DOMAIN r.stack = 1..Len(r.stack)
  BY LenProperties DEF Round
<1>2. \A i \in 1..Len(r.stack) : r.stack[i] \in Item
  BY <1>1, ElementOfSeq
<1>3. k \in 1..Len(r.stack)
  BY <1>1 DEF Places
<1>4. k - 1 \in Int /\ k + 1 \in Int /\ 1 \in Int /\ Len(r.stack) \in Int
  BY <1>1, <1>3
<1>5. \A i \in 1..(k - 1) : r.stack[i] \in Item
  BY <1>1, <1>2, <1>3
<1>6. \A i \in (k + 1)..Len(r.stack) : r.stack[i] \in Item
  BY <1>1, <1>2, <1>3
<1>7. SubSeq(r.stack, 1, k - 1) \in Seq(Item) /\ SubSeq(r.stack, k + 1, Len(r.stack)) \in Seq(Item)
  BY <1>4, <1>5, <1>6, SubSeqProperties
<1>8. RemoveAt(r.stack, k) \in Seq(Item)
  BY <1>7, ConcatProperties DEF RemoveAt
<1> QED
  BY <1>8 DEF Round, Withdrawn

LEMMA LandTargetType ==
  ASSUME TypeOK, NEW r \in Round, LandTarget(r)
  PROVE  round' \in Round /\ ctl' \in Control /\ passed' \in SUBSET Player
<1>1. Begin("rest", "drain", FALSE) \/ Begin("drain", "drain", FALSE)
  BY DEF LandTarget
<1>2. ctl' \in Control
  BY <1>1, BeginType DEF Engine
<1>3. round' \in Round
  BY LandType DEF LandTarget, TypeOK
<1> QED
  BY <1>2, <1>3 DEF LandTarget

LEMMA TargetsType ==
  ASSUME TypeOK, NEW p \in Player, ChooseTarget(p) \/ DeclineTarget(p) \/ Retarget(p)
  PROVE  TypeOK'
<1>1. round \in Round /\ active \in Player
  BY DEF TypeOK
<1>2. CASE ChooseTarget(p)
  <2>1. PICK t \in Chosen("trigger", p) : LandTarget(Announced(round, t.id))
    BY <1>2 DEF ChooseTarget
  <2>2. round' \in Round /\ ctl' \in Control /\ passed' \in SUBSET Player
    BY <1>1, <2>1, AnnouncedType, LandTargetType
  <2>3. board' \in Boards
    BY <1>2 DEF ChooseTarget, TypeOK, Boards
  <2> QED
    BY <1>2, <2>2, <2>3 DEF ChooseTarget, TypeOK
<1>3. CASE DeclineTarget(p)
  <2>1. PICK t \in Chosen("trigger", p) : \E k \in Places(round, t.id) :
          LandTarget(Withdrawn(round, k)) /\ intent' = Leaves(intent, k)
    BY <1>3 DEF DeclineTarget
  <2>2. PICK k \in Places(round, t.id) :
          LandTarget(Withdrawn(round, k)) /\ intent' = Leaves(intent, k)
    BY <2>1
  <2>3. Withdrawn(round, k) \in Round
    BY <1>1, WithdrawnType
  <2>4. round' \in Round /\ ctl' \in Control /\ passed' \in SUBSET Player
    BY <2>2, <2>3, LandTargetType
  <2>5. k \in Nat \ {0}
    BY LenProperties DEF Places, TypeOK, Round
  <2>6. intent' \in Intent
    BY <2>2, <2>5, LeavesType DEF TypeOK
  <2> QED
    BY <1>3, <2>4, <2>6 DEF DeclineTarget, TypeOK
<1>4. CASE Retarget(p)
  <2>1. [round EXCEPT !.target = {}] \in Round
    BY <1>1 DEF Round
  <2>2. Grant([round EXCEPT !.target = {}], active) \in Round
    BY <1>1, <2>1, GrantType
  <2>3. round' \in Round
    BY <1>4, <2>2, PlaceType DEF Retarget, Source
  <2>4. ctl' \in Control
    BY <1>4, BeginType DEF Retarget, Engine
  <2> QED
    BY <1>4, <2>3, <2>4 DEF Retarget, TypeOK
<1> QED
  BY <1>2, <1>3, <1>4

(* The declaration of attackers and its taxes.                             *)
LEMMA ChargeTaxesType ==
  ASSUME TypeOK, NEW c \in Combat, ChargeTaxes(c)
  PROVE  round' \in Round /\ ctl' \in Control /\ combat' \in Combat
<1>1. round \in Round /\ active \in Player
  BY DEF TypeOK
<1>2. CASE FinalizeConfirmAttackers(c)
  <2>1. combat' \in Combat
    BY <1>2 DEF FinalizeConfirmAttackers, Combat
  <2>2. PICK r \in IF c.attacking THEN Place("attack", round) ELSE {round} :
          round' = Grant(r, active)
    BY <1>2 DEF FinalizeConfirmAttackers
  <2>3. r \in Round
    BY <1>1, PlaceType DEF Source
  <2>4. ctl' \in Control
    BY <1>2, BeginType DEF FinalizeConfirmAttackers, Engine
  <2> QED
    BY <1>1, <2>1, <2>2, <2>3, <2>4, GrantType
<1>3. ASSUME NEW tax \in Tax, Park(c, tax)
      PROVE  round' \in Round /\ ctl' \in Control /\ combat' \in Combat
  <2>1. combat' \in Combat
    BY <1>3 DEF Park, Combat
  <2>2. ctl' \in Control
    BY <1>3, BeginType DEF Park
  <2> QED
    BY <1>1, <1>3, <2>1, <2>2 DEF Park
<1>4. FinalizeConfirmAttackers(c) \/ Park(c, "mana") \/ Park(c, "sacrifice")
  BY DEF ChargeTaxes
<1> QED
  BY <1>2, <1>3, <1>4 DEF Tax

LEMMA DeclarationsType ==
  ASSUME TypeOK, NEW p \in Player,
         \/ ToggleAttacker(p) \/ ConfirmAttackers(p) \/ PayAttackTax(p)
         \/ CancelAttackTax(p) \/ ConfirmBlockers(p)
  PROVE  TypeOK'
<1>1. combat \in Combat /\ round \in Round /\ active \in Player
  BY DEF TypeOK
<1>2. CASE ToggleAttacker(p)
  <2>1. (~combat.attacking) \in BOOLEAN
    OBVIOUS
  <2>2. combat' \in Combat
    BY <1>1, <1>2, <2>1 DEF ToggleAttacker, Combat
  <2> QED
    BY <1>2, <2>2 DEF ToggleAttacker, TypeOK
<1>3. CASE ConfirmAttackers(p)
  BY <1>1, <1>3, ChargeTaxesType DEF ConfirmAttackers, TypeOK
<1>4. CASE PayAttackTax(p)
  <2>1. PICK tax \in combat.parked : ChargeTaxes(Paid(tax))
    BY <1>4 DEF PayAttackTax
  <2>2. Paid(tax) \in Combat
    BY <1>1 DEF Paid, Combat
  <2>3. round' \in Round /\ ctl' \in Control /\ combat' \in Combat
    BY <2>1, <2>2, ChargeTaxesType
  <2> QED
    BY <1>4, <2>3 DEF PayAttackTax, TypeOK
<1>5. CASE CancelAttackTax(p)
  <2>1. combat' \in Combat
    BY <1>1, <1>5 DEF CancelAttackTax, Combat
  <2>2. ctl' \in Control
    BY <1>5, BeginType DEF CancelAttackTax
  <2> QED
    BY <1>5, <2>1, <2>2 DEF CancelAttackTax, TypeOK
<1>6. CASE ConfirmBlockers(p)
  <2>1. combat' \in Combat
    BY <1>1, <1>6 DEF ConfirmBlockers, Combat
  <2>2. round' \in Round
    BY <1>1, <1>6, PlaceType, GrantType DEF ConfirmBlockers, Source
  <2>3. ctl' \in Control
    BY <1>6, BeginType DEF ConfirmBlockers, Engine
  <2> QED
    BY <1>6, <2>1, <2>2, <2>3 DEF ConfirmBlockers, TypeOK
<1> QED
  BY <1>2, <1>3, <1>4, <1>5, <1>6

LEMMA ConfirmDamageType ==
  ASSUME TypeOK, NEW p \in Player, ConfirmDamage(p)
  PROVE  TypeOK'
<1> DEFINE left == combat.owing \ {p}
           c == [combat EXCEPT !.owing = left, !.open = left # {}]
<1>1. combat \in Combat /\ round \in Round /\ left \in SUBSET Player
  BY DEF TypeOK, Combat
<1>2. (left # {}) \in BOOLEAN
  OBVIOUS
<1>3. /\ combat' \in IF left # {} THEN {c} ELSE Survivors(c)
      /\ IF left # {} THEN Begin("rest", "drain", FALSE) /\ UNCHANGED << round, board >>
         ELSE /\ Begin("dealt", "drain", FALSE) /\ board' = "due"
              /\ round' \in Place("damage", round)
  BY DEF ConfirmDamage
<1> HIDE DEF left
<1>4. c \in Combat
  BY <1>1, <1>2 DEF Combat
<1>5. combat' \in Combat
  BY <1>3, <1>4, SurvivorsType
<1>6. Begin("rest", "drain", FALSE) \/ Begin("dealt", "drain", FALSE)
  BY <1>3
<1>7. ctl' \in Control
  BY <1>6, BeginType DEF Engine
<1>8. round' \in Round /\ board' \in Boards
  BY <1>1, <1>3, PlaceType DEF TypeOK, Source, Boards
<1> QED
  BY <1>5, <1>7, <1>8 DEF ConfirmDamage, TypeOK

-----------------------------------------------------------------------------
LEMMA InitType == Init => TypeOK
<1> SUFFICES ASSUME Init
             PROVE  TypeOK
  OBVIOUS
<1>1. <<>> \in Seq(Item) /\ <<>> \in Seq(Choice) /\ <<>> \in Seq(Player)
  BY EmptySeq
<1>2. active \in Player /\ NoBatch(active) \in Batch
  BY NoBatchType DEF Init
<1>3. round \in Round
  BY <1>1, <1>2 DEF Init, Round
<1>4. intent \in Intent /\ combat \in Combat
  BY DEF Init, Intent, NoIntent, NoIds, Combat, NoCombat
<1>5. owed \in Owed
  BY <1>1 DEF Init, Owed
<1>6. phase \in Phase
  BY DEF Init, Phase, PHASE_ORDER
<1>7. ctl \in Control
  BY DEF Init, Control, AtRest
<1> QED
  BY <1>2, <1>3, <1>4, <1>5, <1>6, <1>7 DEF Init, TypeOK, Boards

LEMMA EngineType ==
  ASSUME TypeOK, EngineStep
  PROVE  TypeOK'
BY DrainType, CheckBeforePassType, TakeType, SuspendsType, ResolveType, RetargetOfferType,
   SettleType, AdvancePhaseType, AdvanceTurnType, EnterUntapType, EnterStepType,
   EnterDeclareAttackersType, EnterDeclareBlockersType, EnterDamageType, EnterCleanupType,
   ClosingType
   DEF EngineStep

LEMMA MutationType ==
  ASSUME TypeOK, NEW p \in Player, Mutation(p)
  PROVE  TypeOK'
BY PassPriorityType, IntentsType, CastType, AnswersType, AnswerOrderType, AnswerCleanupType,
   TargetsType, DeclarationsType, ConfirmDamageType
   DEF Mutation

(* The game always has the shape its code gives it: the engine never seats *)
(* priority, a choice, a target or a trigger on anything but the two       *)
(* players, nor loses a field of the round (GameState of gre/state.ts).    *)
THEOREM TypeCorrect == Spec => []TypeOK
<1>1. Init => TypeOK
  BY InitType
<1>2. TypeOK /\ [Next]_vars => TypeOK'
  <2> SUFFICES ASSUME TypeOK, [Next]_vars
               PROVE  TypeOK'
    OBVIOUS
  <2>1. CASE EngineStep
    BY <2>1, EngineType
  <2>2. CASE \E p \in Player : Mutation(p)
    BY <2>2, MutationType
  <2>3. CASE UNCHANGED vars
    BY <2>3 DEF TypeOK, vars
  <2> QED
    BY <2>1, <2>2, <2>3 DEF Next
<1> QED
  BY <1>1, <1>2, PTL DEF Spec
=============================================================================
